-------------------------- MODULE LoadIdentityProofs --------------------------
(***************************************************************************)
(* Loads and pulls do what their locks are for, for any tasks, tags,       *)
(* contents and mutexes.  Each registry is the one KeyedLockProofs proves  *)
(* about: a step here is a step of it or leaves it alone.                  *)
(***************************************************************************)
EXTENDS LoadIdentity, TLAPS

Loads == INSTANCE KeyedLockProofs WITH
  Keys <- Tags, registry <- loadRegistry, holder <- loadHolder, ticket <- loadTicket

Models == INSTANCE KeyedLockProofs WITH
  Keys <- Names, registry <- modelRegistry, holder <- modelHolder, ticket <- modelTicket

Outside == {"idle", "fast", "evict"}

\* Where a load or an unload works under its load lock.
Under == {"recheck", "pulling", "rejoin", "digest", "start", "remove", "bydigest"}

\* A request knows what its next step reads.
RequestFit(r) ==
  /\ r \in Requests
  /\ r.op = "pull" => r.pc = "idle"
  /\ r.pc \notin {"idle", "leave"} => r.key \in Names
  /\ r.pc \notin {"idle", "leave", "evict"} => r.lock \in Tags
  /\ r.pc \in {"digest", "start", "bydigest", "evict"} => r.digest \in Contents

\* The load lock of a request is where its next step supposes it.
LoadTicketFit(r, load) ==
  /\ r.pc \in Outside => load.stage = "out"
  /\ r.pc = "wait" => load.stage = "waiting" /\ load.key = r.lock
  /\ r.pc \in Under => load.stage = "holding" /\ load.key = r.lock

\* A thread that downloads is inside under the name it pulls; one that was
\* only asked to is on its way there.
PullFit(r, p, model) ==
  /\ p \in Pulls
  /\ p = NoPull => model.stage = "out"
  /\ p # NoPull => p.name \in Names /\ r.pc \in {"idle", "pulling", "leave"}
  /\ p.stage = "asked" => model.stage \in {"out", "waiting"}
  /\ p.stage = "asked" /\ model.stage = "waiting" => model.key = p.name
  /\ p.stage = "downloading" => model.stage = "holding" /\ model.key = p.name

TaskFit(r, p, load, model) == RequestFit(r) /\ LoadTicketFit(r, load) /\ PullFit(r, p, model)

TasksFit == \A t \in Tasks : TaskFit(req[t], pull[t], loadTicket[t], modelTicket[t])

LocksFit == Loads!LocksInv /\ Models!LocksInv

\* What the theorems rest on.  OneServerPerLock needs the locks to exclude,
\* and each request to be inside where its program says so.
IdentityInv ==
  TypeOK /\ LocksFit /\ TasksFit /\ OneServerPerLock

-----------------------------------------------------------------------------
(* The registries.                                                         *)

LEMMA ConstantsFit == Loads!KeyedLockAssumption /\ Models!KeyedLockAssumption
  BY NamesAssumption DEF Loads!KeyedLockAssumption, Models!KeyedLockAssumption, Names

LoadLocksStep == [Loads!LocksNext]_loadLocks

ModelLocksStep == [Models!LocksNext]_modelLocks

LEMMA LoadLocksMove ==
  ASSUME NEW t \in Tasks,
         \/ \E k \in Tags : LoadLocks!Clone(t, k)
         \/ LoadLocks!Acquire(t) \/ LoadLocks!GiveUp(t)
         \/ LoadLocks!Unlock(t) \/ LoadLocks!Release(t)
  PROVE  LoadLocksStep
  <1>1. Loads!LocksNext
    BY DEF Loads!LocksNext, Loads!Clone, LoadLocks!Clone, Loads!MutexOf, LoadLocks!MutexOf,
       Loads!Unused, LoadLocks!Unused, Loads!Clones, LoadLocks!Clones, Loads!Acquire,
       LoadLocks!Acquire, Loads!GiveUp, LoadLocks!GiveUp, Loads!Leaving, Loads!Unlock,
       LoadLocks!Unlock, Loads!Release, LoadLocks!Release, Loads!Removable,
       LoadLocks!Removable, Loads!NoTicket, LoadLocks!NoTicket
  <1>. QED BY <1>1 DEF LoadLocksStep

LEMMA ModelLocksMove ==
  ASSUME NEW t \in Tasks,
         \/ \E k \in Names : ModelLocks!Clone(t, k)
         \/ ModelLocks!Acquire(t) \/ ModelLocks!Leaving(t)
  PROVE  ModelLocksStep
  <1>1. Models!LocksNext
    BY DEF Models!LocksNext, Models!Clone, ModelLocks!Clone, Models!MutexOf, ModelLocks!MutexOf,
       Models!Unused, ModelLocks!Unused, Models!Clones, ModelLocks!Clones, Models!Acquire,
       ModelLocks!Acquire, Models!Leaving, ModelLocks!Leaving, Models!Unlock,
       ModelLocks!Unlock, Models!Release, ModelLocks!Release, Models!Removable,
       ModelLocks!Removable, Models!NoTicket, ModelLocks!NoTicket
  <1>. QED BY <1>1 DEF ModelLocksStep

LEMMA LocksInitFit == Init => LocksFit
  <1> SUFFICES ASSUME Init PROVE LocksFit
    OBVIOUS
  <1>1. Loads!LocksInit
    BY DEF Init, LoadLocks!LocksInit, Loads!LocksInit, LoadLocks!NoTicket, Loads!NoTicket
  <1>2. Models!LocksInit
    BY DEF Init, ModelLocks!LocksInit, Models!LocksInit, ModelLocks!NoTicket, Models!NoTicket
  <1>. QED BY <1>1, <1>2, ConstantsFit, Loads!LocksInitInv, Models!LocksInitInv DEF LocksFit

LEMMA LocksStayFit ==
  ASSUME LocksFit, LoadLocksStep, ModelLocksStep
  PROVE  LocksFit'
  <1>1. Loads!LocksInv'
    BY ConstantsFit, Loads!LocksStep DEF LocksFit, LoadLocksStep, loadLocks, Loads!lockVars
  <1>2. Models!LocksInv'
    BY ConstantsFit, Models!LocksStep DEF LocksFit, ModelLocksStep, modelLocks, Models!lockVars
  <1>. QED BY <1>1, <1>2 DEF LocksFit

-----------------------------------------------------------------------------
(* Requests, tickets and pulls.                                            *)

StoreTypeOK ==
  /\ store \in [Names -> Contents \cup {None}]
  /\ running \in [Names -> Servers \cup {None}]

RequestsTypeOK ==
  /\ req \in [Tasks -> Requests]
  /\ pull \in [Tasks -> Pulls]
  /\ DOMAIN loadTicket = Tasks /\ loadTicket = [t \in Tasks |-> loadTicket[t]]
  /\ DOMAIN modelTicket = Tasks /\ modelTicket = [t \in Tasks |-> modelTicket[t]]

\* A step leaves f alone, or changes it for t only.
Sets(f, t, v) == f' = [f EXCEPT ![t] = v] \/ (f' = f /\ v = f[t])

LEMMA TypesFit ==
  ASSUME TypeOK PROVE RequestsTypeOK /\ StoreTypeOK
  BY DEF TypeOK, RequestsTypeOK, StoreTypeOK, LoadLocks!LocksTypeOK, ModelLocks!LocksTypeOK

LEMMA NamesFit ==
  ASSUME TypeOK, NEW n \in Names
  PROVE  /\ Find(n) \subseteq Names /\ \A m \in Find(n) : store[m] \in Contents
         /\ CanonicalRef(n) \subseteq Names
         /\ Identity(n) \subseteq Tags
  <1>1. Find(n) \subseteq Names /\ \A m \in Find(n) : store[m] \in Contents
    BY NamesAssumption DEF Find, HeldBy, Names, TypeOK
  <1>. QED BY <1>1, NamesAssumption DEF CanonicalRef, Identity, StoredTag, Names

LEMMA TicketRecords ==
  ASSUME TypeOK, NEW t \in Tasks
  PROVE  /\ [loadTicket[t] EXCEPT !.stage = "holding"].stage = "holding"
         /\ [loadTicket[t] EXCEPT !.stage = "holding"].key = loadTicket[t].key
         /\ [modelTicket[t] EXCEPT !.stage = "holding"].stage = "holding"
         /\ [modelTicket[t] EXCEPT !.stage = "holding"].key = modelTicket[t].key
  BY DEF TypeOK, LoadLocks!LocksTypeOK, ModelLocks!LocksTypeOK, LoadLocks!Tickets,
     ModelLocks!Tickets

LEMMA TaskMoves ==
  ASSUME RequestsTypeOK, TasksFit, NEW t \in Tasks, NEW r, NEW p, NEW load, NEW model,
         Sets(req, t, r), Sets(pull, t, p), Sets(loadTicket, t, load),
         Sets(modelTicket, t, model), TaskFit(r, p, load, model)
  PROVE  TasksFit' /\ (req \in [Tasks -> Requests] /\ pull \in [Tasks -> Pulls])'
  <1>1. /\ req'[t] = r /\ pull'[t] = p /\ loadTicket'[t] = load /\ modelTicket'[t] = model
        /\ \A u \in Tasks : u # t =>
             /\ req'[u] = req[u] /\ pull'[u] = pull[u]
             /\ loadTicket'[u] = loadTicket[u] /\ modelTicket'[u] = modelTicket[u]
    BY DEF Sets, RequestsTypeOK
  <1>2. TasksFit'
    BY <1>1 DEF TasksFit
  <1>3. r \in Requests /\ p \in Pulls
    BY DEF TaskFit, RequestFit, PullFit
  <1>. QED BY <1>2, <1>3 DEF Sets, RequestsTypeOK

\* It has what it asked for, or has lost interest: a pull of its goes on.
LEMMA IdleFits ==
  ASSUME NEW r, NEW p, NEW load, NEW model, PullFit(r, p, model), load.stage = "out"
  PROVE  TaskFit(Idle, p, load, model)
  BY DEF TaskFit, RequestFit, LoadTicketFit, PullFit, Idle, Requests, Ops, PCs, Under

\* No pull of its is under way.
LEMMA NoPullFits ==
  ASSUME NEW r, NEW model, model.stage = "out"
  PROVE  PullFit(r, NoPull, model)
  BY DEF PullFit, NoPull, Pulls, PullStages

\* The same, with a lock to give back.
LEMMA LeavingFits ==
  ASSUME NEW r, NEW p, NEW load, NEW model, PullFit(r, p, model)
  PROVE  TaskFit([Idle EXCEPT !.pc = "leave"], p, load, model)
  BY DEF TaskFit, RequestFit, LoadTicketFit, PullFit, Idle, Requests, Ops, PCs, Under, Outside

\* A request that goes on is neither waiting for a pull nor done.
LEMMA GoingOnFits ==
  ASSUME NEW r, NEW p, NEW load, NEW model, PullFit(r, p, model),
         r.pc \notin {"idle", "pulling", "leave"}, NEW s,
         RequestFit(s), NEW next, LoadTicketFit(s, next)
  PROVE  p = NoPull /\ TaskFit(s, p, next, model)
  BY DEF TaskFit, PullFit

-----------------------------------------------------------------------------
(* Action by action.                                                       *)

OnlyMoves(t) ==
  /\ Sets(req, t, req'[t]) /\ Sets(pull, t, pull'[t])
  /\ Sets(loadTicket, t, loadTicket'[t]) /\ Sets(modelTicket, t, modelTicket'[t])

FitAfter(t) == TaskFit(req'[t], pull'[t], loadTicket'[t], modelTicket'[t])

LEMMA FitBefore ==
  ASSUME IdentityInv, NEW t \in Tasks
  PROVE  /\ RequestsTypeOK
         /\ TaskFit(req[t], pull[t], loadTicket[t], modelTicket[t])
         /\ RequestFit(req[t]) /\ LoadTicketFit(req[t], loadTicket[t])
         /\ PullFit(req[t], pull[t], modelTicket[t])
  BY TypesFit DEF IdentityInv, TasksFit, TaskFit

LEMMA ArriveKeeps ==
  ASSUME IdentityInv, NEW t \in Tasks, NEW n \in Names, Arrive(t, n)
  PROVE  OnlyMoves(t) /\ FitAfter(t)
  <1> USE FitBefore
  <1>1. OnlyMoves(t)
    BY DEF OnlyMoves, Sets, RequestsTypeOK, Arrive, Free, loadLocks, modelLocks, Idle
  <1>2. PICK lock \in Identity(n), key \in CanonicalRef(n) :
          req' = [req EXCEPT ![t] = [Idle EXCEPT !.op = "load", !.pc = "fast",
                                                 !.lock = lock, !.key = key]]
    BY DEF Arrive
  <1>3. lock \in Tags /\ key \in Names
    BY NamesFit DEF IdentityInv
  <1>4. /\ pull'[t] = NoPull /\ pull[t] = NoPull /\ req[t].pc = "idle"
        /\ loadTicket'[t] = loadTicket[t] /\ modelTicket'[t] = modelTicket[t]
    BY DEF RequestsTypeOK, Arrive, Free, loadLocks, modelLocks, Idle
  <1>5. req'[t] = [op |-> "load", pc |-> "fast", lock |-> lock, key |-> key, digest |-> None]
    BY <1>2 DEF RequestsTypeOK, Idle
  <1>6. RequestFit(req'[t]) /\ LoadTicketFit(req'[t], loadTicket[t])
    BY <1>3, <1>4, <1>5 DEF RequestFit, Requests, Ops, PCs, LoadTicketFit, Under, Outside
  <1>. QED BY <1>1, <1>4, <1>6 DEF FitAfter, TaskFit, PullFit

LEMMA FastPathKeeps ==
  ASSUME IdentityInv, NEW t \in Tasks, FastPath(t)
  PROVE  OnlyMoves(t) /\ FitAfter(t)
  <1> USE FitBefore
  <1>1. OnlyMoves(t)
    BY
       DEF OnlyMoves, Sets, RequestsTypeOK, FastPath, Serves, Go, Finish, LoadLocks!Clone,
           loadLocks, modelLocks, Idle
  <1>2. /\ req[t].pc = "fast" /\ pull'[t] = pull[t] /\ modelTicket'[t] = modelTicket[t]
        /\ \/ req'[t] = Idle /\ loadTicket'[t] = loadTicket[t]
           \/ /\ req'[t] = [req[t] EXCEPT !.pc = "wait"]
              /\ loadTicket'[t].stage = "waiting" /\ loadTicket'[t].key = req[t].lock
    BY
       DEF RequestsTypeOK, FastPath, Serves, Go, Finish, LoadLocks!Clone, loadLocks, modelLocks,
           Idle
  <1>3. CASE req'[t] = Idle /\ loadTicket'[t] = loadTicket[t]
    <2>1. loadTicket[t].stage = "out"
      BY <1>2 DEF LoadTicketFit, Outside
    <2>. QED BY <1>1, <1>2, <1>3, <2>1, IdleFits DEF FitAfter
  <1>4. CASE /\ req'[t] = [req[t] EXCEPT !.pc = "wait"]
             /\ loadTicket'[t].stage = "waiting" /\ loadTicket'[t].key = req[t].lock
    <2>1. RequestFit(req'[t]) /\ LoadTicketFit(req'[t], loadTicket'[t])
      BY <1>2, <1>4 DEF RequestFit, Requests, Ops, PCs, LoadTicketFit, Under, Outside
    <2>. QED BY <1>1, <1>2, <2>1, GoingOnFits DEF FitAfter
  <1>. QED BY <1>2, <1>3, <1>4

LEMMA AcquireLoadLockKeeps ==
  ASSUME IdentityInv, NEW t \in Tasks, AcquireLoadLock(t)
  PROVE  OnlyMoves(t) /\ FitAfter(t)
  <1> USE FitBefore
  <1>1. OnlyMoves(t)
    BY
       DEF OnlyMoves, Sets, RequestsTypeOK, AcquireLoadLock, At, Go, LoadLocks!Acquire,
           loadLocks, modelLocks, Idle
  <1>2. /\ req[t].pc = "wait" /\ pull'[t] = pull[t] /\ modelTicket'[t] = modelTicket[t]
        /\ req'[t] = [req[t] EXCEPT !.pc = "recheck"]
        /\ loadTicket'[t] = [loadTicket[t] EXCEPT !.stage = "holding"]
    BY DEF RequestsTypeOK, AcquireLoadLock, At, Go, LoadLocks!Acquire, loadLocks, modelLocks, Idle
  <1>3. RequestFit(req'[t]) /\ LoadTicketFit(req'[t], loadTicket'[t])
    BY <1>2, TicketRecords DEF RequestFit, Requests, Ops, PCs, LoadTicketFit, Under, Outside
  <1>. QED BY <1>1, <1>2, <1>3, GoingOnFits DEF FitAfter

LEMMA RecheckKeeps ==
  ASSUME IdentityInv, NEW t \in Tasks, Recheck(t)
  PROVE  OnlyMoves(t) /\ FitAfter(t)
  <1> USE FitBefore
  <1>1. OnlyMoves(t)
    BY
       DEF OnlyMoves, Sets, RequestsTypeOK, Recheck, Serves, Return, Go, AskFor, loadLocks,
           modelLocks, Idle
  <1>2. /\ req[t].pc = "recheck"
        /\ loadTicket'[t] = loadTicket[t] /\ modelTicket'[t] = modelTicket[t]
        /\ \/ req'[t] = [Idle EXCEPT !.pc = "leave"] /\ pull'[t] = pull[t]
           \/ /\ req'[t] = [req[t] EXCEPT !.pc = "pulling"]
              /\ pull'[t] = [stage |-> "asked", name |-> req[t].key]
    BY DEF RequestsTypeOK, Recheck, Serves, Return, Go, AskFor, loadLocks, modelLocks, Idle
  <1>3. CASE req'[t] = [Idle EXCEPT !.pc = "leave"] /\ pull'[t] = pull[t]
    BY <1>1, <1>2, <1>3, LeavingFits DEF FitAfter
  <1>4. CASE /\ req'[t] = [req[t] EXCEPT !.pc = "pulling"]
             /\ pull'[t] = [stage |-> "asked", name |-> req[t].key]
    <2>1. RequestFit(req'[t]) /\ LoadTicketFit(req'[t], loadTicket'[t]) /\ req[t].key \in Names
      BY <1>2, <1>4 DEF RequestFit, Requests, Ops, PCs, LoadTicketFit, Under, Outside
    <2>2. modelTicket[t].stage = "out"
      BY <1>2 DEF PullFit
    <2>3. PullFit(req'[t], pull'[t], modelTicket'[t])
      BY <1>2, <1>4, <2>1, <2>2 DEF PullFit, Pulls, PullStages, RequestFit, Requests
    <2>. QED BY <1>1, <2>1, <2>3 DEF FitAfter, TaskFit
  <1>. QED BY <1>2, <1>3, <1>4

LEMMA PulledKeeps ==
  ASSUME IdentityInv, NEW t \in Tasks, Pulled(t)
  PROVE  OnlyMoves(t) /\ FitAfter(t)
  <1> USE FitBefore
  <1>1. OnlyMoves(t)
    BY DEF OnlyMoves, Sets, RequestsTypeOK, Pulled, Return, loadLocks, modelLocks, Idle
  <1>2. /\ req[t].pc = "pulling" /\ pull'[t] = NoPull /\ modelTicket'[t].stage = "out"
        /\ loadTicket'[t] = loadTicket[t]
        /\ \/ req'[t] = [Idle EXCEPT !.pc = "leave"]
           \/ \E n \in CanonicalRef(req[t].key) :
                req'[t] = [req[t] EXCEPT !.key = n, !.pc = "rejoin"]
    BY DEF RequestsTypeOK, Pulled, Return, loadLocks, modelLocks, Idle
  <1>3. PullFit(req'[t], pull'[t], modelTicket'[t])
    BY <1>2, NoPullFits
  <1>4. CASE req'[t] = [Idle EXCEPT !.pc = "leave"]
    BY <1>1, <1>3, <1>4, LeavingFits DEF FitAfter
  <1>5. ASSUME NEW n \in CanonicalRef(req[t].key),
               req'[t] = [req[t] EXCEPT !.key = n, !.pc = "rejoin"]
        PROVE  FitAfter(t)
    <2>1. n \in Names
      BY <1>2, NamesFit DEF RequestFit, IdentityInv
    <2>2. RequestFit(req'[t]) /\ LoadTicketFit(req'[t], loadTicket'[t])
      BY <1>2, <1>5, <2>1 DEF RequestFit, Requests, Ops, PCs, LoadTicketFit, Under, Outside
    <2>. QED BY <1>3, <2>2 DEF FitAfter, TaskFit
  <1>. QED BY <1>1, <1>2, <1>4, <1>5

LEMMA RejoinKeeps ==
  ASSUME IdentityInv, NEW t \in Tasks, Rejoin(t)
  PROVE  OnlyMoves(t) /\ FitAfter(t)
  <1> USE FitBefore
  <1>1. OnlyMoves(t)
    BY DEF OnlyMoves, Sets, RequestsTypeOK, Rejoin, Serves, Return, loadLocks, modelLocks, Idle
  <1>2. /\ req[t].pc = "rejoin" /\ pull'[t] = pull[t] /\ modelTicket'[t] = modelTicket[t]
        /\ loadTicket'[t] = loadTicket[t]
        /\ \/ req'[t] = [Idle EXCEPT !.pc = "leave"]
           \/ \E n \in Find(req[t].key) :
                req'[t] = [req[t] EXCEPT !.digest = store[n], !.pc = "digest"]
    BY DEF RequestsTypeOK, Rejoin, Serves, Return, loadLocks, modelLocks, Idle
  <1>3. CASE req'[t] = [Idle EXCEPT !.pc = "leave"]
    BY <1>1, <1>2, <1>3, LeavingFits DEF FitAfter
  <1>4. ASSUME NEW n \in Find(req[t].key),
               req'[t] = [req[t] EXCEPT !.digest = store[n], !.pc = "digest"]
        PROVE  FitAfter(t)
    <2>1. store[n] \in Contents
      BY <1>2, NamesFit DEF RequestFit, IdentityInv
    <2>2. RequestFit(req'[t]) /\ LoadTicketFit(req'[t], loadTicket'[t])
      BY <1>2, <1>4, <2>1 DEF RequestFit, Requests, Ops, PCs, LoadTicketFit, Under, Outside
    <2>. QED BY <1>1, <1>2, <2>2, GoingOnFits DEF FitAfter
  <1>. QED BY <1>1, <1>2, <1>3, <1>4

LEMMA CheckRunningByDigestKeeps ==
  ASSUME IdentityInv, NEW t \in Tasks, CheckRunningByDigest(t)
  PROVE  OnlyMoves(t) /\ FitAfter(t)
  <1> USE FitBefore
  <1>1. OnlyMoves(t)
    BY
       DEF OnlyMoves, Sets, RequestsTypeOK, CheckRunningByDigest, Return, Go, loadLocks,
           modelLocks, Idle
  <1>2. FitAfter(t)
    BY NamesAssumption
       DEF FitAfter, RequestsTypeOK, CheckRunningByDigest, Return, Go, loadLocks, modelLocks,
           Idle, NoPull, TaskFit, RequestFit, LoadTicketFit, PullFit, Requests, Pulls,
           PullStages, Ops, PCs, Under, Outside
  <1>. QED BY <1>1, <1>2

LEMMA InsertKeeps ==
  ASSUME IdentityInv, NEW t \in Tasks, Insert(t)
  PROVE  OnlyMoves(t) /\ FitAfter(t)
  <1> USE FitBefore
  <1>1. OnlyMoves(t)
    BY DEF OnlyMoves, Sets, RequestsTypeOK, Insert, Return, Servers, loadLocks, modelLocks, Idle
  <1>2. FitAfter(t)
    BY NamesAssumption
       DEF FitAfter, RequestsTypeOK, Insert, Return, Servers, loadLocks, modelLocks, Idle,
           NoPull, TaskFit, RequestFit, LoadTicketFit, PullFit, Requests, Pulls, PullStages,
           Ops, PCs, Under, Outside
  <1>. QED BY <1>1, <1>2

LEMMA FailToStartKeeps ==
  ASSUME IdentityInv, NEW t \in Tasks, FailToStart(t)
  PROVE  OnlyMoves(t) /\ FitAfter(t)
  <1> USE FitBefore
  <1>1. OnlyMoves(t)
    BY DEF OnlyMoves, Sets, RequestsTypeOK, FailToStart, Return, loadLocks, modelLocks, Idle
  <1>2. FitAfter(t)
    BY NamesAssumption
       DEF FitAfter, RequestsTypeOK, FailToStart, Return, loadLocks, modelLocks, Idle, NoPull,
           TaskFit, RequestFit, LoadTicketFit, PullFit, Requests, Pulls, PullStages, Ops, PCs,
           Under, Outside
  <1>. QED BY <1>1, <1>2

LEMMA LeaveKeeps ==
  ASSUME IdentityInv, NEW t \in Tasks, Leave(t)
  PROVE  OnlyMoves(t) /\ FitAfter(t)
  <1> USE FitBefore
  <1>1. OnlyMoves(t)
    BY
       DEF OnlyMoves, Sets, RequestsTypeOK, Leave, Finish, LoadLocks!Unlock, LoadLocks!Release,
           LoadLocks!NoTicket, loadLocks, modelLocks, Idle
  <1>2. FitAfter(t)
    BY NamesAssumption
       DEF FitAfter, RequestsTypeOK, Leave, Finish, LoadLocks!Unlock, LoadLocks!Release,
           LoadLocks!NoTicket, loadLocks, modelLocks, Idle, NoPull, TaskFit, RequestFit,
           LoadTicketFit, PullFit, Requests, Pulls, PullStages, Ops, PCs, Under, Outside
  <1>. QED BY <1>1, <1>2

LEMMA DisconnectKeeps ==
  ASSUME IdentityInv, NEW t \in Tasks, Disconnect(t)
  PROVE  OnlyMoves(t) /\ FitAfter(t)
  <1> USE FitBefore
  <1>1. OnlyMoves(t)
    BY
       DEF OnlyMoves, Sets, RequestsTypeOK, Disconnect, Finish, Return, LoadLocks!GiveUp,
           LoadLocks!NoTicket, loadLocks, modelLocks, Idle
  <1>2. FitAfter(t)
    BY NamesAssumption
       DEF FitAfter, RequestsTypeOK, Disconnect, Finish, Return, LoadLocks!GiveUp,
           LoadLocks!NoTicket, loadLocks, modelLocks, Idle, NoPull, TaskFit, RequestFit,
           LoadTicketFit, PullFit, Requests, Pulls, PullStages, Ops, PCs, Under, Outside
  <1>. QED BY <1>1, <1>2

LEMMA AskUnloadKeeps ==
  ASSUME IdentityInv, NEW t \in Tasks, NEW n \in Names, AskUnload(t, n)
  PROVE  OnlyMoves(t) /\ FitAfter(t)
  <1> USE FitBefore
  <1>1. OnlyMoves(t)
    BY
       DEF OnlyMoves, Sets, RequestsTypeOK, AskUnload, Free, LoadLocks!Clone, loadLocks,
           modelLocks, Idle
  <1>2. PICK lock \in Identity(n) :
          /\ LoadLocks!Clone(t, lock)
          /\ req' = [req EXCEPT ![t] = [op |-> "unload", pc |-> "wait", lock |-> lock,
                                        key |-> n, digest |-> None]]
    BY DEF AskUnload, Idle
  <1>3. /\ lock \in Tags /\ pull'[t] = pull[t] /\ pull[t] = NoPull
        /\ modelTicket'[t] = modelTicket[t]
        /\ req'[t] = [op |-> "unload", pc |-> "wait", lock |-> lock, key |-> n, digest |-> None]
        /\ loadTicket'[t].stage = "waiting" /\ loadTicket'[t].key = lock
    BY <1>2, NamesFit
       DEF IdentityInv, RequestsTypeOK, AskUnload, Free, LoadLocks!Clone, loadLocks, modelLocks,
           Idle
  <1>4. RequestFit(req'[t]) /\ LoadTicketFit(req'[t], loadTicket'[t])
    BY <1>3 DEF RequestFit, Requests, Ops, PCs, LoadTicketFit, Under, Outside
  <1>. QED BY <1>1, <1>3, <1>4 DEF FitAfter, TaskFit, PullFit

LEMMA LockUnloadKeeps ==
  ASSUME IdentityInv, NEW t \in Tasks, LockUnload(t)
  PROVE  OnlyMoves(t) /\ FitAfter(t)
  <1> USE FitBefore
  <1>1. OnlyMoves(t)
    BY
       DEF OnlyMoves, Sets, RequestsTypeOK, LockUnload, At, LoadLocks!Acquire, loadLocks,
           modelLocks, Idle
  <1>2. FitAfter(t)
    BY NamesAssumption, NamesFit
       DEF FitAfter, RequestsTypeOK, LockUnload, At, LoadLocks!Acquire, loadLocks, modelLocks,
           Idle, NoPull, TaskFit, RequestFit, LoadTicketFit, PullFit, Requests, Pulls,
           PullStages, Ops, PCs, Under, Outside
  <1>. QED BY <1>1, <1>2

LEMMA RemoveByKeyKeeps ==
  ASSUME IdentityInv, NEW t \in Tasks, RemoveByKey(t)
  PROVE  OnlyMoves(t) /\ FitAfter(t)
  <1> USE FitBefore
  <1>1. OnlyMoves(t)
    BY
       DEF OnlyMoves, Sets, RequestsTypeOK, RemoveByKey, Return, Serves, DigestOf, Names,
           loadLocks, modelLocks, Idle
  <1>2. /\ req[t].pc = "remove" /\ pull'[t] = pull[t] /\ modelTicket'[t] = modelTicket[t]
        /\ loadTicket'[t] = loadTicket[t]
        /\ \/ req'[t] = [Idle EXCEPT !.pc = "leave"]
           \/ /\ DigestOf(req[t].key) # None
              /\ req'[t] = [req[t] EXCEPT !.pc = "bydigest", !.digest = DigestOf(req[t].key)]
    BY DEF RequestsTypeOK, RemoveByKey, Return, loadLocks, modelLocks
  <1>3. CASE req'[t] = [Idle EXCEPT !.pc = "leave"]
    BY <1>1, <1>2, <1>3, LeavingFits DEF FitAfter
  <1>4. CASE /\ DigestOf(req[t].key) # None
             /\ req'[t] = [req[t] EXCEPT !.pc = "bydigest", !.digest = DigestOf(req[t].key)]
    <2>1. DigestOf(req[t].key) \in Contents
      BY <1>2, <1>4 DEF DigestOf, RequestFit, IdentityInv, TypeOK
    <2>2. RequestFit(req'[t]) /\ LoadTicketFit(req'[t], loadTicket'[t])
      BY <1>2, <1>4, <2>1 DEF RequestFit, Requests, Ops, PCs, LoadTicketFit, Under, Outside
    <2>. QED BY <1>1, <1>2, <2>2, GoingOnFits DEF FitAfter
  <1>. QED BY <1>1, <1>2, <1>3, <1>4

LEMMA RemoveByDigestKeeps ==
  ASSUME IdentityInv, NEW t \in Tasks, RemoveByDigest(t)
  PROVE  OnlyMoves(t) /\ FitAfter(t)
  <1> USE FitBefore
  <1>1. OnlyMoves(t)
    BY DEF OnlyMoves, Sets, RequestsTypeOK, RemoveByDigest, Return, loadLocks, modelLocks, Idle
  <1>2. FitAfter(t)
    BY NamesAssumption
       DEF FitAfter, RequestsTypeOK, RemoveByDigest, Return, loadLocks, modelLocks, Idle,
           NoPull, TaskFit, RequestFit, LoadTicketFit, PullFit, Requests, Pulls, PullStages,
           Ops, PCs, Under, Outside
  <1>. QED BY <1>1, <1>2

LEMMA AskPullKeeps ==
  ASSUME IdentityInv, NEW t \in Tasks, NEW n \in Names, AskPull(t, n)
  PROVE  OnlyMoves(t) /\ FitAfter(t)
  <1> USE FitBefore
  <1>1. OnlyMoves(t)
    BY DEF OnlyMoves, Sets, RequestsTypeOK, AskPull, AskFor, Free, loadLocks, modelLocks, Idle
  <1>2. FitAfter(t)
    BY NamesAssumption
       DEF FitAfter, RequestsTypeOK, AskPull, AskFor, Free, loadLocks, modelLocks, Idle, NoPull,
           TaskFit, RequestFit, LoadTicketFit, PullFit, Requests, Pulls, PullStages, Ops, PCs,
           Under, Outside
  <1>. QED BY <1>1, <1>2

LEMMA PullQueueKeeps ==
  ASSUME IdentityInv, NEW t \in Tasks, PullQueue(t)
  PROVE  OnlyMoves(t) /\ FitAfter(t)
  <1> USE FitBefore
  <1>1. OnlyMoves(t)
    BY DEF OnlyMoves, Sets, RequestsTypeOK, PullQueue, ModelLocks!Clone, loadLocks, modelLocks, Idle
  <1>2. FitAfter(t)
    BY NamesAssumption
       DEF FitAfter, RequestsTypeOK, PullQueue, ModelLocks!Clone, loadLocks, modelLocks, Idle,
           NoPull, TaskFit, RequestFit, LoadTicketFit, PullFit, Requests, Pulls, PullStages,
           Ops, PCs, Under, Outside
  <1>. QED BY <1>1, <1>2

LEMMA PullEnterKeeps ==
  ASSUME IdentityInv, NEW t \in Tasks, PullEnter(t)
  PROVE  OnlyMoves(t) /\ FitAfter(t)
  <1> USE FitBefore
  <1>1. OnlyMoves(t)
    BY
       DEF OnlyMoves, Sets, RequestsTypeOK, PullEnter, ModelLocks!Acquire, loadLocks,
           modelLocks, Idle
  <1>2. /\ pull[t].stage = "asked" /\ modelTicket[t].stage = "waiting"
        /\ req'[t] = req[t] /\ loadTicket'[t] = loadTicket[t]
        /\ modelTicket'[t] = [modelTicket[t] EXCEPT !.stage = "holding"]
        /\ \/ pull'[t] = [pull[t] EXCEPT !.stage = "ok"]
           \/ pull'[t] = [pull[t] EXCEPT !.stage = "downloading"]
    BY DEF RequestsTypeOK, PullEnter, ModelLocks!Acquire, loadLocks, modelLocks, Idle
  <1>3. modelTicket'[t].stage = "holding" /\ modelTicket'[t].key = modelTicket[t].key
    BY <1>2, TicketRecords DEF IdentityInv
  <1>4. PullFit(req'[t], pull'[t], modelTicket'[t])
    BY <1>2, <1>3 DEF PullFit, Pulls, PullStages, NoPull
  <1>. QED BY <1>1, <1>2, <1>4 DEF FitAfter, TaskFit

LEMMA PullLandKeeps ==
  ASSUME IdentityInv, NEW t \in Tasks, PullLand(t)
  PROVE  OnlyMoves(t) /\ FitAfter(t)
  <1> USE FitBefore
  <1>1. OnlyMoves(t)
    BY DEF OnlyMoves, Sets, RequestsTypeOK, PullLand, Offered, Names, loadLocks, modelLocks, Idle
  <1>2. FitAfter(t)
    BY NamesAssumption
       DEF FitAfter, RequestsTypeOK, PullLand, Offered, Names, loadLocks, modelLocks, Idle,
           NoPull, TaskFit, RequestFit, LoadTicketFit, PullFit, Requests, Pulls, PullStages,
           Ops, PCs, Under, Outside
  <1>. QED BY <1>1, <1>2

LEMMA PullFailKeeps ==
  ASSUME IdentityInv, NEW t \in Tasks, PullFail(t)
  PROVE  OnlyMoves(t) /\ FitAfter(t)
  <1> USE FitBefore
  <1>1. OnlyMoves(t)
    BY DEF OnlyMoves, Sets, RequestsTypeOK, PullFail, loadLocks, modelLocks, Idle
  <1>2. FitAfter(t)
    BY NamesAssumption
       DEF FitAfter, RequestsTypeOK, PullFail, loadLocks, modelLocks, Idle, NoPull, TaskFit,
           RequestFit, LoadTicketFit, PullFit, Requests, Pulls, PullStages, Ops, PCs, Under,
           Outside
  <1>. QED BY <1>1, <1>2

LEMMA PullLeaveKeeps ==
  ASSUME IdentityInv, NEW t \in Tasks, PullLeave(t)
  PROVE  OnlyMoves(t) /\ FitAfter(t)
  <1> USE FitBefore
  <1>1. OnlyMoves(t)
    BY
       DEF OnlyMoves, Sets, RequestsTypeOK, PullLeave, ModelLocks!Leaving, ModelLocks!Unlock,
           ModelLocks!Release, ModelLocks!NoTicket, loadLocks, modelLocks, Idle
  <1>2. FitAfter(t)
    BY NamesAssumption
       DEF FitAfter, RequestsTypeOK, PullLeave, ModelLocks!Leaving, ModelLocks!Unlock,
           ModelLocks!Release, ModelLocks!NoTicket, loadLocks, modelLocks, Idle, NoPull,
           TaskFit, RequestFit, LoadTicketFit, PullFit, Requests, Pulls, PullStages, Ops, PCs,
           Under, Outside
  <1>. QED BY <1>1, <1>2

LEMMA PullEndKeeps ==
  ASSUME IdentityInv, NEW t \in Tasks, PullEnd(t)
  PROVE  OnlyMoves(t) /\ FitAfter(t)
  <1> USE FitBefore
  <1>1. OnlyMoves(t)
    BY DEF OnlyMoves, Sets, RequestsTypeOK, PullEnd, Finish, loadLocks, modelLocks, Idle
  <1>2. /\ pull'[t] = NoPull /\ modelTicket'[t].stage = "out" /\ loadTicket'[t] = loadTicket[t]
        /\ pull[t].stage \in {"ok", "failed"} /\ req[t].pc # "pulling"
        /\ req'[t] = IF req[t].op = "pull" THEN Idle ELSE req[t]
    BY DEF RequestsTypeOK, PullEnd, Finish, loadLocks, modelLocks, Idle
  <1>3. PullFit(req'[t], pull'[t], modelTicket'[t])
    BY <1>2, NoPullFits
  <1>4. CASE req[t].op = "pull"
    <2>1. loadTicket'[t].stage = "out"
      BY <1>2, <1>4 DEF RequestFit, LoadTicketFit, Outside
    <2>. QED BY <1>1, <1>2, <1>3, <1>4, <2>1, IdleFits DEF FitAfter
  <1>. QED BY <1>1, <1>2, <1>3, <1>4 DEF FitAfter, TaskFit

LEMMA CopyKeeps ==
  ASSUME IdentityInv, NEW t \in Tasks, NEW tag \in Tags, NEW c \in Contents, Copy(t, tag, c)
  PROVE  OnlyMoves(t) /\ FitAfter(t)
  <1> USE FitBefore
  <1>1. OnlyMoves(t)
    BY DEF OnlyMoves, Sets, RequestsTypeOK, Copy, Free, Names, loadLocks, modelLocks, Idle
  <1>2. /\ req'[t] = [Idle EXCEPT !.op = "copy", !.pc = "evict", !.key = tag, !.digest = c]
        /\ pull'[t] = NoPull /\ pull[t] = NoPull /\ req[t].pc = "idle"
        /\ loadTicket'[t] = loadTicket[t] /\ modelTicket'[t] = modelTicket[t]
    BY DEF RequestsTypeOK, Copy, Free, Names, loadLocks, modelLocks, Idle
  <1>3. RequestFit(req'[t]) /\ LoadTicketFit(req'[t], loadTicket[t])
    BY <1>2 DEF Idle, Names, RequestFit, Requests, Ops, PCs, LoadTicketFit, Under, Outside
  <1>. QED BY <1>1, <1>2, <1>3 DEF FitAfter, TaskFit, PullFit

LEMMA EvictIfRetaggedKeeps ==
  ASSUME IdentityInv, NEW t \in Tasks, EvictIfRetagged(t)
  PROVE  OnlyMoves(t) /\ FitAfter(t)
  <1> USE FitBefore
  <1>1. OnlyMoves(t)
    BY DEF OnlyMoves, Sets, RequestsTypeOK, EvictIfRetagged, Finish, loadLocks, modelLocks, Idle
  <1>2. FitAfter(t)
    BY NamesAssumption
       DEF FitAfter, RequestsTypeOK, EvictIfRetagged, Finish, loadLocks, modelLocks, Idle,
           NoPull, TaskFit, RequestFit, LoadTicketFit, PullFit, Requests, Pulls, PullStages,
           Ops, PCs, Under, Outside
  <1>. QED BY <1>1, <1>2

-----------------------------------------------------------------------------
(* Any step.                                                               *)

TaskStep(t) ==
  \/ \E n \in Names : Arrive(t, n) \/ AskUnload(t, n) \/ AskPull(t, n)
  \/ \E tag \in Tags, c \in Contents : Copy(t, tag, c)
  \/ LoadStep(t) \/ UnloadStep(t) \/ PullStep(t)
  \/ EvictIfRetagged(t) \/ Disconnect(t)

LEMMA TaskStepKeeps ==
  ASSUME IdentityInv, NEW t \in Tasks, TaskStep(t)
  PROVE  OnlyMoves(t) /\ FitAfter(t)
  BY ArriveKeeps, FastPathKeeps, AcquireLoadLockKeeps, RecheckKeeps, PulledKeeps, RejoinKeeps,
     CheckRunningByDigestKeeps, InsertKeeps, FailToStartKeeps, LeaveKeeps, DisconnectKeeps,
     AskUnloadKeeps, LockUnloadKeeps, RemoveByKeyKeeps, RemoveByDigestKeeps, AskPullKeeps,
     PullQueueKeeps, PullEnterKeeps, PullLandKeeps, PullFailKeeps, PullLeaveKeeps,
     PullEndKeeps, CopyKeeps, EvictIfRetaggedKeeps
  DEF TaskStep, LoadStep, UnloadStep, PullStep

\* A task takes, waits for and gives back locks by the steps of a registry.
LEMMA LoadLockSteps ==
  ASSUME IdentityInv, NEW t \in Tasks, TaskStep(t)
  PROVE  LoadLocksStep
  <1>1. CASE UNCHANGED loadLocks
    BY <1>1 DEF LoadLocksStep
  <1>2. CASE FastPath(t) /\ ~UNCHANGED loadLocks
    <2>1. LoadLocks!Clone(t, req[t].lock) /\ req[t].pc = "fast"
      BY <1>2 DEF FastPath, loadLocks, modelLocks
    <2>2. req[t].lock \in Tags
      BY <2>1, FitBefore DEF RequestFit
    <2>. QED BY <2>1, <2>2, LoadLocksMove
  <1>3. CASE \E n \in Names : AskUnload(t, n)
    <2>1. PICK n \in Names : AskUnload(t, n)
      BY <1>3
    <2>2. \E k \in Tags : LoadLocks!Clone(t, k)
      BY <2>1, NamesFit DEF AskUnload, IdentityInv
    <2>. QED BY <2>2, LoadLocksMove
  <1>4. CASE AcquireLoadLock(t) \/ LockUnload(t)
    BY <1>4, LoadLocksMove DEF AcquireLoadLock, LockUnload
  <1>5. CASE Leave(t) \/ (Disconnect(t) /\ ~UNCHANGED loadLocks)
    BY <1>5, LoadLocksMove DEF Leave, Disconnect
  <1>6. CASE /\ ~UNCHANGED loadLocks /\ ~FastPath(t) /\ ~AcquireLoadLock(t) /\ ~LockUnload(t)
             /\ ~Leave(t) /\ ~Disconnect(t) /\ ~\E n \in Names : AskUnload(t, n)
    BY <1>6 DEF TaskStep, LoadStep, UnloadStep, PullStep, Arrive, AskPull, Copy, Recheck, Pulled,
       Rejoin, CheckRunningByDigest, Insert, FailToStart, RemoveByKey, RemoveByDigest,
       PullQueue, PullEnter, PullLand, PullFail, PullLeave, PullEnd, EvictIfRetagged
  <1>. QED BY <1>1, <1>2, <1>3, <1>4, <1>5, <1>6

LEMMA ModelLockSteps ==
  ASSUME IdentityInv, NEW t \in Tasks, TaskStep(t)
  PROVE  ModelLocksStep
  <1>1. CASE UNCHANGED modelLocks
    BY <1>1 DEF ModelLocksStep
  <1>2. CASE PullQueue(t)
    <2>1. ModelLocks!Clone(t, pull[t].name) /\ pull[t].stage = "asked"
      BY <1>2 DEF PullQueue
    <2>2. pull[t].name \in Names
      BY <2>1, FitBefore DEF PullFit, NoPull
    <2>. QED BY <2>1, <2>2, ModelLocksMove
  <1>3. CASE PullEnter(t) \/ PullLeave(t)
    BY <1>3, ModelLocksMove DEF PullEnter, PullLeave
  <1>4. CASE ~UNCHANGED modelLocks /\ ~PullQueue(t) /\ ~PullEnter(t) /\ ~PullLeave(t)
    BY <1>4 DEF TaskStep, LoadStep, UnloadStep, PullStep, Arrive, AskUnload, AskPull, Copy,
       FastPath, AcquireLoadLock, Recheck, Pulled, Rejoin, CheckRunningByDigest, Insert,
       FailToStart, Leave, LockUnload, RemoveByKey, RemoveByDigest, PullLand, PullFail,
       PullEnd, EvictIfRetagged, Disconnect
  <1>. QED BY <1>1, <1>2, <1>3, <1>4

LEMMA TypesFitBack ==
  ASSUME LocksFit, req \in [Tasks -> Requests], pull \in [Tasks -> Pulls], StoreTypeOK
  PROVE  TypeOK
  BY DEF LocksFit, Loads!LocksInv, Models!LocksInv, Loads!LocksTypeOK, Models!LocksTypeOK,
     LoadLocks!LocksTypeOK, ModelLocks!LocksTypeOK, Loads!Tickets, LoadLocks!Tickets,
     Models!Tickets, ModelLocks!Tickets, Loads!Stages, LoadLocks!Stages, Models!Stages,
     ModelLocks!Stages, StoreTypeOK, TypeOK

\* The store and the servers, by what a step does to them.
LEMMA StoreSteps ==
  ASSUME IdentityInv, [Next]_vars
  PROVE  StoreTypeOK'
  <1>1. StoreTypeOK
    BY TypesFit DEF IdentityInv
  <1>2. ASSUME NEW n \in Names, NEW c \in Contents \cup {None},
               store' = [store EXCEPT ![n] = c], UNCHANGED running
        PROVE  StoreTypeOK'
    BY <1>1, <1>2 DEF StoreTypeOK
  <1>3. ASSUME NEW n \in Names, NEW s \in Servers \cup {None},
               running' = [running EXCEPT ![n] = s], UNCHANGED store
        PROVE  StoreTypeOK'
    BY <1>1, <1>3 DEF StoreTypeOK
  <1>4. CASE UNCHANGED <<store, running>>
    BY <1>1, <1>4 DEF StoreTypeOK
  <1>5. CASE \E n \in Names : Remove(n) \/ Exit(n)
    BY <1>2, <1>3, <1>5 DEF Remove, Exit
  <1>6. ASSUME NEW t \in Tasks, TaskStep(t), ~UNCHANGED <<store, running>>
        PROVE  StoreTypeOK'
    <2>1. ASSUME NEW tag \in Tags, NEW c \in Contents, Copy(t, tag, c) PROVE StoreTypeOK'
      BY <2>1, <1>2 DEF Copy, Names
    <2>2. CASE Insert(t)
      BY <2>2, <1>3, FitBefore DEF Insert, RequestFit, Servers
    <2>3. CASE RemoveByKey(t)
      BY <2>3, <1>3, FitBefore DEF RemoveByKey, RequestFit
    <2>4. CASE RemoveByDigest(t)
      BY <2>4, <1>3, <1>6 DEF RemoveByDigest, ToUnload, RunningContent, Names, SpelledTag
    <2>5. CASE PullLand(t)
      <3>1. pull[t].name \in Names
        BY <2>5, FitBefore DEF PullLand, PullFit, NoPull
      <3>. QED BY <2>5, <3>1, <1>2, NamesAssumption DEF PullLand, Offered, Names
    <2>6. CASE EvictIfRetagged(t)
      BY <2>6, <1>3, <1>6, FitBefore DEF EvictIfRetagged, RequestFit
    <2>. QED BY <1>6, <2>1, <2>2, <2>3, <2>4, <2>5, <2>6 DEF TaskStep, LoadStep, UnloadStep,
           PullStep, Arrive, AskUnload, AskPull, FastPath, AcquireLoadLock, Recheck, Pulled,
           Rejoin, CheckRunningByDigest, FailToStart, Leave, LockUnload, PullQueue,
           PullEnter, PullFail, PullLeave, PullEnd, Disconnect
  <1>. QED BY <1>4, <1>5, <1>6 DEF Next, TaskStep, vars

-----------------------------------------------------------------------------
(* Servers.                                                                *)

\* Servers stop, and nobody is about to start one who was not.
LEMMA StoppingKeeps ==
  ASSUME IdentityInv, TasksFit',
         \A n \in Names : running'[n] \in {None, running[n]},
         \A t \in Tasks : Starting(t)' => req'[t] = req[t]
  PROVE  OneServerPerLock'
  <1>1. \A t \in Tasks : Starting(t)' => None # [content |-> req'[t].digest, lock |-> req'[t].lock]
    BY NamesAssumption DEF TasksFit, TaskFit, RequestFit, Starting
  <1>. QED BY <1>1 DEF IdentityInv, OneServerPerLock, Starting

\* Nobody else is about to start a server under the lock of t.
LEMMA OneStarts ==
  ASSUME IdentityInv, NEW t \in Tasks, NEW u \in Tasks, req[t].pc \in Under,
         Starting(u), req[t].lock = req[u].lock
  PROVE  t = u
  <1>1. Loads!HoldersExclude
    BY Loads!Exclusion DEF IdentityInv, LocksFit
  <1>2. /\ loadTicket[t].stage = "holding" /\ loadTicket[t].key = req[t].lock
        /\ loadTicket[u].stage = "holding" /\ loadTicket[u].key = req[u].lock
    BY FitBefore DEF LoadTicketFit, Starting, Under
  <1>. QED BY <1>1, <1>2 DEF Loads!HoldersExclude

LEMMA CheckRunningByDigestServers ==
  ASSUME IdentityInv, NEW t \in Tasks, CheckRunningByDigest(t), TasksFit'
  PROVE  OneServerPerLock'
  <1>1. /\ \A u \in Tasks : u # t => req'[u] = req[u]
        /\ running' = running /\ req[t].pc = "digest"
        /\ req'[t].pc = "start" => /\ RunningContent(req[t].digest) = {}
                                   /\ req'[t] = [req[t] EXCEPT !.pc = "start"]
    BY FitBefore DEF CheckRunningByDigest, Return, Go, Idle, RequestsTypeOK
  <1>2. CASE req'[t].pc # "start"
    BY <1>1, <1>2, StoppingKeeps DEF Starting
  <1>3. CASE req'[t].pc = "start"
    <2>1. req'[t].digest = req[t].digest /\ req'[t].lock = req[t].lock
      BY <1>1, <1>3, FitBefore DEF RequestFit, Requests
    <2>2. \A n \in Names : running[n] # [content |-> req[t].digest, lock |-> req[t].lock]
      <3> SUFFICES ASSUME NEW n \in Names,
                          running[n] = [content |-> req[t].digest, lock |-> req[t].lock]
                   PROVE  FALSE
        OBVIOUS
      <3>1. running[n] # None
        BY <1>1, NamesAssumption, FitBefore DEF RequestFit
      <3>. QED BY <1>1, <1>3, <3>1 DEF RunningContent
    <2>3. \A u \in Tasks : Starting(u) /\ req[t].lock = req[u].lock => t = u
      BY <1>1, OneStarts DEF Under
    <2>. QED BY <1>1, <2>1, <2>2, <2>3 DEF OneServerPerLock, Starting, IdentityInv
  <1>. QED BY <1>2, <1>3

LEMMA InsertServers ==
  ASSUME IdentityInv, NEW t \in Tasks, Insert(t), TasksFit'
  PROVE  OneServerPerLock'
  <1> DEFINE s == [content |-> req[t].digest, lock |-> req[t].lock]
  <1>1. /\ \A u \in Tasks : u # t => req'[u] = req[u]
        /\ Starting(t) /\ ~Starting(t)' /\ req[t].key \in Names
        /\ running'[req[t].key] = s
        /\ \A n \in Names : n # req[t].key => running'[n] = running[n]
    BY FitBefore, TypesFit DEF Insert, Return, Idle, RequestsTypeOK, RequestFit, Starting,
       IdentityInv, StoreTypeOK
  <1>2. \A u \in Tasks : Starting(u) /\ u # t => req[u].lock # req[t].lock
    BY <1>1, OneStarts DEF Under, Starting
  <1>3. \A n \in Names : running[n] # s
    BY <1>1 DEF IdentityInv, OneServerPerLock
  <1> HIDE DEF s
  <1>4. \A n1, n2 \in Names :
          running'[n1] # None /\ running'[n1] = running'[n2] => n1 = n2
    BY <1>1, <1>3 DEF IdentityInv, OneServerPerLock
  <1>5. \A u \in Tasks : Starting(u)' => s # [content |-> req[u].digest, lock |-> req[u].lock]
    BY <1>1, <1>2 DEF Starting, s
  <1>6. \A u \in Tasks, n \in Names :
          Starting(u)' => running'[n] # [content |-> req'[u].digest, lock |-> req'[u].lock]
    BY <1>1, <1>5 DEF IdentityInv, OneServerPerLock, Starting
  <1>7. \A u, v \in Tasks : Starting(u)' /\ Starting(v)' /\ req'[u].lock = req'[v].lock => u = v
    BY <1>1 DEF IdentityInv, OneServerPerLock, Starting
  <1>. QED BY <1>4, <1>6, <1>7 DEF OneServerPerLock

LEMMA ServerSteps ==
  ASSUME IdentityInv, [Next]_vars, TasksFit'
  PROVE  OneServerPerLock'
  <1>1. CASE UNCHANGED vars
    BY <1>1, StoppingKeeps DEF vars, Starting
  <1>2. CASE \E n \in Names : Remove(n) \/ Exit(n)
    BY <1>2, StoppingKeeps, TypesFit DEF Remove, Exit, StoreTypeOK, IdentityInv
  <1>3. ASSUME NEW t \in Tasks, TaskStep(t), ~CheckRunningByDigest(t), ~Insert(t)
        PROVE  OneServerPerLock'
    <2>1. \A u \in Tasks : u # t => req'[u] = req[u]
      BY <1>3, TaskStepKeeps, FitBefore DEF OnlyMoves, Sets, RequestsTypeOK
    <2>2. Starting(t)' => req'[t] = req[t]
      <3> USE FitBefore DEF Starting, RequestsTypeOK, RequestFit, Requests, Idle, Return, Finish, Go
      <3>1. CASE FastPath(t) \/ AcquireLoadLock(t) \/ Recheck(t) \/ FailToStart(t) \/ Leave(t)
        BY <3>1 DEF FastPath, AcquireLoadLock, Recheck, FailToStart, Leave
      <3>2. CASE Pulled(t) \/ Rejoin(t)
        <4>1. CASE Pulled(t)
          BY <4>1 DEF Pulled
        <4>2. CASE Rejoin(t)
          BY <4>2 DEF Rejoin
        <4>. QED BY <3>2, <4>1, <4>2
      <3>3. CASE UnloadStep(t)
        <4>1. CASE LockUnload(t)
          BY <4>1 DEF LockUnload
        <4>2. CASE RemoveByKey(t)
          BY <4>2 DEF RemoveByKey
        <4>3. CASE RemoveByDigest(t)
          BY <4>3 DEF RemoveByDigest
        <4>. QED BY <3>3, <4>1, <4>2, <4>3 DEF UnloadStep
      <3>4. CASE PullStep(t)
        BY <3>4 DEF PullStep, PullQueue, PullEnter, PullLand, PullFail, PullLeave, PullEnd
      <3>5. CASE EvictIfRetagged(t) \/ Disconnect(t)
        BY <3>5 DEF EvictIfRetagged, Disconnect
      <3>6. ASSUME NEW n \in Names, Arrive(t, n) \/ AskUnload(t, n) \/ AskPull(t, n)
            PROVE  Starting(t)' => req'[t] = req[t]
        <4>1. CASE Arrive(t, n)
          BY <4>1 DEF Arrive
        <4>2. CASE AskUnload(t, n)
          BY <4>2 DEF AskUnload
        <4>3. CASE AskPull(t, n)
          BY <4>3 DEF AskPull, Free
        <4>. QED BY <3>6, <4>1, <4>2, <4>3
      <3>7. ASSUME NEW tag \in Tags, NEW c \in Contents, Copy(t, tag, c)
            PROVE  Starting(t)' => req'[t] = req[t]
        BY <3>7 DEF Copy, Free
      <3>. QED BY <1>3, <3>1, <3>2, <3>3, <3>4, <3>5, <3>6, <3>7 DEF TaskStep, LoadStep
    <2>3. \A n \in Names : running'[n] \in {None, running[n]}
      BY <1>3, FitBefore, TypesFit DEF IdentityInv, StoreTypeOK, TaskStep, LoadStep, UnloadStep,
         PullStep, Arrive, AskUnload, AskPull, FastPath, AcquireLoadLock, Recheck, Pulled, Rejoin,
         FailToStart, Leave, LockUnload, PullQueue, PullEnter, PullLand, PullFail,
         PullLeave, PullEnd, Disconnect, Copy, EvictIfRetagged, RemoveByKey, RemoveByDigest
    <2>. QED BY <2>1, <2>2, <2>3, StoppingKeeps
  <1>. QED BY <1>1, <1>2, <1>3, CheckRunningByDigestServers, InsertServers DEF Next, TaskStep

-----------------------------------------------------------------------------
(* The theorems.                                                           *)

LEMMA InitFits == Init => IdentityInv
  <1> SUFFICES ASSUME Init PROVE IdentityInv
    OBVIOUS
  <1>1. LocksFit
    BY LocksInitFit
  <1>2. TasksFit
    <2> SUFFICES ASSUME NEW t \in Tasks
                 PROVE  TaskFit(req[t], pull[t], loadTicket[t], modelTicket[t])
      BY DEF TasksFit
    <2>1. /\ req[t] = Idle /\ pull[t] = NoPull
          /\ loadTicket[t].stage = "out" /\ modelTicket[t].stage = "out"
      BY DEF Init, LoadLocks!LocksInit, LoadLocks!NoTicket, ModelLocks!LocksInit,
         ModelLocks!NoTicket
    <2>. QED BY <2>1, NoPullFits, IdleFits
  <1>3. TypeOK
    <2>1. \A t \in Tasks : Idle \in Requests /\ NoPull \in Pulls
      BY DEF Idle, Requests, Ops, PCs, NoPull, Pulls, PullStages
    <2>2. req \in [Tasks -> Requests] /\ pull \in [Tasks -> Pulls] /\ StoreTypeOK
      BY <2>1 DEF Init, StoreTypeOK
    <2>. QED BY <1>1, <2>2, TypesFitBack
  <1>4. OneServerPerLock
    BY DEF Init, OneServerPerLock, Starting, Idle
  <1>. QED BY <1>1, <1>2, <1>3, <1>4 DEF IdentityInv

LEMMA StepKeeps ==
  ASSUME IdentityInv, [Next]_vars
  PROVE  IdentityInv' /\ LoadLocksStep /\ ModelLocksStep
  <1>1. LoadLocksStep /\ ModelLocksStep
    <2>1. CASE \E t \in Tasks : TaskStep(t)
      BY <2>1, LoadLockSteps, ModelLockSteps
    <2>2. CASE UNCHANGED vars \/ \E n \in Names : Remove(n) \/ Exit(n)
      BY <2>2 DEF vars, Remove, Exit, LoadLocksStep, ModelLocksStep
    <2>. QED BY <2>1, <2>2 DEF Next, TaskStep
  <1>2. LocksFit'
    BY <1>1, LocksStayFit DEF IdentityInv
  <1>3. TasksFit' /\ (req \in [Tasks -> Requests] /\ pull \in [Tasks -> Pulls])'
    <2>1. ASSUME NEW t \in Tasks, TaskStep(t)
          PROVE  TasksFit' /\ (req \in [Tasks -> Requests] /\ pull \in [Tasks -> Pulls])'
      BY <2>1, TaskStepKeeps, TaskMoves, TypesFit DEF OnlyMoves, FitAfter, IdentityInv
    <2>2. CASE UNCHANGED vars \/ \E n \in Names : Remove(n) \/ Exit(n)
      <3>1. UNCHANGED <<req, pull, loadTicket, modelTicket>>
        BY <2>2 DEF vars, Remove, Exit, loadLocks, modelLocks
      <3>. QED BY <3>1 DEF IdentityInv, TasksFit, TypeOK
    <2>. QED BY <2>1, <2>2 DEF Next, TaskStep
  <1>4. TypeOK'
    BY <1>2, <1>3, StoreSteps
    DEF LocksFit, Loads!LocksInv, Models!LocksInv, Loads!LocksTypeOK, Models!LocksTypeOK,
        LoadLocks!LocksTypeOK, ModelLocks!LocksTypeOK, Loads!Tickets, LoadLocks!Tickets,
        Models!Tickets, ModelLocks!Tickets, Loads!Stages, LoadLocks!Stages, Models!Stages,
        ModelLocks!Stages, StoreTypeOK, TypeOK
  <1>5. OneServerPerLock'
    BY <1>3, ServerSteps
  <1>. QED BY <1>1, <1>2, <1>3, <1>4, <1>5 DEF IdentityInv

LEMMA IdentityAlways == Spec => []IdentityInv
  <1>1. IdentityInv /\ [Next]_vars => IdentityInv'
    BY StepKeeps
  <1>. QED BY <1>1, InitFits, PTL DEF Spec

\* Every request, pull, lock and server stays what the code can make of it.
THEOREM IdentityTyped == Spec => []TypeOK
  <1>1. IdentityInv => TypeOK
    BY DEF IdentityInv
  <1>. QED BY <1>1, IdentityAlways, PTL

\* However many tasks wait for, leave and drop LOAD_LOCKS and MODEL_LOCKS,
\* neither registry removes an entry under one that uses its mutex.
THEOREM RegistriesKeepMutexes == Spec => []OneMutexPerKey
  <1>1. IdentityInv => OneMutexPerKey
    BY DEF IdentityInv, LocksFit, Loads!LocksInv, Models!LocksInv, OneMutexPerKey,
       Loads!OneMutexPerKey, Models!OneMutexPerKey, LoadLocks!OneMutexPerKey,
       ModelLocks!OneMutexPerKey
  <1>. QED BY <1>1, IdentityAlways, PTL

\* Loads under one lock never start a second server of one content, whatever
\* is retagged, unloaded or removed meanwhile.
THEOREM ServersNotDoubled == Spec => []OneServerPerLock
  <1>1. IdentityInv => OneServerPerLock
    BY DEF IdentityInv
  <1>. QED BY <1>1, IdentityAlways, PTL

\* No name is downloaded by two threads at once, dropped loads included.
THEOREM NamesPulledOnce == Spec => []PullsOnce
  <1>1. IdentityInv => PullsOnce
    <2> SUFFICES ASSUME IdentityInv, NEW t \in Tasks, NEW u \in Tasks,
                        pull[t].stage = "downloading", pull[u].stage = "downloading",
                        pull[t].name = pull[u].name
                 PROVE  t = u
      BY DEF PullsOnce
    <2>1. Models!HoldersExclude
      BY Models!Exclusion DEF IdentityInv, LocksFit
    <2>2. /\ modelTicket[t].stage = "holding" /\ modelTicket[t].key = pull[t].name
          /\ modelTicket[u].stage = "holding" /\ modelTicket[u].key = pull[u].name
      BY FitBefore DEF PullFit
    <2>. QED BY <2>1, <2>2 DEF Models!HoldersExclude
  <1>. QED BY <1>1, IdentityAlways, PTL

\* The load locks of the daemon, used as loads and unloads use them, are one
\* lock for each key.
THEOREM LoadsExclude == Spec => LoadLocksExclude
  <1>1. Init => LoadLocks!Abstract!Init
    <2> SUFFICES ASSUME Init PROVE LoadLocks!Abstract!Init
      OBVIOUS
    <2>1. \A k \in Tags : LoadLocks!Inside(k) = {}
      BY DEF Init, LoadLocks!LocksInit, LoadLocks!Inside, LoadLocks!NoTicket
    <2>. QED BY <2>1 DEF LoadLocks!Abstract!Init, LoadLocks!Owner, LoadLocks!MemberOrNone
  <1>2. IdentityInv /\ [Next]_vars => [LoadLocks!Abstract!Next]_(LoadLocks!Owner)
    <2> SUFFICES ASSUME IdentityInv, [Next]_vars
                 PROVE  [LoadLocks!Abstract!Next]_(LoadLocks!Owner)
      OBVIOUS
    <2>1. Loads!AbstractStep
      BY StepKeeps, ConstantsFit, Loads!StepImplements
      DEF IdentityInv, LocksFit, LoadLocksStep, loadLocks, Loads!lockVars
    <2>. QED BY <2>1 DEF Loads!AbstractStep, Loads!Abstract!Next, Loads!Abstract!Lock,
           Loads!Abstract!Unlock, Loads!Owner, Loads!Inside, Loads!MemberOrNone,
           LoadLocks!Abstract!Next, LoadLocks!Abstract!Lock, LoadLocks!Abstract!Unlock,
           LoadLocks!Owner, LoadLocks!Inside, LoadLocks!MemberOrNone
  <1>. QED BY <1>1, <1>2, IdentityAlways, PTL
         DEF Spec, LoadLocksExclude, LoadLocks!ImplementsLockMap, LoadLocks!Abstract!Spec
=============================================================================
