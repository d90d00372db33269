------------------------------ MODULE Scheduler ------------------------------
(***************************************************************************)
(* The model scheduler of the daemon (src/src/cmd/serve.rs, sched.rs).     *)
(*                                                                         *)
(* A request runs resolve_target: it joins a model that is already loaded, *)
(* or is admitted to the queue, takes the load lock of its reference,      *)
(* pulls, retires a copy with another context window, reserves a slot      *)
(* under LLMMAN_MAX_LOADED_MODELS, spawns a backend (retrying after an     *)
(* out-of-memory failure) and registers it.  A step is what one task does  *)
(* between two awaits: the manager mutex is held within a step, never      *)
(* across one.  Beside the requests run the unload endpoint, the idle      *)
(* reaper, and the tasks that Drop spawns; backends crash and clients      *)
(* disconnect at any await.                                                *)
(*                                                                         *)
(* A reference stands for a stored spelling of a model (the key of         *)
(* ModelManager.running).  Two references may name the same content, as a  *)
(* tag and a digest entry do; LockOf is load_identity.                     *)
(***************************************************************************)
EXTENDS Integers, FiniteSets

CONSTANTS
  Requests,       \* client requests in flight at once (the slots of clients)
  Unloads,        \* concurrent calls of the unload endpoint
  Refs,           \* references a request may name
  Locks,          \* keys of LOAD_LOCKS
  LockOf,         \* load_identity: the load lock of each reference
  ContentOf,      \* repository and manifest digest each reference resolves to
  Asks,           \* what a request may ask: [ref, ctx], ctx = 0 without num_ctx
  Backends,       \* backend processes that can exist at once
  None,
  MaxLoaded,      \* LLMMAN_MAX_LOADED_MODELS, 0 = unbounded
  MaxQueue,       \* LLMMAN_MAX_QUEUE
  DefaultWindow,  \* context window of a load without num_ctx (a level)
  MaxShrinks,     \* MAX_CTX_SHRINK_ATTEMPTS
  SplitNone,      \* LLMMAN_SCHED_SPREAD=0: split_mode starts as "none"
  Oversized,      \* references whose load may run out of memory
  Impatient,      \* requests whose client may disconnect
  Fragile         \* references whose registered backend may exit on its own

ASSUME RefsAssumption ==
  /\ IsFiniteSet(Refs) /\ IsFiniteSet(Requests)
  /\ LockOf \in [Refs -> Locks]
  /\ Oversized \subseteq Refs /\ Fragile \subseteq Refs
  /\ Asks # {} /\ Asks \subseteq [ref : Refs, ctx : Nat]

ASSUME ActorsAssumption ==
  /\ Requests \cap Unloads = {}
  /\ None \notin Requests \cup Unloads \cup Backends \cup Refs
  /\ Impatient \subseteq Requests

ASSUME LimitsAssumption ==
  /\ MaxLoaded \in Nat /\ MaxQueue \in Nat /\ MaxShrinks \in Nat
  /\ DefaultWindow \in Nat /\ DefaultWindow > MaxShrinks
  /\ SplitNone \in BOOLEAN

\* One content has one load lock: what load_identity is for (the store
\* settled).  Only the sharing properties rest on it.
ASSUME IdentityAssumption ==
  \A j, k \in Refs : ContentOf[j] = ContentOf[k] => LockOf[j] = LockOf[k]

VARIABLES
  running,          \* ModelManager.running: the backend under each key
  pendingLoads,     \* ModelManager.pending_loads
  inFlight,         \* RunningModel.in_flight, by backend
  window,           \* RunningModel.context_window, by backend
  proc,             \* state of each backend process
  loadLock,         \* LOAD_LOCKS: who holds each lock
  pendingRequests,  \* PENDING_REQUESTS
  pc,               \* where each request is
  want,             \* what each request asks for
  guardKey,         \* model_key of the ActivityGuard a request owns
  using,            \* history: the backend the request was given
  holds,            \* ModelProcess values the request's task owns
  mark,             \* the RunningModel a request's RetireMark is set on
  tried,            \* fallbacks its load has used after out-of-memory
  unload            \* where each unload call is, and its reference

mgrVars  == <<running, pendingLoads, inFlight, window>>
lockVars == <<loadLock, pendingRequests>>
loadVars == <<holds, mark, tried>>
guards   == <<guardKey, using>>
vars == <<mgrVars, proc, lockVars, pc, want, guards, loadVars, unload>>

-----------------------------------------------------------------------------
(* Program points, by what a request's task owns there. *)

Reserved == {"stopRetired", "spawn", "wait", "oom", "oomEvict", "insert"}
Locked   == Reserved \cup {"recheck", "pull", "rejoin", "digest", "retire",
                           "plan", "slot", "stopVictim"}
Queued   == Locked \cup {"lock"}
Claiming == {"serving", "dropping"}
PC == Queued \cup Claiming \cup {"idle", "lookup", "admit", "releasing"}

Loaded == {k \in Refs : running[k] # None}
MutantIdle == Loaded                       \* mutant: claims ignored
Idle   == {k \in Loaded : inFlight[running[k]] = 0}
Alive(b) == proc[b] = "ready"
MutantRetiring(b) == FALSE                 \* mutant: the mark not looked at
Retiring(b) == \E r \in Requests : mark[r] = b
\* An ended process is forgotten once nothing refers to it.
Unused(b) == proc[b] = "none" /\ ~Retiring(b)

QueueCap == IF MaxQueue = 0 THEN 1 ELSE MaxQueue
MutantLess(n) == n - 1                     \* mutant: no saturation
Less(n) == IF n = 0 THEN 0 ELSE n - 1      \* saturating_sub(1)
NeedsContext(b, ctx) == ctx # 0 /\ window[b] # ctx
NothingTried == [evict |-> FALSE, split |-> FALSE, shrinks |-> 0]
Try(split, shrinks) == [evict |-> TRUE, split |-> split, shrinks |-> shrinks]

Goto(r, label) == pc' = [pc EXCEPT ![r] = label]

\* What the state holds for a request that is not loading, and for an unload
\* call that is not under way.
NoAsk    == CHOOSE a \in Asks : TRUE
NoUnload == [at |-> "idle", ref |-> CHOOSE k \in Refs : TRUE]

\* Mutant: the queue slot is given back only by a load that had its lock.
MutantLeave(r) ==
  /\ loadLock' = [l \in Locks |-> IF loadLock[l] = r THEN None ELSE loadLock[l]]
  /\ pendingRequests' = IF pc[r] \in Locked THEN pendingRequests - 1
                                            ELSE pendingRequests
  /\ want' = [want EXCEPT ![r] = NoAsk]

\* The load is over for r: LoadLockGuard and QueueGuard drop, at once.
Leave(r) ==
  /\ loadLock' = [l \in Locks |-> IF loadLock[l] = r THEN None ELSE loadLock[l]]
  /\ pendingRequests' = IF pc[r] \in Queued THEN pendingRequests - 1
                                            ELSE pendingRequests
  /\ want' = [want EXCEPT ![r] = NoAsk]

Kill(S) == proc' = [b \in Backends |-> IF b \in S THEN "none" ELSE proc[b]]

\* The entries under the keys K leave the map, and their RunningModel with
\* them; a request that was being served by one has lost its backend.
Under(K) == {running[k] : k \in K}
Unregister(K) ==
  /\ running'  = [k \in Refs |-> IF k \in K THEN None ELSE running[k]]
  /\ inFlight' = [b \in Backends |-> IF b \in Under(K) THEN 0 ELSE inFlight[b]]
  /\ window'   = [b \in Backends |-> IF b \in Under(K) THEN 0 ELSE window[b]]
  /\ using' = [r \in Requests |-> IF using[r] \in Under(K) THEN None ELSE using[r]]

\* Mutant: the reservation goes with the task, unreleased.
MutantAbandon(r) ==
  /\ Leave(r)
  /\ Kill(holds[r])
  /\ holds' = [holds EXCEPT ![r] = {}]
  /\ mark'  = [mark EXCEPT ![r] = None]
  /\ Goto(r, "idle")
  /\ tried' = [tried EXCEPT ![r] = NothingTried]
  /\ UNCHANGED <<mgrVars, guards, unload>>

\* The task ends early (an error, or its future is dropped): every guard it
\* owns goes.  PendingLoadGuard cannot release in Drop and spawns a task.
Abandon(r) ==
  /\ Leave(r)
  /\ Kill(holds[r])
  /\ holds' = [holds EXCEPT ![r] = {}]
  /\ mark'  = [mark EXCEPT ![r] = None]
  /\ Goto(r, IF pc[r] \in Reserved THEN "releasing" ELSE "idle")
  /\ tried' = [tried EXCEPT ![r] = NothingTried]
  /\ UNCHANGED <<mgrVars, guards, unload>>

-----------------------------------------------------------------------------
(* Joining a model that is already loaded. *)

\* An ActivityGuard on the model under key, and the load is over for r.
Claim(r, key) ==
  /\ inFlight' = [inFlight EXCEPT ![running[key]] = @ + 1]
  /\ guardKey' = [guardKey EXCEPT ![r] = key]
  /\ using'    = [using EXCEPT ![r] = running[key]]
  /\ Goto(r, "serving")
  /\ Leave(r)
  /\ UNCHANGED <<running, pendingLoads, window, proc, loadVars, unload>>

\* Nothing to join: on to the next program point, dropping a dead entry.
Miss(r, dead, next) ==
  /\ Unregister(dead)
  /\ Kill(Under(dead))
  /\ Goto(r, next)
  /\ UNCHANGED <<pendingLoads, lockVars, want, guardKey, loadVars, unload>>

CheckRunningFor(r, next) ==
  LET k == want[r].ref
      b == running[k]
  IN  \/ /\ b # None /\ Alive(b)
         /\ ~NeedsContext(b, want[r].ctx) /\ ~Retiring(b)
         /\ Claim(r, k)
      \/ /\ b # None /\ ~Alive(b)
         /\ Miss(r, {k}, next)
      \/ /\ b # None => Alive(b) /\ (NeedsContext(b, want[r].ctx) \/ Retiring(b))
         /\ Miss(r, {}, next)

\* A request arrives with a reference and perhaps a num_ctx.
Arrive(r) ==
  /\ pc[r] = "idle"
  /\ \E a \in Asks : want' = [want EXCEPT ![r] = a]
  /\ Goto(r, "lookup")
  /\ UNCHANGED <<mgrVars, proc, lockVars, guards, loadVars, unload>>

FastPath(r) == pc[r] = "lookup" /\ CheckRunningFor(r, "admit")

\* LLMMAN_MAX_QUEUE: admitted, or a 503.
TryAdmit(r) ==
  /\ pc[r] = "admit"
  /\ \/ /\ pendingRequests < QueueCap
        /\ pendingRequests' = pendingRequests + 1
        /\ Goto(r, "lock")
        /\ UNCHANGED <<loadLock, want>>
     \/ /\ pendingRequests >= QueueCap
        /\ Leave(r)
        /\ Goto(r, "idle")
  /\ UNCHANGED <<mgrVars, proc, guards, loadVars, unload>>

\* Mutant: a waiter does not wait.
MutantAcquireLoadLock(r) ==
  /\ pc[r] = "lock"
  /\ loadLock' = [loadLock EXCEPT ![LockOf[want[r].ref]] = r]
  /\ Goto(r, "recheck")
  /\ UNCHANGED <<mgrVars, proc, pendingRequests, want, guards, loadVars, unload>>

AcquireLoadLock(r) ==
  /\ pc[r] = "lock"
  /\ loadLock[LockOf[want[r].ref]] = None
  /\ loadLock' = [loadLock EXCEPT ![LockOf[want[r].ref]] = r]
  /\ Goto(r, "recheck")
  /\ UNCHANGED <<mgrVars, proc, pendingRequests, want, guards, loadVars, unload>>

Recheck(r) == pc[r] = "recheck" /\ CheckRunningFor(r, "pull")

\* pull_serialized on a blocking thread: it returns, or the request fails.
Pull(r) ==
  /\ pc[r] = "pull"
  /\ \/ /\ Goto(r, "rejoin")
        /\ UNCHANGED <<mgrVars, proc, lockVars, want, guards, loadVars, unload>>
     \/ Abandon(r)

Rejoin(r) == pc[r] = "rejoin" /\ CheckRunningFor(r, "digest")

\* Mutant: only the entry under the request's own key is looked for.
MutantCheckRunningByDigest(r) == pc[r] = "digest" /\ CheckRunningFor(r, "plan")

\* By content: another name's entry is joined too, and even while retiring.
CheckRunningByDigest(r) ==
  LET same == {k \in Loaded : ContentOf[k] = ContentOf[want[r].ref]}
      Joinable(k) == ~NeedsContext(running[k], want[r].ctx)
  IN  /\ pc[r] = "digest"
      /\ \/ \E k \in same :
              \/ Alive(running[k]) /\ Joinable(k) /\ Claim(r, k)
              \/ Alive(running[k]) /\ ~Joinable(k) /\ Miss(r, {}, "plan")
              \/ ~Alive(running[k]) /\ Miss(r, {k}, "plan")
         \/ same = {} /\ Miss(r, {}, "plan")

\* resolve_model, then the refusals of a task the model cannot do: both
\* before anything is evicted or spawned.
Plan(r) ==
  /\ pc[r] = "plan"
  /\ \/ /\ Goto(r, IF want[r].ctx = 0 THEN "slot" ELSE "retire")
        /\ UNCHANGED <<mgrVars, proc, lockVars, want, guards, loadVars, unload>>
     \/ Abandon(r)

-----------------------------------------------------------------------------
(* Making room. *)

\* Mutant: the slot of the model that leaves is not reserved.
MutantStopForSlot(r, key, next) ==
  /\ Unregister({key})
  /\ proc'  = [proc EXCEPT ![running[key]] = "stopping"]
  /\ holds' = [holds EXCEPT ![r] = {running[key]}]
  /\ mark'  = [mark EXCEPT ![r] = None]
  /\ Goto(r, next)
  /\ UNCHANGED <<pendingLoads, lockVars, want, guardKey, tried, unload>>

\* The entry under key leaves the map for r to stop, which r waits for; its
\* slot is reserved for r under the same lock.
StopForSlot(r, key, next) ==
  /\ Unregister({key})
  /\ proc'  = [proc EXCEPT ![running[key]] = "stopping"]
  /\ holds' = [holds EXCEPT ![r] = {running[key]}]
  /\ mark'  = [mark EXCEPT ![r] = None]
  /\ pendingLoads' = pendingLoads + 1
  /\ Goto(r, next)
  /\ UNCHANGED <<lockVars, want, guardKey, tried, unload>>

\* One turn of retire_for_context's loop.
RetireForContext(r) ==
  LET k == want[r].ref
      b == running[k]
  IN  /\ pc[r] = "retire"
      /\ \/ /\ b # None => ~NeedsContext(b, want[r].ctx)
            /\ mark' = [mark EXCEPT ![r] = None]
            /\ Goto(r, "slot")
            /\ UNCHANGED <<mgrVars, proc, lockVars, want, guards, holds,
                           tried, unload>>
         \/ /\ b # None /\ NeedsContext(b, want[r].ctx) /\ inFlight[b] > 0
            /\ mark' = [mark EXCEPT ![r] = IF @ = None THEN b ELSE @]
            /\ UNCHANGED <<mgrVars, proc, lockVars, pc, want, guards, holds,
                           tried, unload>>
         \/ /\ b # None /\ NeedsContext(b, want[r].ctx) /\ inFlight[b] = 0
            /\ StopForSlot(r, k, "stopRetired")

Committed == Cardinality(Loaded) + pendingLoads

\* Mutants: one slot too many; loads under way not counted.
MutantReserveAtCap(r) ==
  /\ pc[r] = "slot"
  /\ MaxLoaded = 0 \/ Committed <= MaxLoaded
  /\ pendingLoads' = pendingLoads + 1
  /\ Goto(r, "spawn")
  /\ UNCHANGED <<running, inFlight, window, proc, lockVars, want, guards,
                 loadVars, unload>>
MutantReserveByLoaded(r) ==
  /\ pc[r] = "slot"
  /\ MaxLoaded = 0 \/ Cardinality(Loaded) < MaxLoaded
  /\ pendingLoads' = pendingLoads + 1
  /\ Goto(r, "spawn")
  /\ UNCHANGED <<running, inFlight, window, proc, lockVars, want, guards,
                 loadVars, unload>>

\* enforce_max_loaded_models: a free slot.
ReserveSlot(r) ==
  /\ pc[r] = "slot"
  /\ MaxLoaded = 0 \/ Committed < MaxLoaded
  /\ pendingLoads' = pendingLoads + 1
  /\ Goto(r, "spawn")
  /\ UNCHANGED <<running, inFlight, window, proc, lockVars, want, guards,
                 loadVars, unload>>

\* At the cap with real models: one of the idle ones goes (the code's
\* choice among them, the least recently active, is left open).  The
\* PendingLoadGuard exists only once the stop has returned.
EvictForSlot(r) ==
  /\ pc[r] = "slot"
  /\ MaxLoaded # 0 /\ Committed >= MaxLoaded
  /\ Cardinality(Loaded) >= MaxLoaded
  /\ \E victim \in Idle : StopForSlot(r, victim, "stopVictim")

\* At the cap, every model busy: a 503.
RejectBusy(r) ==
  /\ pc[r] = "slot"
  /\ MaxLoaded # 0 /\ Cardinality(Loaded) >= MaxLoaded
  /\ Idle = {}
  /\ Abandon(r)

\* stop_and_wait has returned for everything r was stopping.
Stopped(r) ==
  /\ pc[r] \in {"stopRetired", "stopVictim", "oomEvict"}
  /\ Kill(holds[r])
  /\ holds' = [holds EXCEPT ![r] = {}]
  /\ Goto(r, "spawn")
  /\ UNCHANGED <<mgrVars, lockVars, want, guards, mark, tried, unload>>

-----------------------------------------------------------------------------
(* Spawning, and the retries after an out-of-memory failure. *)

Spawn(r) ==
  /\ pc[r] = "spawn"
  /\ \/ \E b \in Backends :
          /\ Unused(b) /\ b = CHOOSE p \in Backends : Unused(p)
          /\ proc'  = [proc EXCEPT ![b] = "starting"]
          /\ holds' = [holds EXCEPT ![r] = {b}]
          /\ Goto(r, "wait")
          /\ UNCHANGED <<mgrVars, lockVars, want, guards, mark, tried, unload>>
     \/ Abandon(r)

\* wait_for_ready: ready, failed, or failed in a way that looks like OOM.
WaitForReady(r) ==
  /\ pc[r] = "wait"
  /\ \/ \E state \in {"ready", "stopping"} :
          /\ state = "stopping" => want[r].ref \in Oversized
          /\ proc' = [b \in Backends |-> IF b \in holds[r] THEN state ELSE proc[b]]
          /\ Goto(r, IF state = "ready" THEN "insert" ELSE "oom")
          /\ UNCHANGED <<mgrVars, lockVars, want, guards, loadVars, unload>>
     \/ Abandon(r)

\* The failed process has been waited for; evict_other_models, once.
EvictOthers(r) ==
  LET others == {k \in Idle : k # want[r].ref}
      gone   == Under(others)
  IN  /\ pc[r] = "oom" /\ ~tried[r].evict /\ others # {}
      /\ tried' = [tried EXCEPT ![r] = Try(tried[r].split, tried[r].shrinks)]
      /\ Unregister(others)
      /\ proc'  = [b \in Backends |-> IF b \in gone THEN "stopping"
                                      ELSE IF b \in holds[r] THEN "none" ELSE proc[b]]
      /\ holds' = [holds EXCEPT ![r] = gone]
      /\ Goto(r, "oomEvict")
      /\ UNCHANGED <<pendingLoads, lockVars, want, guardKey, mark, unload>>

\* With nothing to evict: --split-mode layer once, then a smaller context
\* unless it was asked for, then the error.
ReduceAndRetry(r) ==
  LET t == tried[r]
      canSplit  == SplitNone /\ ~t.split
      canShrink == ~canSplit /\ want[r].ctx = 0 /\ t.shrinks < MaxShrinks
  IN  /\ pc[r] = "oom"
      /\ t.evict \/ Idle \subseteq {want[r].ref}
      /\ \/ /\ \/ canSplit  /\ tried' = [tried EXCEPT ![r] = Try(TRUE, t.shrinks)]
               \/ canShrink /\ tried' = [tried EXCEPT ![r] = Try(t.split, t.shrinks + 1)]
            /\ Kill(holds[r])
            /\ holds' = [holds EXCEPT ![r] = {}]
            /\ Goto(r, "spawn")
            /\ UNCHANGED <<mgrVars, lockVars, want, guards, mark, unload>>
         \/ ~canSplit /\ Abandon(r)

\* Registered with its first claim, the reservation released, in one lock.
\* HashMap::insert drops (and so kills) an entry already under the key.
Insert(r) ==
  LET k   == want[r].ref
      old == {running[k]} \ {None}
  IN  /\ pc[r] = "insert"
      /\ \E b \in holds[r] :
           /\ running'  = [running EXCEPT ![k] = b]
           /\ inFlight' = [p \in Backends |-> IF p = b THEN 1
                                              ELSE IF p \in old THEN 0 ELSE inFlight[p]]
           /\ window'   = [window EXCEPT ![b] = IF want[r].ctx # 0 THEN want[r].ctx
                                                ELSE DefaultWindow - tried[r].shrinks]
           /\ using' = [s \in Requests |-> IF s = r THEN b
                                           ELSE IF using[s] \in old THEN None ELSE using[s]]
      /\ Kill(old)
      /\ pendingLoads' = Less(pendingLoads)
      /\ guardKey' = [guardKey EXCEPT ![r] = k]
      /\ holds' = [holds EXCEPT ![r] = {}]
      /\ tried' = [tried EXCEPT ![r] = NothingTried]
      /\ Goto(r, "serving")
      /\ Leave(r)
      /\ UNCHANGED <<mark, unload>>

-----------------------------------------------------------------------------
(* The ends of a request, and the tasks Drop spawns. *)

\* The response has been sent, was refused, or the client has gone: the
\* ActivityGuard drops.  Nothing of it has happened in the map yet.
Finish(r) ==
  /\ pc[r] = "serving"
  /\ using' = [using EXCEPT ![r] = None]
  /\ Goto(r, "dropping")
  /\ UNCHANGED <<mgrVars, proc, lockVars, want, guardKey, loadVars, unload>>

\* Mutant: the claim is dropped without being counted down.
MutantReleaseClaim(r) ==
  /\ pc[r] = "dropping"
  /\ guardKey' = [guardKey EXCEPT ![r] = None]
  /\ Goto(r, "idle")
  /\ UNCHANGED <<mgrVars, proc, lockVars, want, using, loadVars, unload>>

\* ActivityGuard's spawned task: whatever runs under the key by now.
ReleaseClaim(r) ==
  LET b == running[guardKey[r]]
  IN  /\ pc[r] = "dropping"
      /\ inFlight' = IF b = None THEN inFlight ELSE [inFlight EXCEPT ![b] = Less(@)]
      /\ guardKey' = [guardKey EXCEPT ![r] = None]
      /\ Goto(r, "idle")
      /\ UNCHANGED <<running, pendingLoads, window, proc, lockVars, want, using,
                     loadVars, unload>>

\* PendingLoadGuard's spawned task.
ReleaseReservation(r) ==
  /\ pc[r] = "releasing"
  /\ pendingLoads' = Less(pendingLoads)
  /\ Goto(r, "idle")
  /\ UNCHANGED <<running, inFlight, window, proc, lockVars, want, guards,
                 loadVars, unload>>

\* The client disconnects at an await of the load: the future is dropped.
Disconnect(r) ==
  /\ r \in Impatient
  /\ pc[r] \in Queued \ {"plan"}
  /\ Abandon(r)

-----------------------------------------------------------------------------
(* The unload endpoint, the reaper and crashes. *)

ReleaseUnloadLock(u) ==
  loadLock' = [l \in Locks |-> IF loadLock[l] = u THEN None ELSE loadLock[l]]

Drop(K) == Unregister(K) /\ Kill(Under(K))

\* Mutant: an unload that does not take the load lock.
MutantUnloadLock(u) ==
  /\ unload[u].at = "idle"
  /\ \E ref \in Refs : unload' = [unload EXCEPT ![u] = [at |-> "key", ref |-> ref]]
  /\ UNCHANGED <<mgrVars, proc, lockVars, pc, want, guards, loadVars>>

UnloadLock(u) ==
  /\ unload[u].at = "idle"
  /\ \E ref \in Refs :
       /\ loadLock[LockOf[ref]] = None
       /\ loadLock' = [loadLock EXCEPT ![LockOf[ref]] = u]
       /\ unload'   = [unload EXCEPT ![u] = [at |-> "key", ref |-> ref]]
  /\ UNCHANGED <<mgrVars, proc, pendingRequests, pc, want, guards, loadVars>>

\* Removed under its key whatever it is serving; else by content next.
UnloadByKey(u) ==
  LET k == unload[u].ref
      found == k \in Loaded
  IN  /\ unload[u].at = "key"
      /\ Drop(IF found THEN {k} ELSE {})
      /\ unload' = [unload EXCEPT ![u] = IF found THEN NoUnload
                                           ELSE [at |-> "digest", ref |-> k]]
      /\ IF found THEN ReleaseUnloadLock(u) ELSE UNCHANGED loadLock
      /\ UNCHANGED <<pendingLoads, pendingRequests, pc, want, guardKey, loadVars>>

\* The entry recording the same content, if the digest is still known.
UnloadByDigest(u) ==
  LET same == {k \in Loaded : ContentOf[k] = ContentOf[unload[u].ref]}
  IN  /\ unload[u].at = "digest"
      /\ \E K \in {{}} \cup {{k} : k \in same} : Drop(K)
      /\ unload' = [unload EXCEPT ![u] = NoUnload]
      /\ ReleaseUnloadLock(u)
      /\ UNCHANGED <<pendingLoads, pendingRequests, pc, want, guardKey, loadVars>>

\* The reaper: idle entries past their keep_alive (any idle ones: time and
\* keep_alive are not modelled here), found and removed under one lock.
ReapIdleModels ==
  /\ \E K \in SUBSET Idle \ {{}} : Drop(K)
  /\ UNCHANGED <<pendingLoads, lockVars, pc, want, guardKey, loadVars, unload>>

\* A backend exits on its own (one not registered yet might as well exit
\* just after); the map learns of it from try_wait.
Crash(b) ==
  /\ proc[b] = "ready"
  /\ \E k \in Fragile : running[k] = b
  /\ proc' = [proc EXCEPT ![b] = "crashed"]
  /\ UNCHANGED <<mgrVars, lockVars, pc, want, guards, loadVars, unload>>

-----------------------------------------------------------------------------
Init ==
  /\ running = [k \in Refs |-> None]
  /\ pendingLoads = 0
  /\ inFlight = [b \in Backends |-> 0]
  /\ window = [b \in Backends |-> 0]
  /\ proc = [b \in Backends |-> "none"]
  /\ loadLock = [l \in Locks |-> None]
  /\ pendingRequests = 0
  /\ pc = [r \in Requests |-> "idle"]
  /\ want = [r \in Requests |-> NoAsk]
  /\ guardKey = [r \in Requests |-> None]
  /\ using = [r \in Requests |-> None]
  /\ holds = [r \in Requests |-> {}]
  /\ mark = [r \in Requests |-> None]
  /\ tried = [r \in Requests |-> NothingTried]
  /\ unload = [u \in Unloads |-> NoUnload]

\* The steps a task of the runtime takes by itself.
Load(r) ==
  \/ FastPath(r) \/ TryAdmit(r) \/ Recheck(r) \/ Pull(r) \/ Rejoin(r)
  \/ CheckRunningByDigest(r) \/ Plan(r) \/ RetireForContext(r)
  \/ ReserveSlot(r) \/ EvictForSlot(r) \/ RejectBusy(r) \/ Stopped(r)
  \/ Spawn(r) \/ WaitForReady(r) \/ EvictOthers(r) \/ ReduceAndRetry(r) \/ Insert(r)

Unloading(u) == UnloadByKey(u) \/ UnloadByDigest(u)

Next ==
  \/ \E r \in Requests :
       \/ Arrive(r) \/ Load(r) \/ AcquireLoadLock(r) \/ Finish(r)
       \/ ReleaseClaim(r) \/ ReleaseReservation(r) \/ Disconnect(r)
  \/ \E u \in Unloads : UnloadLock(u) \/ Unloading(u)
  \/ ReapIdleModels
  \/ \E b \in Backends : Crash(b)

Spec == Init /\ [][Next]_vars

\* Tasks are polled, awaited processes stop or answer, streams end; the tokio
\* mutex of a load lock is FIFO, so its waiters are served in turn.  Nothing
\* makes clients arrive, disconnect or unload, backends crash, or the reaper
\* find a model expired.
Fairness ==
  /\ \A r \in Requests :
       /\ WF_vars(Load(r)) /\ SF_vars(AcquireLoadLock(r))
       /\ WF_vars(Finish(r))
       /\ WF_vars(ReleaseClaim(r)) /\ WF_vars(ReleaseReservation(r))
  /\ \A u \in Unloads : WF_vars(Unloading(u))

FairSpec == Spec /\ Fairness

-----------------------------------------------------------------------------
(* Properties. *)

\* The types of the state.
TypeOK ==
  /\ running \in [Refs -> Backends \cup {None}]
  /\ pendingLoads \in Nat
  /\ inFlight \in [Backends -> Nat]
  /\ window \in [Backends -> Nat]
  /\ proc \in [Backends -> {"none", "starting", "ready", "crashed", "stopping"}]
  /\ loadLock \in [Locks -> Requests \cup Unloads \cup {None}]
  /\ pendingRequests \in Int
  /\ pc \in [Requests -> PC]
  /\ want \in [Requests -> Asks]
  /\ guardKey \in [Requests -> Refs \cup {None}]
  /\ using \in [Requests -> Backends \cup {None}]
  /\ holds \in [Requests -> SUBSET Backends]
  /\ mark \in [Requests -> Backends \cup {None}]
  /\ tried \in [Requests -> [evict : BOOLEAN, split : BOOLEAN,
                         shrinks : 0..MaxShrinks]]
  /\ unload \in [Unloads -> [at : {"idle", "key", "digest"}, ref : Refs]]

\* Two loads under one load lock never overlap, nor a load and an unload of
\* it, though the lock is released by whatever ends the task (serve.rs,
\* LoadLockGuard).
LoadsExclude ==
  /\ \A r, s \in Requests :
       r # s /\ pc[r] \in Locked /\ pc[s] \in Locked
         => LockOf[want[r].ref] # LockOf[want[s].ref]
  /\ \A r \in Requests, u \in Unloads :
       pc[r] \in Locked /\ unload[u].at # "idle"
         => LockOf[want[r].ref] # LockOf[unload[u].ref]

\* LLMMAN_MAX_LOADED_MODELS holds for models and reservations together,
\* whatever evicts, retires, fails or is cancelled (ModelManager's comment).
CapacityRespected == MaxLoaded # 0 => Committed <= MaxLoaded

\* Each step of the scheduler is one of the abstract specification: slots
\* are reserved only while one is free, handed over with the model that
\* leaves, and filled or released once.
AbstractSlots == INSTANCE Slots WITH Models <- Refs, Cap <- MaxLoaded,
                                     loaded <- Loaded, reserved <- pendingLoads
ImplementsSlots == AbstractSlots!Spec

\* Who is entitled to a reservation: a load past admission, a cancelled one
\* whose release task has not run, and one waiting for its victim to stop.
Reserving == {r \in Requests : pc[r] \in Reserved \cup {"releasing", "stopVictim"}}

\* No reservation is ever released twice or too early: a load's slot cannot
\* be given to another while it still loads.
ReservationsCovered == pendingLoads >= Cardinality(Reserving)

\* pending_loads counts the loads under way, as its comment says: a
\* reservation is also never lost.
ReservationsExact == pendingLoads = Cardinality(Reserving)

\* PENDING_REQUESTS is the number of admitted requests on every path out of
\* the load, and never above LLMMAN_MAX_QUEUE.
QueueAccounted ==
  /\ pendingRequests = Cardinality({r \in Requests : pc[r] \in Queued})
  /\ pendingRequests <= QueueCap

\* A claim is not leaked: in_flight never exceeds the guards outstanding on
\* that key, or the model could never be evicted, reaped or retired again.
ClaimsNotLeaked ==
  \A k \in Loaded :
    inFlight[running[k]] <= Cardinality({r \in Requests : guardKey[r] = k})

\* At most one process starts or serves for one content, whichever of its
\* names is asked for (check_running_by_digest), when no num_ctx is asked.
Provides(b, content) ==
  \/ \E k \in Loaded : running[k] = b /\ ContentOf[k] = content
  \/ \E r \in Requests : b \in holds[r] /\ pc[r] \in {"wait", "insert"}
                         /\ ContentOf[want[r].ref] = content
OneBackendPerContent ==
  \A a, b \in Backends :
    proc[a] \in {"starting", "ready"} /\ proc[b] \in {"starting", "ready"}
      => \A k \in Refs : Provides(a, ContentOf[k]) /\ Provides(b, ContentOf[k])
                           => a = b

\* Registering a load never replaces, and so kills, a model under its key.
NeverReplaced ==
  [][\A k \in Refs : running[k] # None => running'[k] \in {None, running[k]}]_vars

\* A request being served by a live backend keeps it until it is done:
\* eviction, retirement and the reaper leave it alone, only an explicit
\* unload takes it away (sched.rs, ActivityGuard).
ServedUntilDone ==
  [][\A r \in Requests :
       (/\ pc[r] = "serving" /\ using[r] # None /\ proc[using[r]] = "ready"
        /\ using'[r] # using[r])
       => pc'[r] = "dropping" \/ \E u \in Unloads : Unloading(u)]_vars

\* A retirement that waits for a busy model gets it: the mark turns new
\* requests away, so steady traffic cannot keep it busy (retire_for_context).
RetirementEnds ==
  \A r \in Requests : pc[r] = "retire" ~> pc[r] # "retire"

\* Capacity taken up by other loads' reservations comes back: the wait for
\* one to resolve is never for ever (enforce_max_loaded_models).
HeldByLoads ==
  MaxLoaded # 0 /\ Committed >= MaxLoaded /\ Cardinality(Loaded) < MaxLoaded
CapacityWaitEnds == HeldByLoads ~> ~HeldByLoads
=============================================================================
