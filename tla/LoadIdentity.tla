---------------------------- MODULE LoadIdentity -----------------------------
(***************************************************************************)
(* Which lock a load takes, under which key its server runs, and how both  *)
(* keep apart or bring together the spellings of one model (load_identity, *)
(* canonical_ref, check_running_by_digest, unload_model, pull_serialized   *)
(* in cmd/serve.rs; evict_if_retagged in serve/ollama.rs).                 *)
(*                                                                         *)
(* One repository.  A name is a tag of it (`m:v9`) or a digest             *)
(* (`m@sha256:...`); the store maps names to contents, and an entry named  *)
(* by a digest holds that content.  A server is what `running` records of  *)
(* it: its content.  Slots, claims, windows and retries are Scheduler's    *)
(* subject.                                                                *)
(***************************************************************************)
EXTENDS FiniteSets

CONSTANTS
  Tasks,      \* requests of the daemon; each asks for one thing after another
  Tags,       \* tags of the repository
  Latest,     \* the tag a name without one stands for
  Contents,   \* digests; as a name, the entry a pull by digest records
  Published,  \* the content the registry serves under a tag, or None
  Mutexes,    \* identities of mutexes
  None

Names == Tags \cup Contents

ASSUME NamesAssumption ==
  /\ Latest \in Tags
  /\ Tags \cap Contents = {}
  /\ Published \in [Tags -> Contents \cup {None}]
  /\ None \notin Tasks \cup Names \cup Mutexes
  /\ None \notin [content : Contents, lock : Tags]

VARIABLES
  store,    \* the content each name points at, or None
  running,  \* the server under each key, or None
  req,      \* what each task asks for and how far it is
  pull,     \* how far the pull is that each task gave a thread
  loadRegistry, loadHolder, loadTicket,     \* LOAD_LOCKS
  modelRegistry, modelHolder, modelTicket   \* MODEL_LOCKS

LoadLocks == INSTANCE KeyedLock WITH
  Keys <- Tags, registry <- loadRegistry, holder <- loadHolder, ticket <- loadTicket

ModelLocks == INSTANCE KeyedLock WITH
  Keys <- Names, registry <- modelRegistry, holder <- modelHolder, ticket <- modelTicket

loadLocks  == <<loadRegistry, loadHolder, loadTicket>>
modelLocks == <<modelRegistry, modelHolder, modelTicket>>
vars == <<store, running, req, pull, loadLocks, modelLocks>>

PCs == {"idle", "fast", "wait", "recheck", "pulling", "rejoin", "digest", "start",
        "remove", "bydigest", "evict", "leave"}

PullStages == {"none", "asked", "downloading", "ok", "failed"}

Pulls == [stage : PullStages, name : Names \cup {None}]

NoPull == [stage |-> "none", name |-> None]

\* The lock a server was loaded under is history.
Servers == [content : Contents, lock : Tags]

Ops == {"none", "load", "unload", "pull", "copy"}

Requests == [op : Ops, pc : PCs, lock : Tags \cup {None}, key : Names \cup {None},
             digest : Contents \cup {None}]

Idle == [op |-> "none", pc |-> "idle", lock |-> None, key |-> None, digest |-> None]

TypeOK ==
  /\ store \in [Names -> Contents \cup {None}]
  /\ running \in [Names -> Servers \cup {None}]
  /\ req \in [Tasks -> Requests]
  /\ pull \in [Tasks -> Pulls]
  /\ LoadLocks!LocksTypeOK
  /\ ModelLocks!LocksTypeOK

Init ==
  /\ store = [n \in Names |-> None]
  /\ running = [n \in Names |-> None]
  /\ req = [t \in Tasks |-> Idle]
  /\ pull = [t \in Tasks |-> NoPull]
  /\ LoadLocks!LocksInit
  /\ ModelLocks!LocksInit

(***************************************************************************)
(* The store, as the daemon asks it                                        *)
(***************************************************************************)

HeldBy(c) == {tag \in Tags : store[tag] = c}

\* find: the entry itself; else, for a digest, the tag spelled (none spells
\* Latest), else any that holds it.
Find(n) ==
  IF store[n] # None THEN {n}
  ELSE IF n \in Tags THEN {}
  ELSE IF Latest \in HeldBy(n) THEN {Latest}
  ELSE HeldBy(n)

\* canonical_ref: what the store calls n, or n.
CanonicalRef(n) == IF Find(n) = {} THEN {n} ELSE Find(n)

\* stored_tag_for_digest
StoredTag(n) == IF n \in Contents THEN Find(n) \cap Tags ELSE {}

\* load_identity: the key of the load lock.
Identity(n) ==
  IF StoredTag(n) # {} THEN StoredTag(n)
  ELSE {IF n \in Tags THEN n ELSE Latest}

(***************************************************************************)
(* Loads.  A step runs from one await to the next.                         *)
(***************************************************************************)

At(t, op, pc) == req[t].op = op /\ req[t].pc = pc

Go(t, pc) == req' = [req EXCEPT ![t].pc = pc]

\* The lock guard is about to be dropped; nothing else matters any more.
Return(t) == req' = [req EXCEPT ![t] = [Idle EXCEPT !.pc = "leave"]]

Finish(t) == req' = [req EXCEPT ![t] = Idle]

Free(t) == req[t] = Idle /\ pull[t] = NoPull

\* Which lock it will take is settled before which key it looks for.
Arrive(t, n) ==
  /\ Free(t)
  /\ \E lock \in Identity(n), key \in CanonicalRef(n) :
       req' = [req EXCEPT ![t] = [Idle EXCEPT !.op = "load", !.pc = "fast",
                                             !.lock = lock, !.key = key]]
  /\ UNCHANGED <<store, running, pull, loadLocks, modelLocks>>

Serves(t) == running[req[t].key] # None

\* Served by what runs under the key; else in line for the lock.
FastPath(t) ==
  /\ req[t].pc = "fast"
  /\ \/ Serves(t) /\ Finish(t) /\ UNCHANGED loadLocks
     \/ ~Serves(t) /\ Go(t, "wait") /\ LoadLocks!Clone(t, req[t].lock)
  /\ UNCHANGED <<store, running, pull, modelLocks>>

AcquireLoadLock(t) ==
  /\ At(t, "load", "wait")
  /\ LoadLocks!Acquire(t)
  /\ Go(t, "recheck")
  /\ UNCHANGED <<store, running, pull, modelLocks>>

\* A pull goes to a thread of its own, which nothing cancels.
AskFor(t, n) == pull' = [pull EXCEPT ![t] = [stage |-> "asked", name |-> n]]

Recheck(t) ==
  /\ req[t].pc = "recheck"
  /\ \/ Serves(t) /\ Return(t) /\ UNCHANGED pull
     \/ ~Serves(t) /\ Go(t, "pulling") /\ AskFor(t, req[t].key)
  /\ UNCHANGED <<store, running, loadLocks, modelLocks>>

\* The pull is over: its name may be another one now.
Pulled(t) ==
  /\ req[t].pc = "pulling"
  /\ modelTicket[t].stage = "out"
  /\ \/ /\ pull[t].stage = "ok"
        /\ \E n \in CanonicalRef(req[t].key) :
             req' = [req EXCEPT ![t].key = n, ![t].pc = "rejoin"]
     \/ pull[t].stage = "failed" /\ Return(t)
  /\ pull' = [pull EXCEPT ![t] = NoPull]
  /\ UNCHANGED <<store, running, loadLocks, modelLocks>>

MutantRejoin(t) ==
  /\ req[t].pc = "rejoin"
  /\ \/ Serves(t) /\ Return(t)
     \/ /\ ~Serves(t)
        /\ req' = [req EXCEPT ![t].digest = store[req[t].key], ![t].pc = "digest"]
  /\ UNCHANGED <<store, running, pull, loadLocks, modelLocks>>

\* Checked under the new key; else the digest is read, and a model gone
\* from the store since is an error.
Rejoin(t) ==
  /\ req[t].pc = "rejoin"
  /\ \/ (Serves(t) \/ Find(req[t].key) = {}) /\ Return(t)
     \/ /\ ~Serves(t)
        /\ \E n \in Find(req[t].key) :
             req' = [req EXCEPT ![t].digest = store[n], ![t].pc = "digest"]
  /\ UNCHANGED <<store, running, pull, loadLocks, modelLocks>>

MutantRunningContent(c) == {n \in Tags : running[n] # None /\ running[n].content = c}

RunningContent(c) == {n \in Names : running[n] # None /\ running[n].content = c}

CheckRunningByDigest(t) ==
  /\ req[t].pc = "digest"
  /\ IF RunningContent(req[t].digest) # {} THEN Return(t) ELSE Go(t, "start")
  /\ UNCHANGED <<store, running, pull, loadLocks, modelLocks>>

\* The server is up: it replaces whatever runs under the key.
Insert(t) ==
  /\ req[t].pc = "start"
  /\ running' = [running EXCEPT ![req[t].key] =
                   [content |-> req[t].digest, lock |-> req[t].lock]]
  /\ Return(t)
  /\ UNCHANGED <<store, pull, loadLocks, modelLocks>>

FailToStart(t) ==
  /\ req[t].pc = "start"
  /\ Return(t)
  /\ UNCHANGED <<store, running, pull, loadLocks, modelLocks>>

\* LoadLockGuard is dropped.
Leave(t) ==
  /\ req[t].pc = "leave"
  /\ \/ LoadLocks!Unlock(t) /\ UNCHANGED req
     \/ LoadLocks!Release(t) /\ Finish(t)
  /\ UNCHANGED <<store, running, pull, modelLocks>>

\* The client goes away at an await.  A pull it spawned goes on.
Disconnect(t) ==
  /\ \/ req[t].pc \in {"fast", "evict"} /\ Finish(t) /\ UNCHANGED loadLocks
     \/ req[t].pc = "wait" /\ LoadLocks!GiveUp(t) /\ Finish(t)
     \/ /\ req[t].pc \in {"recheck", "pulling", "rejoin", "digest", "start",
                          "remove", "bydigest"}
        /\ Return(t)
        /\ UNCHANGED loadLocks
  /\ UNCHANGED <<store, running, pull, modelLocks>>

(***************************************************************************)
(* unload_model                                                            *)
(***************************************************************************)

AskUnload(t, n) ==
  /\ Free(t)
  /\ \E lock \in Identity(n) :
       /\ LoadLocks!Clone(t, lock)
       /\ req' = [req EXCEPT ![t] = [Idle EXCEPT !.op = "unload", !.pc = "wait",
                                                 !.lock = lock, !.key = n]]
  /\ UNCHANGED <<store, running, pull, modelLocks>>

\* Only now the running key: a load may just have changed it.
LockUnload(t) ==
  /\ At(t, "unload", "wait")
  /\ LoadLocks!Acquire(t)
  /\ \E n \in CanonicalRef(req[t].key) :
       req' = [req EXCEPT ![t].key = n, ![t].pc = "remove"]
  /\ UNCHANGED <<store, running, pull, modelLocks>>

\* The digest the key carries, or the one the store has for it.
DigestOf(n) == IF n \in Contents THEN n ELSE store[n]

RemoveByKey(t) ==
  /\ req[t].pc = "remove"
  /\ running' = [running EXCEPT ![req[t].key] = None]
  /\ IF Serves(t) \/ DigestOf(req[t].key) = None THEN Return(t)
     ELSE req' = [req EXCEPT ![t].pc = "bydigest", ![t].digest = DigestOf(req[t].key)]
  /\ UNCHANGED <<store, pull, loadLocks, modelLocks>>

\* The tag spelled first, when several keys run the content.
SpelledTag(n) == IF n \in Tags THEN n ELSE Latest

ToUnload(t) ==
  LET keys == RunningContent(req[t].digest) IN
  IF SpelledTag(req[t].key) \in keys THEN {SpelledTag(req[t].key)} ELSE keys

RemoveByDigest(t) ==
  /\ req[t].pc = "bydigest"
  /\ IF ToUnload(t) = {} THEN UNCHANGED running
     ELSE \E n \in ToUnload(t) : running' = [running EXCEPT ![n] = None]
  /\ Return(t)
  /\ UNCHANGED <<store, pull, loadLocks, modelLocks>>

(***************************************************************************)
(* Pulls: a load's, and /api/pull                                          *)
(***************************************************************************)

\* /api/pull: a task that is nothing but its blocking thread.
AskPull(t, n) ==
  /\ Free(t)
  /\ AskFor(t, n)
  /\ req' = [req EXCEPT ![t].op = "pull"]
  /\ UNCHANGED <<store, running, loadLocks, modelLocks>>

PullQueue(t) ==
  /\ pull[t].stage = "asked"
  /\ ModelLocks!Clone(t, pull[t].name)
  /\ UNCHANGED <<store, running, req, pull, loadLocks>>

MutantPullEnter(t) ==
  /\ pull[t].stage = "asked"
  /\ modelTicket[t].stage = "waiting"
  /\ pull' = [pull EXCEPT ![t].stage = IF Find(pull[t].name) # {} THEN "ok" ELSE "downloading"]
  /\ UNCHANGED <<store, running, req, loadLocks, modelLocks>>

\* Looked for again under the lock: there is nothing to do if it is there.
PullEnter(t) ==
  /\ pull[t].stage = "asked"
  /\ ModelLocks!Acquire(t)
  /\ pull' = [pull EXCEPT ![t].stage = IF Find(pull[t].name) # {} THEN "ok" ELSE "downloading"]
  /\ UNCHANGED <<store, running, req, loadLocks>>

Offered(n) == IF n \in Tags THEN Published[n] ELSE n

PullLand(t) ==
  /\ pull[t].stage = "downloading"
  /\ Offered(pull[t].name) # None
  /\ store' = [store EXCEPT ![pull[t].name] = Offered(pull[t].name)]
  /\ pull' = [pull EXCEPT ![t].stage = "ok"]
  /\ UNCHANGED <<running, req, loadLocks, modelLocks>>

PullFail(t) ==
  /\ pull[t].stage = "downloading"
  /\ pull' = [pull EXCEPT ![t].stage = "failed"]
  /\ UNCHANGED <<store, running, req, loadLocks, modelLocks>>

\* The guard, the clone and the entry of the registry are given back.
PullLeave(t) ==
  /\ pull[t].stage \in {"ok", "failed"}
  /\ ModelLocks!Leaving(t)
  /\ UNCHANGED <<store, running, req, pull, loadLocks>>

\* Nobody waits for the result: /api/pull, or a load that was dropped.
PullEnd(t) ==
  /\ pull[t].stage \in {"ok", "failed"}
  /\ modelTicket[t].stage = "out"
  /\ req[t].pc # "pulling"
  /\ pull' = [pull EXCEPT ![t] = NoPull]
  /\ IF req[t].op = "pull" THEN Finish(t) ELSE UNCHANGED req
  /\ UNCHANGED <<store, running, loadLocks, modelLocks>>

(***************************************************************************)
(* What else changes the store or the running servers                      *)
(***************************************************************************)

\* /api/copy onto a tag, then evict_if_retagged; neither takes a lock.
Copy(t, tag, c) ==
  /\ Free(t)
  /\ Find(c) # {}
  /\ store' = [store EXCEPT ![tag] = c]
  /\ req' = [req EXCEPT ![t] = [Idle EXCEPT !.op = "copy", !.pc = "evict",
                                            !.key = tag, !.digest = c]]
  /\ UNCHANGED <<running, pull, loadLocks, modelLocks>>

Stale(n, c) == running[n] # None /\ running[n].content # c

EvictIfRetagged(t) ==
  /\ req[t].pc = "evict"
  /\ running' = IF Stale(req[t].key, req[t].digest)
                THEN [running EXCEPT ![req[t].key] = None] ELSE running
  /\ Finish(t)
  /\ UNCHANGED <<store, pull, loadLocks, modelLocks>>

\* `rm` of another process, or /api/delete.
Remove(n) ==
  /\ store[n] # None
  /\ store' = [store EXCEPT ![n] = None]
  /\ UNCHANGED <<running, req, pull, loadLocks, modelLocks>>

\* A server crashes, is evicted or has been idle for its keep_alive.
Exit(n) ==
  /\ running[n] # None
  /\ running' = [running EXCEPT ![n] = None]
  /\ UNCHANGED <<store, req, pull, loadLocks, modelLocks>>

LoadStep(t) ==
  \/ FastPath(t) \/ AcquireLoadLock(t) \/ Recheck(t) \/ Pulled(t) \/ Rejoin(t)
  \/ CheckRunningByDigest(t) \/ Insert(t) \/ FailToStart(t) \/ Leave(t)

UnloadStep(t) == LockUnload(t) \/ RemoveByKey(t) \/ RemoveByDigest(t)

PullStep(t) ==
  \/ PullQueue(t) \/ PullEnter(t) \/ PullLand(t) \/ PullFail(t) \/ PullLeave(t)
  \/ PullEnd(t)

Next ==
  \/ \E t \in Tasks :
       \/ \E n \in Names : Arrive(t, n) \/ AskUnload(t, n) \/ AskPull(t, n)
       \/ \E tag \in Tags, c \in Contents : Copy(t, tag, c)
       \/ LoadStep(t) \/ UnloadStep(t) \/ PullStep(t)
       \/ EvictIfRetagged(t) \/ Disconnect(t)
  \/ \E n \in Names : Remove(n) \/ Exit(n)

Spec == Init /\ [][Next]_vars

(***************************************************************************)
(* Properties                                                              *)
(***************************************************************************)

\* No registry removes an entry under a task that uses its mutex.
OneMutexPerKey == LoadLocks!OneMutexPerKey /\ ModelLocks!OneMutexPerKey

\* The load locks are one lock for each key, whatever the registry does.
LoadLocksExclude == LoadLocks!ImplementsLockMap

\* A server is in `running`, or has been started and will be.
Starting(t) == req[t].pc = "start"

\* Two servers of one content, if ever, were loaded under different locks:
\* what a load does under its lock never doubles what another one left
\* there (serve.rs:1237, check_running_by_digest).
OneServerPerLock ==
  /\ \A n1, n2 \in Names :
       running[n1] # None /\ running[n1] = running[n2] => n1 = n2
  /\ \A t \in Tasks, n \in Names :
       Starting(t) => running[n] # [content |-> req[t].digest, lock |-> req[t].lock]
  /\ \A t, u \in Tasks :
       Starting(t) /\ Starting(u) /\ req[t].lock = req[u].lock => t = u

\* One name is never pulled twice at once, by loads, by /api/pull, or by
\* what a dropped load left behind (serve.rs:705, MODEL_LOCKS).
PullsOnce == \A t, u \in Tasks :
  /\ pull[t].stage = "downloading" /\ pull[u].stage = "downloading"
  /\ pull[t].name = pull[u].name
  => t = u
=============================================================================
