------------------------------- MODULE Catalog -------------------------------
(***************************************************************************)
(* The provider catalog (providers.rs): memoized, refreshed by a thread    *)
(* once it has expired, fetched again by a listing that misses a model.    *)
(* Two locks order all that: CATALOG, which the first load holds while it  *)
(* downloads, and the gate's turn.  A catalog is the version of models.dev *)
(* that it was taken from; the model asked for is listed from version 1 on.*)
(***************************************************************************)
EXTENDS Naturals, FiniteSets

CONSTANTS
  Callers,
  Refresher,    \* the thread that refreshes, one at a time (REFRESHING)
  Retry,        \* RETRY_COOLDOWN, in ticks; a download lasts one at most
  Cooldown,     \* MISS_REFRESH_COOLDOWN
  Ttl,          \* CACHE_TTL, of the memory and of the file
  MaxVersion,   \* bound: how often models.dev changes
  Nothing

ASSUME CatalogAssumption ==
  /\ Refresher \notin Callers /\ Nothing \notin Callers \cup {Refresher}
  /\ {Retry, Cooldown, Ttl, MaxVersion} \subseteq Nat
  /\ 0 < Retry /\ Retry < Cooldown /\ Cooldown < Ttl

VARIABLES
  held,      \* CATALOG: what was loaded, how long ago and for how long
  holder,    \* who has CATALOG locked across a step
  turn,      \* who has the gate's turn
  asked,     \* the gate's `last`: ticks since models.dev was asked
  cacheFile, \* CACHE_FILE
  thread,    \* what each thread does
  models,    \* the version models.dev is at
  world      \* whether the file can be written, and others write it too

catalogVars == <<held, holder, turn, asked, cacheFile, thread, models, world>>

Threads == Callers \cup {Refresher}

Versions == 0..MaxVersion

Ages == 0..Ttl

NoHeld == [ok |-> FALSE, version |-> 0, age |-> Ttl, life |-> 0]

\* since: age of the load under way.  late: a download ended since it queued.
Begin(pc, op) == [pc |-> pc, op |-> op, since |-> 0, version |-> 0, late |-> FALSE]

Resting == Begin("idle", "none")

ThreadStates ==
  [pc : {"idle", "calling", "queued", "again", "loading", "downloading", "fetched", "refused", "loaded"},
   op : {"none", "catalog", "listing"}, since : Ages, version : Versions, late : BOOLEAN]

CatalogInit ==
  /\ held = NoHeld /\ holder = Nothing /\ turn = Nothing /\ asked = Ttl
  /\ models = 0
  /\ cacheFile \in [there : BOOLEAN, version : {0}, age : {Ttl}]
  /\ world \in [writable : BOOLEAN, others : BOOLEAN, other : {Nothing}]
  /\ world.others => world.writable
  /\ thread = [t \in Threads |-> Resting]

In(t, pcs) == thread[t].pc \in pcs

Set(t, pc) == thread' = [thread EXCEPT ![t].pc = pc]

Current == held.age < held.life

AskCatalog(t, op) ==
  /\ t # Refresher /\ In(t, {"idle"})
  /\ thread' = [thread EXCEPT ![t] = Begin("calling", op)]
  /\ UNCHANGED <<held, holder, turn, asked, cacheFile, models, world>>

\* catalog has answered c: a listing looks whether that will do, waits for
\* its turn if it will not, and with it downloads unless one just did.
Answered(t, c, others) ==
  LET enough == thread[t].op = "catalog" \/ ~c.ok \/ c.version > 0
      over == enough \/ (turn = t /\ asked < Cooldown)
  IN /\ thread' = [others EXCEPT ![t] =
                     IF over THEN Resting
                     ELSE Begin(IF turn = t THEN "downloading" ELSE "queued", "listing")]
     /\ turn' = IF over /\ turn = t THEN Nothing ELSE turn

\* catalog, when there is something to serve, were it stale: in that case a
\* thread sees to it, unless one does already.
Serve(t) ==
  /\ In(t, {"calling", "again"}) /\ holder = Nothing
  /\ held.ok \/ Current
  /\ Answered(t, held, IF Current \/ ~In(Refresher, {"idle"}) THEN thread
                 ELSE [thread EXCEPT ![Refresher] = Begin("queued", "none")])
  /\ UNCHANGED <<held, holder, asked, cacheFile, models, world>>

\* A load with the gate's turn as well as CATALOG.
MutantLoadInline(t) ==
  /\ In(t, {"calling", "again"}) /\ ~(held.ok \/ Current)
  /\ \/ /\ holder = Nothing /\ holder' = t /\ UNCHANGED <<thread, turn>>
     \/ /\ holder = t /\ turn \in {Nothing, t}
        /\ Set(t, "loading") /\ turn' = t /\ UNCHANGED holder
  /\ UNCHANGED <<held, asked, cacheFile, models, world>>

\* catalog, with nothing to serve: everybody waits for one load.
LoadInline(t) ==
  /\ In(t, {"calling", "again"}) /\ holder = Nothing
  /\ ~(held.ok \/ Current)
  /\ holder' = t
  /\ Set(t, "loading")
  /\ UNCHANGED <<held, turn, asked, cacheFile, models, world>>

MutantTakeTurn(t) ==
  /\ In(t, {"queued"}) /\ (turn = Nothing \/ t = Refresher)
  /\ IF t # Refresher
     THEN Set(t, "again") /\ turn' = t
     ELSE Set(t, "loading") /\ UNCHANGED turn
  /\ UNCHANGED <<held, holder, asked, cacheFile, models, world>>

\* Both ways through the gate: a listing looks again, and a refresh that
\* another download overtook is skipped.
TakeTurn(t) ==
  /\ In(t, {"queued"}) /\ turn = Nothing
  /\ IF t = Refresher /\ thread[t].late
     THEN thread' = [thread EXCEPT ![t] = Resting] /\ UNCHANGED turn
     ELSE Set(t, IF t = Refresher THEN "loading" ELSE "again") /\ turn' = t
  /\ UNCHANGED <<held, holder, asked, cacheFile, models, world>>

\* load: a fresh file will do.
Load(t) ==
  /\ In(t, {"loading"})
  /\ thread' = [thread EXCEPT ![t] =
       IF cacheFile.there /\ cacheFile.age < Ttl
       THEN [@ EXCEPT !.pc = "loaded", !.version = cacheFile.version, !.since = 0]
       ELSE [@ EXCEPT !.pc = "downloading", !.since = 0]]
  /\ UNCHANGED <<held, holder, turn, asked, cacheFile, models, world>>

\* fetch, answered or not: the gate notes that models.dev was asked.
Download(t) == \E pc \in {"fetched", "refused"} :
  /\ In(t, {"downloading"})
  /\ asked' = 0
  /\ thread' = [u \in Threads |->
       IF u = t THEN [thread[t] EXCEPT !.pc = pc, !.version = IF pc = "fetched" THEN models ELSE 0]
       ELSE [thread[u] EXCEPT !.late = thread[u].pc = "queued"]]
  /\ UNCHANGED <<held, holder, turn, cacheFile, models, world>>

\* What was fetched is written, if it can be.
WriteCache(t) ==
  /\ In(t, {"fetched"})
  /\ cacheFile' = IF world.writable
                  THEN [there |-> TRUE, version |-> thread[t].version, age |-> 0]
                  ELSE cacheFile
  /\ Set(t, "loaded")
  /\ UNCHANGED <<held, holder, turn, asked, models, world>>

\* What was loaded is catalog's answer to the caller that holds CATALOG;
\* for others it ends what their turn was for.
Back(t, c) ==
  /\ IF holder = t THEN Answered(t, c, thread)
     ELSE thread' = [thread EXCEPT ![t] = Resting] /\ turn' = IF turn = t THEN Nothing ELSE turn
  /\ holder' = IF holder = t THEN Nothing ELSE holder

\* A load's or a listing's download becomes the catalog.
Store(t) ==
  /\ In(t, {"loaded"}) /\ holder \in {Nothing, t}
  /\ held' = [ok |-> TRUE, version |-> thread[t].version, age |-> thread[t].since, life |-> Ttl]
  /\ Back(t, held')
  /\ UNCHANGED <<asked, cacheFile, models, world>>

MutantFallBack(t) ==
  /\ In(t, {"refused"}) /\ holder \in {Nothing, t}
  /\ held' = IF thread[t].op = "listing" /\ holder # t THEN held
             ELSE [NoHeld EXCEPT !.age = thread[t].since, !.life = Retry]
  /\ Back(t, held')
  /\ UNCHANGED <<asked, cacheFile, models, world>>

\* A failed load falls back on the file, however old, and is tried again
\* soon; a failed listing keeps what is held.
FallBack(t) ==
  /\ In(t, {"refused"}) /\ holder \in {Nothing, t}
  /\ held' = IF thread[t].op = "listing" /\ holder # t THEN held
             ELSE [ok |-> cacheFile.there, version |-> cacheFile.version,
                   age |-> thread[t].since, life |-> Retry]
  /\ Back(t, held')
  /\ UNCHANGED <<asked, cacheFile, models, world>>

(***************************************************************************)
(* models.dev, other processes and the clock                               *)
(***************************************************************************)

Publish ==
  /\ models < MaxVersion /\ models' = models + 1
  /\ UNCHANGED <<held, holder, turn, asked, cacheFile, thread, world>>

\* `llmman launch` downloads and writes the same file.
OtherDownload ==
  /\ world.others /\ world.other = Nothing
  /\ world' = [world EXCEPT !.other = models]
  /\ UNCHANGED <<held, holder, turn, asked, cacheFile, thread, models>>

OtherWrite ==
  /\ world.other # Nothing /\ world.writable
  /\ cacheFile' = [there |-> TRUE, version |-> world.other, age |-> 0]
  /\ world' = [world EXCEPT !.other = Nothing]
  /\ UNCHANGED <<held, holder, turn, asked, thread, models>>

Aged(n) == IF n < Ttl THEN n + 1 ELSE Ttl

Loading == {"downloading", "fetched", "refused", "loaded"}

\* FETCH_TIMEOUT: a download is over by the next tick.
CatalogTick ==
  /\ \A t \in Threads : In(t, Loading) => thread[t].since = 0
  /\ held' = [held EXCEPT !.age = Aged(@)]
  /\ asked' = Aged(asked)
  /\ cacheFile' = [cacheFile EXCEPT !.age = Aged(@)]
  /\ thread' = [t \in Threads |->
       IF In(t, Loading) THEN [thread[t] EXCEPT !.since = Aged(@)] ELSE thread[t]]
  /\ UNCHANGED <<holder, turn, models, world>>

CatalogStep(t) ==
  \/ Serve(t) \/ LoadInline(t) \/ TakeTurn(t) \/ Load(t)
  \/ Download(t) \/ WriteCache(t) \/ Store(t) \/ FallBack(t)

CatalogNext ==
  \/ \E t \in Threads : CatalogStep(t) \/ \E op \in {"catalog", "listing"} : AskCatalog(t, op)
  \/ Publish \/ OtherDownload \/ OtherWrite \/ CatalogTick

CatalogSpec == CatalogInit /\ [][CatalogNext]_catalogVars

(***************************************************************************)
(* Properties                                                              *)
(***************************************************************************)

CatalogTypeOK ==
  /\ held \in [ok : BOOLEAN, version : Versions, age : Ages, life : {0, Retry, Ttl}]
  /\ {holder, turn} \subseteq Threads \cup {Nothing}
  /\ asked \in Ages /\ models \in Versions
  /\ cacheFile \in [there : BOOLEAN, version : Versions, age : Ages]
  /\ thread \in [Threads -> ThreadStates]

\* The process never downloads the catalog twice at once, although a first
\* load holds CATALOG and no turn, and the others a turn and no CATALOG
\* (providers.rs:924, "Serializes catalog downloads").
OneDownload == Cardinality({t \in Threads : In(t, {"downloading"})}) <= 1

\* Once there is a catalog there is one for good, whatever fails, where the
\* file can be written; and never an older one, unless another process put
\* an older one there (providers.rs:1022, "a request never waits on
\* models.dev once there is anything to serve").
CatalogKept ==
  [][world.writable /\ held.ok =>
       held'.ok /\ (world.others \/ held'.version >= held.version)]_catalogVars

\* Callers that wait for one another's locks, some holding one while they
\* ask for the other, never all wait.
CallsAdvance ==
  (\E t \in Threads : ~In(t, {"idle"})) => ENABLED (\E t \in Threads : CatalogStep(t))
=============================================================================
