-------------------------- MODULE DownloadProofs ---------------------------
(***************************************************************************)
(* What is fetched over the network, and who waits for it: the provider    *)
(* catalog and its two locks, the layers that pulls share, and the start of*)
(* the daemon that fetches its backends before it binds.                   *)
(***************************************************************************)
EXTENDS Catalog, LayerFetch, Startup, FiniteSetTheorems, TLAPS

(***************************************************************************)
(* The two locks of the provider catalog, taken separately, exclude        *)
(* downloads together: a load under CATALOG runs only while there is no    *)
(* catalog, one under the gate's turn only while there is.                 *)
(***************************************************************************)

HeldRecords == [ok : BOOLEAN, version : Nat, age : Nat, life : Nat]

Files == [there : BOOLEAN, version : Nat, age : Nat]

Worlds == [writable : BOOLEAN, others : BOOLEAN, other : Nat \cup {Nothing}]

LooseThreads ==
  [pc : {"idle", "calling", "queued", "again", "loading", "downloading", "fetched", "refused", "loaded"},
   op : {"none", "catalog", "listing"}, since : Nat, version : Nat, late : BOOLEAN]

\* The types that the locks depend on; bounds are TLC's concern.
Types ==
  /\ held \in HeldRecords
  /\ holder \in Threads \cup {Nothing} /\ turn \in Threads \cup {Nothing}
  /\ cacheFile \in Files
  /\ thread \in [Threads -> LooseThreads]
  /\ models \in Nat
  /\ asked \in Nat
  /\ world \in Worlds

Busy == {"loading"} \cup Loading

\* Who loads has CATALOG, or the turn while there is a catalog, as the
\* refresher or as a listing.
LoadersLocked == \A t \in Threads :
  In(t, Busy) =>
    holder = t \/ (turn = t /\ held.ok /\ (t = Refresher \/ thread[t].op = "listing"))

\* CATALOG is kept across a step by a load, of which there was nothing yet.
HolderLoads == holder # Nothing => ~held.ok /\ In(holder, Busy) /\ holder # Refresher

\* The refresher works on a catalog there is.
RefresherRefreshes ==
  /\ ~In(Refresher, {"idle"}) => held.ok
  /\ In(Refresher, {"idle", "queued"} \cup Busy)

\* A listing that looks again has the turn.
AgainInTurn == \A t \in Threads : In(t, {"again"}) => turn = t

LockInv == Types /\ LoadersLocked /\ HolderLoads /\ RefresherRefreshes /\ AgainInTurn

\* At first nobody loads and nobody has a lock.
LEMMA InitLocks == CatalogInit => LockInv
<1> SUFFICES ASSUME CatalogInit PROVE LockInv
  OBVIOUS
<1>1. Resting \in LooseThreads
  BY DEF Resting, Begin, LooseThreads
<1>2. Ttl \in Nat
  BY CatalogAssumption
<1>3. Types
  BY <1>1, <1>2, CatalogAssumption
     DEF CatalogInit, Types, NoHeld, HeldRecords, Files, Worlds
<1>4. \A t \in Threads : thread[t].pc = "idle"
  BY DEF CatalogInit, Resting, Begin
<1>5. RefresherRefreshes
  BY <1>4 DEF RefresherRefreshes, In, Threads
<1> QED
  BY <1>3, <1>4, <1>5
     DEF LockInv, LoadersLocked, HolderLoads, AgainInTurn, In, Busy, Loading, CatalogInit

\* What catalog's answer does to the caller: it is done, waits for its turn,
\* or downloads in the turn it has, for which it was given a catalog.
LEMMA AnswerKeepsTurns ==
  ASSUME Types, NEW t \in Threads, NEW c \in HeldRecords,
         NEW others \in [Threads -> LooseThreads], Answered(t, c, others)
  PROVE  /\ thread' \in [Threads -> LooseThreads]
         /\ \A u \in Threads : u # t => thread'[u] = others[u]
         /\ thread'[t].pc \in {"idle", "queued", "downloading"}
         /\ thread'[t].pc = "downloading" => turn = t /\ c.ok /\ thread'[t].op = "listing"
         /\ turn' = turn \/ (turn = t /\ turn' = Nothing /\ thread'[t].pc = "idle")
<1>1. \A pc \in {"idle", "queued", "downloading"}, op \in {"none", "listing"} :
        Begin(pc, op) \in LooseThreads /\ Begin(pc, op).pc = pc /\ Begin(pc, op).op = op
  BY DEF Begin, LooseThreads
<1> QED
  BY <1>1 DEF Answered, Resting, HeldRecords

\* A load that holds CATALOG starts without a catalog.
LEMMA LoadInlineKeeps ==
  ASSUME LockInv, NEW t \in Threads, LoadInline(t)
  PROVE  LockInv'
<1> USE DEF LockInv
<1>1. Types'
  BY CatalogAssumption DEF Types, LoadInline, HeldRecords, Files, LooseThreads, In, Set
<1>2. LoadersLocked' /\ HolderLoads' /\ RefresherRefreshes' /\ AgainInTurn'
  BY CatalogAssumption
     DEF Types, LooseThreads, HeldRecords, Threads, LoadInline, LoadersLocked, HolderLoads,
         RefresherRefreshes, AgainInTurn, In, Busy, Loading, Set
<1> QED
  BY <1>1, <1>2

\* The turn is taken when it is free.
LEMMA TakeTurnKeeps ==
  ASSUME LockInv, NEW t \in Threads, TakeTurn(t)
  PROVE  LockInv'
<1> USE DEF LockInv
<1>1. Types'
  <2>1. Resting \in LooseThreads
    BY DEF Resting, Begin, LooseThreads
  <2>2. \A pc \in {"loading", "again"} : [thread[t] EXCEPT !.pc = pc] \in LooseThreads
    BY DEF Types, LooseThreads
  <2>3. thread' \in [Threads -> LooseThreads]
    BY <2>1, <2>2 DEF Types, TakeTurn, Set
  <2> QED
    BY <2>3 DEF Types, TakeTurn
<1>2. LoadersLocked' /\ HolderLoads' /\ RefresherRefreshes' /\ AgainInTurn'
  BY CatalogAssumption
     DEF Types, LooseThreads, HeldRecords, Threads, TakeTurn, LoadersLocked, HolderLoads,
         RefresherRefreshes, AgainInTurn, In, Busy, Loading, Set, Resting, Begin
<1> QED
  BY <1>1, <1>2

\* A load that reads the file goes on under the same lock.
LEMMA LoadKeeps ==
  ASSUME LockInv, NEW t \in Threads, Load(t)
  PROVE  LockInv'
<1> USE DEF LockInv
<1>1. Types'
  <2>1. /\ cacheFile.version \in Nat
        /\ thread[t] \in LooseThreads
    BY DEF Types, Files
  <2>2. /\ [thread[t] EXCEPT !.pc = "loaded", !.version = cacheFile.version, !.since = 0] \in LooseThreads
        /\ [thread[t] EXCEPT !.pc = "downloading", !.since = 0] \in LooseThreads
    BY <2>1 DEF LooseThreads
  <2>3. thread' \in [Threads -> LooseThreads]
    BY <2>2 DEF Types, Load
  <2> QED
    BY <2>3 DEF Types, Load
<1>2. LoadersLocked' /\ HolderLoads' /\ RefresherRefreshes' /\ AgainInTurn'
  BY CatalogAssumption
     DEF Types, LooseThreads, HeldRecords, Threads, Load, LoadersLocked, HolderLoads,
         RefresherRefreshes, AgainInTurn, In, Busy, Loading
<1> QED
  BY <1>1, <1>2

\* So does one that writes it.
LEMMA WriteCacheKeeps ==
  ASSUME LockInv, NEW t \in Threads, WriteCache(t)
  PROVE  LockInv'
<1> USE DEF LockInv
<1>1. Types'
  BY CatalogAssumption DEF Types, WriteCache, HeldRecords, Files, LooseThreads, In, Set
<1>2. LoadersLocked' /\ HolderLoads' /\ RefresherRefreshes' /\ AgainInTurn'
  BY CatalogAssumption
     DEF Types, LooseThreads, HeldRecords, Threads, WriteCache, LoadersLocked, HolderLoads,
         RefresherRefreshes, AgainInTurn, In, Busy, Loading, Set
<1> QED
  BY <1>1, <1>2

\* A download that ends, and a thread that queues for the turn, keep locks.
LEMMA DownloadKeeps ==
  ASSUME LockInv, NEW t \in Threads, Download(t)
  PROVE  LockInv'
<1> USE DEF LockInv
<1> PICK pc \in {"fetched", "refused"} :
      /\ In(t, {"downloading"})
      /\ asked' = 0
      /\ thread' = [u \in Threads |->
           IF u = t THEN [thread[t] EXCEPT !.pc = pc, !.version = IF pc = "fetched" THEN models ELSE 0]
           ELSE [thread[u] EXCEPT !.late = thread[u].pc = "queued"]]
      /\ UNCHANGED <<held, holder, turn, cacheFile, models, world>>
  BY DEF Download
<1>1. /\ thread' \in [Threads -> LooseThreads]
      /\ thread'[t].pc = pc
      /\ thread'[t].op = thread[t].op
      /\ \A u \in Threads : u # t => thread'[u].pc = thread[u].pc /\ thread'[u].op = thread[u].op
  <2>1. [thread[t] EXCEPT !.pc = pc, !.version = IF pc = "fetched" THEN models ELSE 0] \in LooseThreads
    BY DEF Types, LooseThreads
  <2>2. \A u \in Threads : [thread[u] EXCEPT !.late = thread[u].pc = "queued"] \in LooseThreads
    BY DEF Types, LooseThreads
  <2>3. thread' \in [Threads -> LooseThreads]
    <3> HIDE DEF LockInv
    <3> QED
      BY <2>1, <2>2
  <2>4. /\ thread'[t].pc = pc
        /\ thread'[t].op = thread[t].op
    <3>1. /\ thread[t] \in LooseThreads
          /\ thread'[t] = [thread[t] EXCEPT !.pc = pc,
                                           !.version = IF pc = "fetched" THEN models ELSE 0]
      BY Zenon DEF Types
    <3> QED
      BY <3>1 DEF LooseThreads
  <2>5. ASSUME NEW u \in Threads, u # t
        PROVE  thread'[u].pc = thread[u].pc /\ thread'[u].op = thread[u].op
    <3> DEFINE waits == thread[u].pc = "queued"
    <3>1. thread[u] \in LooseThreads /\ thread'[u] = [thread[u] EXCEPT !.late = waits]
      BY <2>5, Zenon DEF Types
    <3> HIDE DEF waits
    <3> QED
      BY <3>1 DEF LooseThreads
  <2> QED
    BY <2>3, <2>4, <2>5
<1>2. Types'
  BY <1>1 DEF Types
<1>3. LoadersLocked' /\ HolderLoads' /\ RefresherRefreshes' /\ AgainInTurn'
  BY <1>1, CatalogAssumption
     DEF Types, Threads, LoadersLocked, HolderLoads, RefresherRefreshes, AgainInTurn, In, Busy,
        Loading
<1> QED
  BY <1>2, <1>3

\* catalog's answer frees locks or leaves them, to a caller with the turn.
LEMMA ServeKeeps ==
  ASSUME LockInv, NEW t \in Threads, Serve(t)
  PROVE  LockInv'
<1> USE DEF LockInv
<1> DEFINE others == IF Current \/ ~In(Refresher, {"idle"}) THEN thread
                     ELSE [thread EXCEPT ![Refresher] = Begin("queued", "none")]
<1>1. /\ holder = Nothing /\ In(t, {"calling", "again"})
      /\ Answered(t, held, others)
      /\ UNCHANGED <<held, holder, asked, cacheFile, models, world>>
      /\ Current \/ held.ok
  BY DEF Serve
<1>2. t # Refresher
  BY <1>1 DEF RefresherRefreshes, In, Busy, Loading
<1>3. others \in [Threads -> LooseThreads]
  BY DEF Types, LooseThreads, Begin, Threads
<1>4. /\ \A u \in Threads : u # Refresher => others[u] = thread[u]
      /\ others[Refresher] = thread[Refresher] \/ (others[Refresher].pc = "queued" /\ held.ok)
  BY <1>1 DEF Types, Begin, Threads
<1>5. /\ thread' \in [Threads -> LooseThreads]
      /\ \A u \in Threads : u # t => thread'[u] = others[u]
      /\ thread'[t].pc \in {"idle", "queued", "downloading"}
      /\ thread'[t].pc = "downloading" => turn = t /\ held.ok /\ thread'[t].op = "listing"
      /\ turn' = turn \/ (turn = t /\ turn' = Nothing /\ thread'[t].pc = "idle")
  <2> HIDE DEF others
  <2> held \in HeldRecords
    BY DEF Types
  <2> QED
    BY <1>1, <1>3, AnswerKeepsTurns
<1> HIDE DEF others
<1>6. Types'
  BY <1>1, <1>5 DEF Types
<1>7. LoadersLocked'
  BY <1>1, <1>4, <1>5, CatalogAssumption DEF LoadersLocked, Types, In, Busy, Loading, Threads
<1>8. HolderLoads' /\ AgainInTurn'
  BY <1>1, <1>4, <1>5, CatalogAssumption DEF HolderLoads, AgainInTurn, Types, In, Threads
<1>9. RefresherRefreshes'
  BY <1>1, <1>2, <1>4, <1>5 DEF RefresherRefreshes, In, Busy, Loading, Threads
<1> QED
  BY <1>6, <1>7, <1>8, <1>9

\* Nobody else loads while t does and no other has CATALOG.
LEMMA OthersIdle ==
  ASSUME LockInv, NEW t \in Threads, In(t, Busy), holder \in {Nothing, t}
  PROVE  /\ \A u \in Threads : u # t => ~In(u, Busy)
         /\ holder = t => ~held.ok /\ thread[Refresher].pc = "idle" /\ t # Refresher
         /\ holder # t => turn = t /\ held.ok /\ (t = Refresher \/ thread[t].op = "listing")
  BY CatalogAssumption
     DEF LockInv, Types, LoadersLocked, HolderLoads, RefresherRefreshes, In, Threads

\* A load ends: it frees CATALOG, and the turn unless its listing needs it.
\* A catalog is lost only by the refresher, which is then idle.
LEMMA BackKeeps ==
  ASSUME LockInv, NEW t \in Threads, In(t, Busy), holder \in {Nothing, t},
         held' \in HeldRecords, cacheFile' \in Files, asked' \in Nat, models' \in Nat, world' \in Worlds,
         Back(t, held'),
         holder # t /\ t # Refresher => held'.ok
  PROVE  LockInv'
<1> USE DEF LockInv
<1>0. holder' = Nothing
  BY DEF Back
<1>1. /\ thread' \in [Threads -> LooseThreads]
      /\ \A u \in Threads : u # t => thread'[u] = thread[u]
      /\ thread'[t].pc \in {"idle", "queued", "downloading"}
      /\ thread'[t].pc = "downloading" => turn = t /\ held'.ok /\ thread'[t].op = "listing"
      /\ turn' = turn \/ (turn = t /\ turn' = Nothing /\ thread'[t].pc = "idle")
      /\ holder # t => thread'[t].pc = "idle"
  <2>1. CASE holder = t
    <3>1. PICK c \in HeldRecords : c = held'
      OBVIOUS
    <3>2. Answered(t, c, thread)
      BY <2>1, <3>1 DEF Back
    <3> QED
      BY <2>1, <3>1, <3>2, AnswerKeepsTurns DEF Types
  <2>2. CASE holder # t
    <3>1. Resting \in LooseThreads /\ Resting.pc = "idle"
      BY DEF Resting, Begin, LooseThreads
    <3> QED
      BY <2>2, <3>1 DEF Back, Types
  <2> QED
    BY <2>1, <2>2
<1>2. Types'
  BY <1>0, <1>1 DEF Types
<1>3. LoadersLocked'
  <2> SUFFICES ASSUME NEW u \in Threads, thread'[u].pc \in Busy
               PROVE  turn' = u /\ held'.ok /\ (u = Refresher \/ thread'[u].op = "listing")
    BY DEF LoadersLocked, In, Busy, Loading
  <2>1. u = t
    BY <1>1, OthersIdle DEF In
  <2>2. thread'[t].pc = "downloading"
    BY <1>1, <2>1 DEF Busy, Loading
  <2> QED
    BY <1>1, <2>1, <2>2
<1>4. HolderLoads'
  BY <1>0 DEF HolderLoads
<1>5. RefresherRefreshes'
  <2>1. CASE t = Refresher
    BY <2>1, <1>1, OthersIdle DEF RefresherRefreshes, In
  <2>2. CASE t # Refresher /\ holder = t
    BY <2>2, <1>1, OthersIdle DEF RefresherRefreshes, In, Threads
  <2>3. CASE t # Refresher /\ holder # t
    BY <2>3, <1>1 DEF RefresherRefreshes, In, Threads
  <2> QED
    BY <2>1, <2>2, <2>3
<1>6. AgainInTurn'
  BY <1>1 DEF AgainInTurn, In
<1> QED
  BY <1>2, <1>3, <1>4, <1>5, <1>6

\* A catalog that was loaded is stored.
LEMMA StoreKeeps ==
  ASSUME LockInv, NEW t \in Threads, Store(t)
  PROVE  LockInv'
<1>1. In(t, Busy) /\ holder \in {Nothing, t}
  BY DEF Store, In, Busy, Loading
<1>2. /\ held' \in HeldRecords /\ held'.ok
      /\ cacheFile' \in Files /\ asked' \in Nat /\ models' \in Nat /\ world' \in Worlds
      /\ Back(t, held')
  BY CatalogAssumption DEF Store, LockInv, Types, HeldRecords, LooseThreads
<1> QED
  BY <1>1, <1>2, BackKeeps

\* A failure is kept for a while, unless it was a listing's.
LEMMA FallBackKeeps ==
  ASSUME LockInv, NEW t \in Threads, FallBack(t)
  PROVE  LockInv'
<1>1. In(t, Busy) /\ holder \in {Nothing, t}
  BY DEF FallBack, In, Busy, Loading
<1>2. /\ held' \in HeldRecords
      /\ cacheFile' \in Files /\ asked' \in Nat /\ models' \in Nat /\ world' \in Worlds
      /\ Back(t, held')
  BY CatalogAssumption DEF FallBack, LockInv, Types, HeldRecords, LooseThreads, Files
<1>3. holder # t /\ t # Refresher => held'.ok
  BY <1>1, OthersIdle DEF FallBack
<1> QED
  BY <1>1, <1>2, <1>3, BackKeeps

\* A caller arrives.
LEMMA AskCatalogKeeps ==
  ASSUME LockInv, NEW t \in Threads, NEW op \in {"catalog", "listing"}, AskCatalog(t, op)
  PROVE  LockInv'
<1> USE DEF LockInv
<1>1. Begin("calling", op) \in LooseThreads /\ Begin("calling", op).pc = "calling"
  BY DEF Begin, LooseThreads
<1>2. Types'
  BY <1>1 DEF Types, AskCatalog
<1>3. LoadersLocked' /\ HolderLoads' /\ RefresherRefreshes' /\ AgainInTurn'
  BY <1>1
     DEF Types, AskCatalog, LoadersLocked, HolderLoads, RefresherRefreshes, AgainInTurn, In,
         Busy, Loading, Threads
<1> QED
  BY <1>2, <1>3

\* The world outside and the clock take no lock.
LEMMA WorldKeeps ==
  ASSUME LockInv, Publish \/ OtherDownload \/ OtherWrite \/ CatalogTick \/ UNCHANGED catalogVars
  PROVE  LockInv'
<1> USE DEF LockInv
<1>1. CASE Publish
  BY <1>1 DEF Publish, Types, LoadersLocked, HolderLoads, RefresherRefreshes, AgainInTurn, In
<1>2. CASE OtherDownload
  <2>1. world' \in Worlds
    BY <1>2 DEF OtherDownload, Types, Worlds
  <2> QED
    BY <1>2, <2>1
       DEF OtherDownload, Types, LoadersLocked, HolderLoads, RefresherRefreshes, AgainInTurn, In
<1>3. CASE OtherWrite
  <2>1. world' \in Worlds /\ cacheFile' \in Files
    BY <1>3 DEF OtherWrite, Types, Worlds, Files
  <2> QED
    BY <1>3, <2>1
       DEF OtherWrite, Types, LoadersLocked, HolderLoads, RefresherRefreshes, AgainInTurn, In
<1>4. CASE CatalogTick
  <2>1. \A n \in Nat : Aged(n) \in Nat
    BY CatalogAssumption DEF Aged
  <2>2. held' \in HeldRecords /\ held'.ok = held.ok
    BY <1>4, <2>1 DEF CatalogTick, Types, HeldRecords
  <2>3. asked' \in Nat /\ cacheFile' \in Files
    BY <1>4, <2>1 DEF CatalogTick, Types, Files
  <2>4. /\ thread' \in [Threads -> LooseThreads]
        /\ \A t \in Threads : thread'[t].pc = thread[t].pc /\ thread'[t].op = thread[t].op
    <3>1. \A t \in Threads : /\ [thread[t] EXCEPT !.since = Aged(@)] \in LooseThreads
                             /\ [thread[t] EXCEPT !.since = Aged(@)].pc = thread[t].pc
                             /\ [thread[t] EXCEPT !.since = Aged(@)].op = thread[t].op
      BY <2>1 DEF Types, LooseThreads
    <3> QED
      BY <1>4, <3>1 DEF CatalogTick, Types
  <2>5. UNCHANGED <<holder, turn, models, world>>
    BY <1>4 DEF CatalogTick
  <2>6. Types'
    BY <2>2, <2>3, <2>4, <2>5 DEF Types
  <2>7. LoadersLocked' /\ HolderLoads' /\ RefresherRefreshes' /\ AgainInTurn'
    BY <2>2, <2>4, <2>5
       DEF Types, LoadersLocked, HolderLoads, RefresherRefreshes, AgainInTurn, In, Threads
  <2> QED
    BY <2>6, <2>7
<1>5. CASE UNCHANGED catalogVars
  BY <1>5 DEF catalogVars, Types, LoadersLocked, HolderLoads, RefresherRefreshes, AgainInTurn, In
<1> QED
  BY <1>1, <1>2, <1>3, <1>4, <1>5

\* Every step keeps the locks.
LEMMA StepKeepsLocks == LockInv /\ [CatalogNext]_catalogVars => LockInv'
<1> SUFFICES ASSUME LockInv, [CatalogNext]_catalogVars PROVE LockInv'
  OBVIOUS
<1>1. CASE \E t \in Threads : CatalogStep(t)
  <2>1. PICK t \in Threads : CatalogStep(t)
    BY <1>1
  <2> QED
    BY <2>1, ServeKeeps, LoadInlineKeeps, TakeTurnKeeps, LoadKeeps, DownloadKeeps, WriteCacheKeeps,
       StoreKeeps, FallBackKeeps DEF CatalogStep
<1>2. CASE \E t \in Threads : \E op \in {"catalog", "listing"} : AskCatalog(t, op)
  BY <1>2, AskCatalogKeeps
<1>3. CASE Publish \/ OtherDownload \/ OtherWrite \/ CatalogTick \/ UNCHANGED catalogVars
  BY <1>3, WorldKeeps
<1> QED
  BY <1>1, <1>2, <1>3 DEF CatalogNext

\* Two threads that download have the same lock.
LEMMA LocksExcludeDownloads == LockInv => OneDownload
<1> SUFFICES ASSUME LockInv PROVE OneDownload
  OBVIOUS
<1> DEFINE D == {t \in Threads : In(t, {"downloading"})}
<1>1. ASSUME NEW t \in D, NEW u \in D PROVE t = u
  BY <1>1, CatalogAssumption
     DEF LockInv, Types, LoadersLocked, HolderLoads, In, Busy, Loading, Threads
<1>2. CASE D = {}
  BY <1>2, FS_EmptySet DEF OneDownload
<1>3. CASE D # {}
  <2>1. PICK t \in D : TRUE
    BY <1>3
  <2>2. D = {t}
    BY <1>1, <2>1
  <2> QED
    BY <2>2, FS_Singleton DEF OneDownload
<1> QED
  BY <1>2, <1>3

\* The process never downloads the provider catalog twice at once, for any
\* callers, times and bounds, whatever fails and whoever else writes the file.
THEOREM DownloadsExclude == CatalogSpec => []OneDownload
<1>1. CatalogInit => LockInv
  BY InitLocks
<1>2. LockInv /\ [CatalogNext]_catalogVars => LockInv'
  BY StepKeepsLocks
<1>3. LockInv => OneDownload
  BY LocksExcludeDownloads
<1> QED
  BY <1>1, <1>2, <1>3, PTL DEF CatalogSpec
\* Where the file can be written it is there once there is a catalog, or a
\* load that will be one.
FileKept == world.writable =>
  /\ held.ok => cacheFile.there
  /\ \A t \in Threads : In(t, {"loaded"}) => cacheFile.there

\* Where nobody else writes it, it is never older than the catalog, nor newer
\* than what is being written to it.
FileNewest == world.writable /\ ~world.others =>
  /\ cacheFile.version <= models
  /\ held.ok => held.version <= cacheFile.version
  /\ \A t \in Threads :
       /\ In(t, {"fetched"}) => cacheFile.version <= thread[t].version /\ thread[t].version <= models
       /\ In(t, {"loaded"}) => thread[t].version = cacheFile.version

OthersWrite == world.other # Nothing => world.others

KeptInv == LockInv /\ FileKept /\ FileNewest /\ OthersWrite

LEMMA InitKept == CatalogInit => KeptInv
<1> SUFFICES ASSUME CatalogInit PROVE KeptInv
  OBVIOUS
<1>1. \A t \in Threads : thread[t].pc = "idle"
  BY DEF CatalogInit, Resting, Begin
<1>2. /\ ~held.ok /\ cacheFile.version = 0 /\ models = 0 /\ world.other = Nothing
  BY DEF CatalogInit, NoHeld
<1> QED
  BY <1>1, <1>2, InitLocks DEF KeptInv, FileKept, FileNewest, OthersWrite, In

\* Only one thread loads: the locks are one.
LEMMA OneLoads ==
  ASSUME LockInv, NEW t \in Threads, NEW u \in Threads, In(t, Busy), In(u, Busy)
  PROVE  t = u
BY CatalogAssumption DEF LockInv, Types, LoadersLocked, HolderLoads, Threads

\* A step that neither ends a download nor writes anything, but may move a
\* thread on, or its clock.
LEMMA FilesUntouched ==
  ASSUME KeptInv, UNCHANGED <<held, cacheFile, models, world>>,
         \A t \in Threads : thread'[t].pc \in {"fetched", "loaded"} =>
           thread'[t].pc = thread[t].pc /\ thread'[t].version = thread[t].version
  PROVE  FileKept' /\ FileNewest' /\ OthersWrite'
BY DEF KeptInv, FileKept, FileNewest, OthersWrite, In

\* What an answer makes of a thread is no load that has come to its end.
LEMMA AnswersLoadNothing ==
  ASSUME LockInv, NEW t \in Threads, NEW c \in HeldRecords,
         NEW others \in [Threads -> LooseThreads], Answered(t, c, others)
  PROVE  /\ thread'[t].pc \in {"idle", "queued", "downloading"}
         /\ \A u \in Threads : u # t => thread'[u] = others[u]
BY AnswerKeepsTurns DEF LockInv

LEMMA IdleStepsKept ==
  ASSUME KeptInv, NEW t \in Threads,
         \/ LoadInline(t) \/ TakeTurn(t) \/ Serve(t)
         \/ \E op \in {"catalog", "listing"} : AskCatalog(t, op)
  PROVE  FileKept' /\ FileNewest' /\ OthersWrite'
<1> USE DEF KeptInv
<1>1. thread \in [Threads -> LooseThreads] /\ held \in HeldRecords
  BY DEF LockInv, Types
<1>2. \A pc \in {"idle", "calling", "queued"}, op \in {"none", "catalog", "listing"} :
        Begin(pc, op).pc = pc /\ Begin(pc, op) \in LooseThreads
  BY DEF Begin, LooseThreads
<1>3. CASE LoadInline(t) \/ TakeTurn(t)
  <2>1. PICK pc \in {"loading", "again", "idle"} :
          /\ thread' = [thread EXCEPT ![t].pc = pc]
               \/ (pc = "idle" /\ thread' = [thread EXCEPT ![t] = Resting])
    BY <1>3 DEF LoadInline, TakeTurn, Set
  <2>2. UNCHANGED <<held, cacheFile, models, world>>
    BY <1>3 DEF LoadInline, TakeTurn
  <2>3. \A u \in Threads : thread'[u] = thread[u] \/ thread'[u].pc \notin {"fetched", "loaded"}
    BY <2>1, <1>1, <1>2 DEF Resting, LooseThreads
  <2> QED
    BY <2>2, <2>3, FilesUntouched
<1>4. CASE \E op \in {"catalog", "listing"} : AskCatalog(t, op)
  <2>1. PICK op \in {"catalog", "listing"} : AskCatalog(t, op)
    BY <1>4
  <2>2. thread' = [thread EXCEPT ![t] = Begin("calling", op)]
    BY <2>1 DEF AskCatalog
  <2>3. UNCHANGED <<held, cacheFile, models, world>>
    BY <2>1 DEF AskCatalog
  <2> HIDE <1>4
  <2> QED
    BY <2>2, <2>3, <1>1, <1>2, FilesUntouched
<1>5. CASE Serve(t)
  <2> DEFINE others == IF Current \/ ~In(Refresher, {"idle"}) THEN thread
                       ELSE [thread EXCEPT ![Refresher] = Begin("queued", "none")]
  <2>1. Answered(t, held, others)
    BY <1>5 DEF Serve
  <2>2. others \in [Threads -> LooseThreads]
    BY <1>1, <1>2 DEF Threads
  <2>3. \A u \in Threads : others[u] = thread[u] \/ others[u].pc = "queued"
    BY <1>1, <1>2
  <2> HIDE DEF others
  <2>4. PICK c \in HeldRecords, o \in [Threads -> LooseThreads] : c = held /\ o = others
    BY <1>1, <2>2
  <2>5. /\ thread'[t].pc \in {"idle", "queued", "downloading"}
        /\ \A u \in Threads : u # t => thread'[u] = others[u]
    BY <2>1, <2>4, AnswersLoadNothing
  <2>6. UNCHANGED <<held, cacheFile, models, world>>
    BY <1>5 DEF Serve
  <2>7. \A u \in Threads : thread'[u] = thread[u] \/ thread'[u].pc \notin {"fetched", "loaded"}
    BY <2>3, <2>5
  <2> QED
    BY <2>6, <2>7, FilesUntouched
<1> QED
  BY <1>3, <1>4, <1>5

\* The file is read, or models.dev.
LEMMA LoadKept ==
  ASSUME KeptInv, NEW t \in Threads, Load(t) \/ Download(t)
  PROVE  FileKept' /\ FileNewest' /\ OthersWrite'
<1> USE DEF KeptInv
<1>1. thread \in [Threads -> LooseThreads] /\ cacheFile \in Files /\ models \in Nat
  BY DEF LockInv, Types
<1>2. UNCHANGED <<held, cacheFile, models, world>>
  BY DEF Load, Download
<1>3. \A u \in Threads : u # t /\ thread'[u].pc \in {"fetched", "loaded"} =>
        thread'[u].pc = thread[u].pc /\ thread'[u].version = thread[u].version
  BY <1>1 DEF Load, Download, LooseThreads
<1>4. /\ thread'[t].pc = "loaded" => cacheFile.there /\ thread'[t].version = cacheFile.version
      /\ thread'[t].pc = "fetched" => thread'[t].version = models
  <2>1. CASE Load(t) /\ cacheFile.there /\ cacheFile.age < Ttl
    <3>1. thread'[t] = [thread[t] EXCEPT !.pc = "loaded", !.version = cacheFile.version, !.since = 0]
      BY <1>1, <2>1 DEF Load
    <3> QED
      BY <1>1, <2>1, <3>1 DEF LooseThreads
  <2>2. CASE Load(t) /\ ~(cacheFile.there /\ cacheFile.age < Ttl)
    <3>1. thread'[t] = [thread[t] EXCEPT !.pc = "downloading", !.since = 0]
      BY <1>1, <2>2 DEF Load
    <3> QED
      BY <1>1, <3>1 DEF LooseThreads
  <2>3. CASE Download(t)
    <3>1. PICK pc \in {"fetched", "refused"} :
            thread'[t] = [thread[t] EXCEPT !.pc = pc, !.version = IF pc = "fetched" THEN models ELSE 0]
      BY <2>3 DEF Download
    <3> QED
      BY <1>1, <3>1 DEF LooseThreads
  <2> QED
    BY <2>1, <2>2, <2>3
<1>6. FileKept'
  BY <1>2, <1>3, <1>4 DEF FileKept, In
<1>7. FileNewest'
  BY <1>1, <1>2, <1>3, <1>4 DEF FileNewest, In, Files
<1> QED
  BY <1>2, <1>6, <1>7 DEF OthersWrite

\* What was fetched is written while nobody else loads.
LEMMA WriteKept ==
  ASSUME KeptInv, NEW t \in Threads, WriteCache(t)
  PROVE  FileKept' /\ FileNewest' /\ OthersWrite'
<1> USE DEF KeptInv
<1>1. thread \in [Threads -> LooseThreads] /\ cacheFile \in Files /\ models \in Nat
      /\ held \in HeldRecords
  BY DEF LockInv, Types
<1>2. UNCHANGED <<held, models, world>> /\ thread[t].pc = "fetched"
  BY DEF WriteCache, In
<1>3. \A u \in Threads :
        /\ thread'[u].version = thread[u].version
        /\ thread'[u].pc = IF u = t THEN "loaded" ELSE thread[u].pc
  BY <1>1 DEF WriteCache, Set, LooseThreads
<1>4. ASSUME NEW u \in Threads, u # t
      PROVE  thread[u].pc \notin {"fetched", "loaded"}
  BY <1>2, <1>4, OneLoads DEF In, Busy, Loading
<1>5. world.writable => cacheFile'.there /\ cacheFile'.version = thread[t].version
  BY DEF WriteCache
<1>6. FileKept'
  BY <1>2, <1>5 DEF FileKept
<1>7. FileNewest'
  <2> SUFFICES ASSUME world.writable, ~world.others PROVE FileNewest'
    BY <1>2 DEF FileNewest
  <2>1. cacheFile.version <= thread[t].version /\ thread[t].version <= models
        /\ (held.ok => held.version <= cacheFile.version)
    BY <1>2 DEF FileNewest, In
  <2>2. held.version \in Nat /\ cacheFile.version \in Nat /\ thread[t].version \in Nat
    BY <1>1 DEF HeldRecords, Files, LooseThreads
  <2> QED
    BY <1>1, <1>2, <1>3, <1>4, <1>5, <2>1, <2>2 DEF FileNewest, In
<1> QED
  BY <1>2, <1>6, <1>7 DEF OthersWrite

\* The end of a load: what is held from then on.
LEMMA StoredKept ==
  ASSUME KeptInv, NEW t \in Threads, Store(t) \/ FallBack(t)
  PROVE  /\ world.writable /\ held.ok =>
              held'.ok /\ (world.others \/ held'.version >= held.version)
         /\ FileKept' /\ FileNewest' /\ OthersWrite'
<1> USE DEF KeptInv
<1>1. /\ thread \in [Threads -> LooseThreads] /\ cacheFile \in Files
      /\ held \in HeldRecords /\ models \in Nat
  BY DEF LockInv, Types
<1>2. UNCHANGED <<cacheFile, models, world>> /\ Back(t, held') /\ holder \in {Nothing, t}
  BY DEF Store, FallBack
<1>3. In(t, Busy)
  BY DEF Store, FallBack, In, Busy, Loading
<1>4. held' \in HeldRecords
  <2>1. /\ thread[t].version \in Nat /\ thread[t].since \in Nat /\ Ttl \in Nat /\ Retry \in Nat
        /\ cacheFile.there \in BOOLEAN /\ cacheFile.version \in Nat
    BY <1>1, CatalogAssumption DEF LooseThreads, Files
  <2>2. CASE Store(t)
    BY <2>1, <2>2 DEF Store, HeldRecords
  <2>3. CASE FallBack(t)
    BY <2>1, <2>3, <1>1 DEF FallBack, HeldRecords
  <2> QED
    BY <2>2, <2>3
<1>5. \A u \in Threads : thread'[u].pc \in {"fetched", "loaded"} => thread'[u] = thread[u]
  <2>1. CASE holder = t
    <3>1. PICK c \in HeldRecords : c = held'
      BY <1>4
    <3>2. Answered(t, c, thread)
      BY <2>1, <3>1, <1>2 DEF Back
    <3> QED
      BY <3>2, <1>1, AnswersLoadNothing
  <2>2. CASE holder # t
    <3>1. Resting.pc = "idle"
      BY DEF Resting, Begin
    <3> QED
      BY <2>2, <3>1, <1>1, <1>2 DEF Back
  <2> QED
    BY <2>1, <2>2
\* While the file can be written, what a load brings is what the file has.
<1>6. world.writable =>
        \/ held' = held
        \/ /\ held'.ok = cacheFile.there
           /\ held.ok => cacheFile.there
           /\ ~world.others => held'.version = cacheFile.version
  <2> SUFFICES ASSUME world.writable, held' # held
               PROVE  /\ held'.ok = cacheFile.there
                      /\ held.ok => cacheFile.there
                      /\ ~world.others => held'.version = cacheFile.version
    OBVIOUS
  <2>1. CASE Store(t)
    <3>1. cacheFile.there /\ (~world.others => thread[t].version = cacheFile.version)
      BY <2>1 DEF Store, FileKept, FileNewest
    <3>2. held'.ok = TRUE /\ held'.version = thread[t].version
      BY <2>1 DEF Store
    <3> QED
      BY <3>1, <3>2
  <2>2. CASE FallBack(t)
    <3>1. held'.ok = cacheFile.there /\ held'.version = cacheFile.version
      BY <2>2 DEF FallBack
    <3>2. held.ok => cacheFile.there
      BY DEF FileKept
    <3> QED
      BY <3>1, <3>2
  <2> QED
    BY <2>1, <2>2
<1>7. world.writable /\ ~world.others /\ held.ok => held.version <= cacheFile.version
  BY DEF FileNewest
<1>8. held.version \in Nat /\ cacheFile.version \in Nat /\ held'.version \in Nat
  BY <1>1, <1>4 DEF HeldRecords, Files
<1>9. FileKept'
  BY <1>2, <1>5, <1>6 DEF FileKept, In
<1>10. FileNewest'
  BY <1>2, <1>5, <1>6, <1>7, <1>8 DEF FileNewest, In
<1> QED
  BY <1>2, <1>6, <1>7, <1>8, <1>9, <1>10 DEF OthersWrite

\* models.dev changes, other processes write the file, and time passes.
LEMMA WorldKept ==
  ASSUME KeptInv, Publish \/ OtherDownload \/ OtherWrite \/ CatalogTick
  PROVE  FileKept' /\ FileNewest' /\ OthersWrite'
<1> USE DEF KeptInv
<1>1. /\ thread \in [Threads -> LooseThreads] /\ cacheFile \in Files
      /\ held \in HeldRecords /\ models \in Nat /\ world \in Worlds
  BY DEF LockInv, Types
<1>2. CASE Publish
  <2>1. UNCHANGED <<held, cacheFile, thread, world>> /\ models' = models + 1
    BY <1>2 DEF Publish
  <2>2. cacheFile.version \in Nat /\ \A t \in Threads : thread[t].version \in Nat
    BY <1>1 DEF Files, LooseThreads
  <2> QED
    BY <2>1, <2>2, <1>1 DEF FileKept, FileNewest, OthersWrite, In
<1>3. CASE OtherDownload
  <2>1. UNCHANGED <<held, cacheFile, thread, models>>
    BY <1>3 DEF OtherDownload
  <2>2. world.others /\ world'.others /\ world'.writable = world.writable
    BY <1>1, <1>3 DEF OtherDownload, Worlds
  <2> QED
    BY <2>1, <2>2 DEF FileKept, FileNewest, OthersWrite, In
<1>4. CASE OtherWrite
  <2>1. UNCHANGED <<held, thread, models>> /\ cacheFile'.there
    BY <1>4 DEF OtherWrite
  <2>2. world.others /\ world'.others /\ world'.writable = world.writable
    BY <1>1, <1>4 DEF OtherWrite, Worlds, OthersWrite
  <2> QED
    BY <2>1, <2>2 DEF FileKept, FileNewest, OthersWrite, In
<1>5. CASE CatalogTick
  <2>1. UNCHANGED <<models, world>>
    BY <1>5 DEF CatalogTick
  <2>2. held'.ok = held.ok /\ held'.version = held.version
    BY <1>1, <1>5 DEF CatalogTick, HeldRecords
  <2>3. cacheFile'.there = cacheFile.there /\ cacheFile'.version = cacheFile.version
    BY <1>1, <1>5 DEF CatalogTick, Files
  <2>4. \A t \in Threads :
          thread'[t].pc = thread[t].pc /\ thread'[t].version = thread[t].version
    BY <1>1, <1>5 DEF CatalogTick, LooseThreads
  <2> QED
    BY <2>1, <2>2, <2>3, <2>4 DEF FileKept, FileNewest, OthersWrite, In
<1> QED
  BY <1>2, <1>3, <1>4, <1>5

KeepsCatalog == world.writable /\ held.ok =>
  held'.ok /\ (world.others \/ held'.version >= held.version)

LEMMA StepKept ==
  ASSUME KeptInv, [CatalogNext]_catalogVars
  PROVE  KeptInv' /\ KeepsCatalog
<1>1. LockInv'
  BY StepKeepsLocks DEF KeptInv
<1>2. ASSUME held' = held PROVE KeepsCatalog
  <2>1. held.version \in Nat
    BY DEF KeptInv, LockInv, Types, HeldRecords
  <2> QED
    BY <2>1, <1>2 DEF KeepsCatalog
<1>3. ASSUME NEW t \in Threads, CatalogStep(t) \/ \E op \in {"catalog", "listing"} : AskCatalog(t, op)
      PROVE  FileKept' /\ FileNewest' /\ OthersWrite' /\ KeepsCatalog
  <2>1. CASE \/ LoadInline(t) \/ TakeTurn(t) \/ Serve(t)
             \/ \E op \in {"catalog", "listing"} : AskCatalog(t, op)
    <3>1. held' = held
      BY <2>1 DEF LoadInline, TakeTurn, Serve, AskCatalog
    <3> QED
      BY <3>1, <2>1, <1>2, IdleStepsKept
  <2>2. CASE Load(t) \/ Download(t)
    BY <2>2, <1>2, LoadKept DEF Load, Download
  <2>3. CASE WriteCache(t)
    BY <2>3, <1>2, WriteKept DEF WriteCache
  <2>4. CASE Store(t) \/ FallBack(t)
    BY <2>4, StoredKept DEF KeepsCatalog
  <2> QED
    BY <1>3, <2>1, <2>2, <2>3, <2>4 DEF CatalogStep
<1>4. CASE Publish \/ OtherDownload \/ OtherWrite \/ CatalogTick
  <2>1. CASE CatalogTick
    <3>1. held'.ok = held.ok /\ held'.version = held.version /\ held.version \in Nat
      BY <2>1 DEF CatalogTick, KeptInv, LockInv, Types, HeldRecords
    <3>2. KeepsCatalog
      BY <3>1 DEF KeepsCatalog
    <3> QED
      BY <2>1, <3>2, <1>1, WorldKept DEF KeptInv
  <2>2. CASE Publish \/ OtherDownload \/ OtherWrite
    <3>1. held' = held
      BY <2>2 DEF Publish, OtherDownload, OtherWrite
    <3> QED
      BY <2>2, <3>1, <1>1, <1>2, WorldKept DEF KeptInv
  <2> QED
    BY <1>4, <2>1, <2>2
<1>5. CASE UNCHANGED catalogVars
  <2>1. UNCHANGED <<held, cacheFile, models, world, thread>>
    BY <1>5 DEF catalogVars
  <2> QED
    BY <2>1, <1>1, <1>2 DEF KeptInv, FileKept, FileNewest, OthersWrite, In
<1> QED
  BY <1>1, <1>3, <1>4, <1>5 DEF CatalogNext, KeptInv

\* Once there is a catalog there is one for good where the file can be
\* written, and never an older one unless another process put an older one
\* there (providers.rs:1022): the file is never behind the catalog, and what
\* a load brings is what the file has.
THEOREM CatalogsKept == CatalogSpec => CatalogKept
<1>1. KeptInv /\ [CatalogNext]_catalogVars => KeptInv'
  BY StepKept
<1>2. KeptInv /\ [CatalogNext]_catalogVars =>
        [world.writable /\ held.ok =>
           held'.ok /\ (world.others \/ held'.version >= held.version)]_catalogVars
  BY StepKept DEF KeepsCatalog
<1> QED
  BY <1>1, <1>2, InitKept, PTL DEF CatalogSpec, CatalogKept

(***************************************************************************)
(* Fetching layers                                                         *)
(***************************************************************************)

Blobs == {"none", "whole"}

TaskPCs == Final \cup {"listed", "running", "fetching", "copying", "joined"}

FilesTyped ==
  file \in [Layouts -> [Layers -> [blob : Blobs, part : [n : Nat, bad : BOOLEAN]]]]

TasksTyped == task \in [Pulls -> [Layers -> [pc : TaskPCs, n : Nat]]]

PullsTyped ==
  pull \in [Pulls -> [pc : {"idle", "listing", "draining", "tagged", "failed"},
                      total : Nat, completed : Nat]]

There == {"cached", "ok", "found"}

\* What a goroutine was told, by its own look or by the fetch it shared.
ToldTrue == \A p \in Pulls, l \in Layers : Is(p, l, There) => Exists(p, l)

\* A pull that waits for its bars has no goroutine left, and one that was
\* tagged had none that failed.
Ended == \A p \in Pulls : \A l \in LayersOf[p] :
  /\ pull[p].pc = "draining" => Is(p, l, Final \ {"none"})
  /\ pull[p].pc = "tagged" => Is(p, l, There)

LayerInv == FilesTyped /\ TasksTyped /\ PullsTyped /\ ToldTrue /\ Ended

LEMMA InitLayer == LayerInit => LayerInv
<1> SUFFICES ASSUME LayerInit PROVE LayerInv
  OBVIOUS
<1>1. NoPart \in [n : Nat, bad : BOOLEAN] /\ "none" \in Blobs
  BY DEF NoPart, Blobs
<1>2. FilesTyped
  BY <1>1 DEF LayerInit, FilesTyped
<1>3. NoTask \in [pc : TaskPCs, n : Nat] /\ NoTask.pc = "none"
  BY DEF NoTask, TaskPCs, Final
<1>4. TasksTyped
  BY <1>3 DEF LayerInit, TasksTyped
<1>5. PullsTyped
  BY DEF LayerInit, PullsTyped, NewPull
<1>6. ToldTrue
  BY <1>3 DEF LayerInit, ToldTrue, Is, There
<1>7. Ended
  BY LayerFetchAssumption DEF LayerInit, Ended, NewPull
<1> QED
  BY <1>2, <1>4, <1>5, <1>6, <1>7 DEF LayerInv

\* A blob that is there stays.
BlobsStay == \A p \in Pulls, l \in Layers : Exists(p, l) => Exists(p, l)'

\* A step of a layer leaves the pulls where they are, and the goroutines
\* that had ended where they were.
EndedStay ==
  /\ \A p \in Pulls : pull'[p].pc = pull[p].pc
  /\ \A p \in Pulls, l \in Layers :
       pull[p].pc # "listing" /\ Is(p, l, Final \ {"none"}) => task'[p][l].pc = task[p][l].pc

LEMMA EndedKept ==
  ASSUME LayerInv, EndedStay
  PROVE  Ended'
BY LayerFetchAssumption
   DEF LayerInv, Ended, EndedStay, Is, There, Final

\* A goroutine that goes on alone: to pc, with n pieces.
LEMMA OneTask ==
  ASSUME LayerInv, NEW p \in Pulls, NEW l \in Layers, NEW t \in [pc : TaskPCs, n : Nat],
         task' = [task EXCEPT ![p][l] = t], BlobsStay,
         t.pc \in There => Exists(p, l)'
  PROVE  TasksTyped' /\ ToldTrue'
<1>1. task \in [Pulls -> [Layers -> [pc : TaskPCs, n : Nat]]]
  BY DEF LayerInv, TasksTyped
<1>2. TasksTyped'
  BY <1>1 DEF TasksTyped
<1>3. \A q \in Pulls, m \in Layers :
        task'[q][m] = IF q = p /\ m = l THEN t ELSE task[q][m]
  BY <1>1
<1>4. ToldTrue'
  <2>1. ASSUME NEW q \in Pulls, NEW m \in Layers, task'[q][m].pc \in There
        PROVE  Exists(q, m)'
    BY <2>1, <1>3 DEF LayerInv, ToldTrue, Is, BlobsStay
  <2> QED
    BY <2>1 DEF ToldTrue, Is
<1> QED
  BY <1>2, <1>4

LEMMA PcTask ==
  ASSUME LayerInv, NEW p \in Pulls, NEW l \in Layers, NEW pc \in TaskPCs,
         task' = [task EXCEPT ![p][l].pc = pc]
  PROVE  /\ [task[p][l] EXCEPT !.pc = pc] \in [pc : TaskPCs, n : Nat]
         /\ task' = [task EXCEPT ![p][l] = [task[p][l] EXCEPT !.pc = pc]]
         /\ [task[p][l] EXCEPT !.pc = pc].pc = pc
BY DEF LayerInv, TasksTyped

\* The pieces of a layer are a number.
LEMMA SizeNat == \A l \in Layers : Size[l] \in Nat
BY LayerFetchAssumption

LEMMA ListKeeps ==
  ASSUME LayerInv, NEW p \in Pulls, NEW l \in LayersOf[p], List(p, l)
  PROVE  LayerInv'
<1>1. l \in Layers /\ UNCHANGED file
  BY LayerFetchAssumption DEF List
<1>2. BlobsStay /\ FilesTyped'
  BY <1>1 DEF LayerInv, BlobsStay, Exists, FilesTyped
<1>3. PICK pc \in {"cached", "listed"} :
        /\ task' = [task EXCEPT ![p][l].pc = pc]
        /\ pc = "cached" => Exists(p, l)
  BY DEF List
<1>4. pc \in TaskPCs /\ "listed" \notin There
  BY DEF TaskPCs, Final, There
<1>5. pc \in There => Exists(p, l)'
  BY <1>1, <1>3, <1>4 DEF Exists
<1> DEFINE t == [task[p][l] EXCEPT !.pc = pc]
<1>8. t \in [pc : TaskPCs, n : Nat] /\ task' = [task EXCEPT ![p][l] = t] /\ t.pc = pc
  BY <1>1, <1>3, <1>4, PcTask
<1> HIDE DEF t
<1>9. TasksTyped' /\ ToldTrue'
  BY <1>1, <1>2, <1>5, <1>8, OneTask
<1>6. PullsTyped' /\ \A q \in Pulls : pull'[q].pc = pull[q].pc
  BY <1>1, SizeNat DEF List, LayerInv, PullsTyped
<1>7. EndedStay
  BY <1>1, <1>3, <1>6 DEF List, EndedStay, LayerInv, TasksTyped
<1> QED
  BY <1>2, <1>6, <1>7, <1>9, EndedKept DEF LayerInv

LEMMA LaunchKeeps ==
  ASSUME LayerInv, NEW p \in Pulls, NEW l \in Layers, Launch(p, l) \/ Do(p, l)
  PROVE  LayerInv'
<1>1. UNCHANGED <<pull, file>>
  BY DEF Launch, Do
<1>2. BlobsStay /\ FilesTyped' /\ PullsTyped'
  BY <1>1 DEF LayerInv, BlobsStay, Exists, FilesTyped, PullsTyped
<1>3. PICK pc \in {"running", "fetching", "joined"} : task' = [task EXCEPT ![p][l].pc = pc]
  BY DEF Launch, Do
<1>4. pc \in TaskPCs /\ pc \notin There
  BY DEF TaskPCs, Final, There
<1>5. TasksTyped' /\ ToldTrue'
  BY <1>2, <1>3, <1>4, PcTask, OneTask
<1>6. EndedStay
  BY <1>1, <1>3 DEF Launch, Do, EndedStay, Is, Final, LayerInv, TasksTyped
<1> QED
  BY <1>2, <1>5, <1>6, EndedKept DEF LayerInv

\* A shared result: it is of one blob, and those who share it were waiting.
LEMMA ResultFits ==
  ASSUME LayerInv, NEW p \in Pulls, NEW l \in Layers, Is(p, l, {"fetching", "copying"}),
         NEW pc \in {"ok", "found", "failed"}, NEW n \in Nat, Result(p, l, pc, n),
         BlobsStay, pc # "failed" => Exists(p, l)'
  PROVE  TasksTyped' /\ ToldTrue' /\ PullsTyped' /\ EndedStay
<1>1. task \in [Pulls -> [Layers -> [pc : TaskPCs, n : Nat]]]
  BY DEF LayerInv, TasksTyped
<1>2. {"ok", "found", "failed"} \subseteq TaskPCs /\ "failed" \notin There
  BY DEF TaskPCs, Final, There
<1> DEFINE to == IF pc = "failed" THEN "failed" ELSE "ok"
           next(q, m) == IF <<q, m>> = <<p, l>> THEN [pc |-> pc, n |-> n]
                         ELSE IF <<q, m>> \in Joined(p, l)
                              THEN [task[q][m] EXCEPT !.pc = to] ELSE task[q][m]
<1>3. task' = [q \in Pulls |-> [m \in Layers |-> next(q, m)]]
  BY DEF Result
<1>4. \A q \in Pulls, m \in Layers : next(q, m) \in [pc : TaskPCs, n : Nat]
  <2> TAKE q \in Pulls, m \in Layers
  <2>1. pc \in TaskPCs /\ to \in TaskPCs /\ task[q][m] \in [pc : TaskPCs, n : Nat]
    BY <1>1, <1>2
  <2> HIDE DEF to
  <2>2. [task[q][m] EXCEPT !.pc = to] \in [pc : TaskPCs, n : Nat]
    BY <2>1
  <2>3. [pc |-> pc, n |-> n] \in [pc : TaskPCs, n : Nat]
    BY <2>1
  <2> QED
    BY <2>1, <2>2, <2>3, Zenon
<1>5. \A q \in Pulls, m \in Layers : <<q, m>> \in Joined(p, l) =>
        Is(q, m, {"joined"}) /\ LayoutOf[q] = LayoutOf[p] /\ m = l
  BY DEF Joined, Key
<1>6. \A q \in Pulls, m \in Layers : next(q, m).pc =
        IF q = p /\ m = l THEN pc ELSE IF <<q, m>> \in Joined(p, l) THEN to ELSE task[q][m].pc
  BY <1>1
<1> HIDE DEF next
<1>7. TasksTyped'
  BY <1>3, <1>4 DEF TasksTyped
<1>8. \A q \in Pulls, m \in Layers : task'[q][m].pc = next(q, m).pc
  BY <1>3
<1>9. ToldTrue'
  <2>1. ASSUME NEW q \in Pulls, NEW m \in Layers, task'[q][m].pc \in There
        PROVE  Exists(q, m)'
    <3>1. CASE q = p /\ m = l
      BY <3>1, <2>1, <1>2, <1>6, <1>8
    <3>2. CASE ~(q = p /\ m = l) /\ <<q, m>> \in Joined(p, l)
      BY <3>2, <2>1, <1>2, <1>5, <1>6, <1>8 DEF Exists
    <3>3. CASE ~(q = p /\ m = l) /\ <<q, m>> \notin Joined(p, l)
      BY <3>3, <2>1, <1>6, <1>8 DEF LayerInv, ToldTrue, Is, BlobsStay
    <3> QED
      BY <3>1, <3>2, <3>3
  <2> QED
    BY <2>1 DEF ToldTrue, Is
<1>10. PullsTyped' /\ \A q \in Pulls : pull'[q].pc = pull[q].pc
  <2>1. pull' = [q \in Pulls |->
          IF pc # "failed" /\ <<q, l>> \in Joined(p, l)
          THEN [pull[q] EXCEPT !.completed = @ + Size[l]] ELSE pull[q]]
    BY DEF Result
  <2> QED
    BY <2>1, SizeNat DEF LayerInv, PullsTyped
<1>11. ASSUME NEW q \in Pulls, NEW m \in Layers, task[q][m].pc \in Final
       PROVE  task'[q][m].pc = task[q][m].pc
  <2>1. ~(q = p /\ m = l) /\ <<q, m>> \notin Joined(p, l)
    BY <1>11, <1>5 DEF Is, Final
  <2> QED
    BY <2>1, <1>6, <1>8
<1>12. EndedStay
  BY <1>10, <1>11 DEF EndedStay, Is
<1> QED
  BY <1>7, <1>9, <1>10, <1>12

LEMMA PartSet ==
  ASSUME LayerInv, NEW p \in Pulls, NEW l \in Layers,
         NEW part \in [n : Nat, bad : BOOLEAN], SetPart(p, l, part)
  PROVE  FilesTyped' /\ BlobsStay
<1>1. LayoutOf[p] \in Layouts
  BY LayerFetchAssumption
<1>2. file \in [Layouts -> [Layers -> [blob : Blobs, part : [n : Nat, bad : BOOLEAN]]]]
  BY DEF LayerInv, FilesTyped
<1> DEFINE d == LayoutOf[p]
           f == [file[d][l] EXCEPT !.part = part]
<1>3. f \in [blob : Blobs, part : [n : Nat, bad : BOOLEAN]] /\ f.blob = file[d][l].blob
  BY <1>1, <1>2
<1>4. file' = [file EXCEPT ![d][l] = f]
  BY <1>1, <1>2 DEF SetPart
<1> HIDE DEF d, f
<1>5. FilesTyped'
  BY <1>2, <1>3, <1>4 DEF FilesTyped
<1>6. \A e \in Layouts, m \in Layers : file'[e][m].blob = file[e][m].blob
  BY <1>2, <1>3, <1>4
<1> QED
  BY <1>5, <1>6, LayerFetchAssumption DEF BlobsStay, Exists

LEMMA FetchingKeeps ==
  ASSUME LayerInv, NEW p \in Pulls, NEW l \in Layers, Fetch(p, l) \/ Copy(p, l)
  PROVE  LayerInv'
<1>1. task[p][l] \in [pc : TaskPCs, n : Nat] /\ PartOf(p, l) \in [n : Nat, bad : BOOLEAN]
  BY LayerFetchAssumption DEF LayerInv, TasksTyped, FilesTyped, PartOf
<1>2. Is(p, l, {"fetching", "copying"})
  BY DEF Fetch, Copy, Is
<1>3. CASE Fetch(p, l) /\ Exists(p, l)
  <2>1. Result(p, l, "found", 0) /\ UNCHANGED file
    BY <1>3 DEF Fetch
  <2>2. BlobsStay /\ FilesTyped' /\ Exists(p, l)'
    BY <2>1, <1>3 DEF BlobsStay, Exists, LayerInv, FilesTyped
  <2>3. TasksTyped' /\ ToldTrue' /\ PullsTyped' /\ EndedStay
    BY <2>1, <2>2, <1>2, ResultFits
  <2> QED
    BY <2>2, <2>3, EndedKept DEF LayerInv
<1>4. ASSUME NEW part \in [n : Nat, bad : BOOLEAN], NEW k \in Nat, NEW m \in Nat,
             SetPart(p, l, part),
             task' = [task EXCEPT ![p][l] = [pc |-> "copying", n |-> k]],
             pull' = [pull EXCEPT ![p].completed = @ + m]
      PROVE  LayerInv'
  <2>1. FilesTyped' /\ BlobsStay
    BY <1>4, PartSet
  <2> DEFINE t == [pc |-> "copying", n |-> k]
  <2>2. t \in [pc : TaskPCs, n : Nat] /\ t.pc \notin There
    BY DEF TaskPCs, There, Final
  <2>6. task' = [task EXCEPT ![p][l] = t]
    BY <1>4
  <2> HIDE DEF t
  <2>3. TasksTyped' /\ ToldTrue'
    BY <2>1, <2>2, <2>6, OneTask
  <2>4. PullsTyped' /\ \A q \in Pulls : pull'[q].pc = pull[q].pc
    BY <1>4 DEF LayerInv, PullsTyped
  <2>5. EndedStay
    BY <2>4, <1>2, <1>4 DEF EndedStay, Is, Final, LayerInv, TasksTyped
  <2> QED
    BY <2>1, <2>3, <2>4, <2>5, EndedKept DEF LayerInv
<1>5. CASE Fetch(p, l) /\ ~Exists(p, l)
  <2>1. PICK part \in {NoPart, PartOf(p, l)} :
          /\ SetPart(p, l, part)
          /\ task' = [task EXCEPT ![p][l] = [pc |-> "copying", n |-> part.n]]
          /\ pull' = [pull EXCEPT ![p].completed = @ + part.n]
    BY <1>5 DEF Fetch
  <2>2. NoPart \in [n : Nat, bad : BOOLEAN]
    BY DEF NoPart
  <2>3. part \in [n : Nat, bad : BOOLEAN] /\ part.n \in Nat
    BY <2>2, <1>1
  <2> QED
    BY <2>1, <2>3, <1>4
<1>6. CASE Copy(p, l)
  <2>1. PICK bad \in BOOLEAN :
          /\ SetPart(p, l, [n |-> task[p][l].n + 1, bad |-> PartOf(p, l).bad \/ bad])
          /\ task' = [task EXCEPT ![p][l].n = @ + 1]
          /\ pull' = [pull EXCEPT ![p].completed = @ + 1]
    BY <1>6 DEF Copy
  <2>2. task[p][l].pc = "copying"
    BY <1>6 DEF Copy, Is
  <2>3. task' = [task EXCEPT ![p][l] = [pc |-> "copying", n |-> task[p][l].n + 1]]
    <3>1. task \in [Pulls -> [Layers -> [pc : TaskPCs, n : Nat]]]
      BY DEF LayerInv, TasksTyped
    <3>2. [task[p][l] EXCEPT !.n = @ + 1] = [pc |-> "copying", n |-> task[p][l].n + 1]
      BY <2>2, <1>1
    <3>3. task' = [task EXCEPT ![p][l] = [task[p][l] EXCEPT !.n = @ + 1]]
      BY <2>1, <3>1
    <3> QED
      BY <3>2, <3>3
  <2>4. [n |-> task[p][l].n + 1, bad |-> PartOf(p, l).bad \/ bad] \in [n : Nat, bad : BOOLEAN]
    BY <1>1
  <2>5. task[p][l].n + 1 \in Nat
    BY <1>1
  <2> QED
    BY <2>1, <2>3, <2>4, <2>5, <1>4
<1> QED
  BY <1>3, <1>5, <1>6

LEMMA BreakKeeps ==
  ASSUME LayerInv, NEW p \in Pulls, NEW l \in Layers, Break(p, l)
  PROVE  LayerInv'
<1>1. Is(p, l, {"fetching", "copying"}) /\ Result(p, l, "failed", task[p][l].n)
  BY DEF Break
<1>2. task[p][l].n \in Nat
  BY DEF LayerInv, TasksTyped
<1>3. FilesTyped' /\ BlobsStay
  <2>1. CASE SetPart(p, l, NoPart)
    <3>1. NoPart \in [n : Nat, bad : BOOLEAN]
      BY DEF NoPart
    <3> QED
      BY <3>1, <2>1, PartSet
  <2>2. CASE UNCHANGED file
    BY <2>2 DEF LayerInv, FilesTyped, BlobsStay, Exists
  <2> QED
    BY <2>1, <2>2 DEF Break
<1>4. TasksTyped' /\ ToldTrue' /\ PullsTyped' /\ EndedStay
  BY <1>1, <1>2, <1>3, ResultFits
<1> QED
  BY <1>3, <1>4, EndedKept DEF LayerInv

\* Only what was verified becomes a blob.
LEMMA VerifyKeeps ==
  ASSUME LayerInv, NEW p \in Pulls, NEW l \in Layers, Verify(p, l)
  PROVE  LayerInv'
<1> DEFINE d == LayoutOf[p]
           pc == IF PartOf(p, l).bad THEN "failed" ELSE "ok"
           blob == IF PartOf(p, l).bad THEN file[d][l].blob ELSE "whole"
           f == [blob |-> blob, part |-> NoPart]
<1>1. Is(p, l, {"fetching", "copying"}) /\ Result(p, l, pc, Size[l])
  BY DEF Verify, Is
<1>2. d \in Layouts /\ Size[l] \in Nat
  BY LayerFetchAssumption
<1>3. file' = [file EXCEPT ![d][l] = f]
  BY DEF Verify
<1>4. file \in [Layouts -> [Layers -> [blob : Blobs, part : [n : Nat, bad : BOOLEAN]]]]
  BY DEF LayerInv, FilesTyped
<1>5. blob \in Blobs /\ (pc # "failed" => blob = "whole") /\ (file[d][l].blob # "none" => blob # "none")
  BY <1>2, <1>4 DEF Blobs
<1>6. f \in [blob : Blobs, part : [n : Nat, bad : BOOLEAN]] /\ f.blob = blob
  BY <1>5 DEF NoPart
<1>7. pc \in {"ok", "found", "failed"}
  OBVIOUS
<1> HIDE DEF d, pc, blob, f
<1>8. FilesTyped'
  BY <1>2, <1>3, <1>4, <1>6 DEF FilesTyped
<1>9. \A e \in Layouts, m \in Layers :
        file'[e][m].blob = IF e = d /\ m = l THEN blob ELSE file[e][m].blob
  BY <1>2, <1>3, <1>4, <1>6
<1>10. BlobsStay
  BY <1>5, <1>9, LayerFetchAssumption DEF BlobsStay, Exists
<1>11. pc # "failed" => Exists(p, l)'
  BY <1>2, <1>5, <1>9 DEF Exists, d
<1>12. TasksTyped' /\ ToldTrue' /\ PullsTyped' /\ EndedStay
  BY <1>1, <1>2, <1>7, <1>10, <1>11, ResultFits
<1> QED
  BY <1>8, <1>12, EndedKept DEF LayerInv

\* A pull begins, waits for its goroutines, and writes its tag.
LEMMA PullKeeps ==
  ASSUME LayerInv, NEW p \in Pulls, Start(p) \/ GroupWait(p) \/ ProgressWait(p)
  PROVE  LayerInv'
<1>1. UNCHANGED <<task, file>>
  BY DEF Start, GroupWait, ProgressWait
<1>2. FilesTyped' /\ TasksTyped' /\ ToldTrue'
  BY <1>1 DEF LayerInv, FilesTyped, TasksTyped, ToldTrue, Is, Exists
<1>3. PICK pc \in {"listing", "failed", "draining", "tagged"} :
        pull' = [pull EXCEPT ![p].pc = pc]
  BY DEF Start, GroupWait, ProgressWait
<1>4. PullsTyped'
  BY <1>3 DEF LayerInv, PullsTyped
<1>5. \A q \in Pulls : pull'[q].pc = IF q = p THEN pc ELSE pull[q].pc
  BY <1>3 DEF LayerInv, PullsTyped
<1>6. pull'[p].pc = "draining" => \A l \in LayersOf[p] : Is(p, l, Final \ {"none"})
  BY DEF Start, GroupWait, ProgressWait, LayerInv, PullsTyped
<1>7. pull'[p].pc = "tagged" => \A l \in LayersOf[p] : Is(p, l, There)
  <2> SUFFICES ASSUME pull'[p].pc = "tagged", NEW l \in LayersOf[p] PROVE Is(p, l, There)
    OBVIOUS
  <2>1. ProgressWait(p) /\ ~Cancelled(p) /\ pull[p].pc = "draining"
    BY DEF Start, GroupWait, ProgressWait, LayerInv, PullsTyped
  <2>2. Is(p, l, Final \ {"none"}) /\ ~Is(p, l, {"failed"})
    BY <2>1 DEF LayerInv, Ended, Cancelled
  <2> QED
    BY <2>2 DEF Is, Final, There
<1>8. Ended'
  BY <1>1, <1>5, <1>6, <1>7 DEF LayerInv, Ended, Is
<1> QED
  BY <1>2, <1>4, <1>8 DEF LayerInv

\* The files outlive the daemon; a pull that had returned stays as it was.
LEMMA RestartKeeps ==
  ASSUME LayerInv, Restart
  PROVE  LayerInv'
<1>1. NoTask \in [pc : TaskPCs, n : Nat] /\ NoTask.pc \notin There
  BY DEF NoTask, TaskPCs, Final, There
<1>2. FilesTyped'
  BY DEF Restart, LayerInv, FilesTyped
<1>3. TasksTyped'
  BY <1>1 DEF Restart, LayerInv, TasksTyped
<1>4. PullsTyped'
  <2>1. NewPull \in [pc : {"idle", "listing", "draining", "tagged", "failed"},
                     total : Nat, completed : Nat]
    BY DEF NewPull
  <2> QED
    BY <2>1 DEF Restart, LayerInv, PullsTyped
<1>5. ToldTrue'
  <2>1. ASSUME NEW p \in Pulls, NEW l \in Layers, task'[p][l].pc \in There
        PROVE  Exists(p, l)'
    <3>1. task'[p][l] = IF Unfinished(p) THEN NoTask ELSE task[p][l]
      BY DEF Restart
    <3>2. Is(p, l, There)
      BY <3>1, <2>1, <1>1 DEF Is
    <3> QED
      BY <3>2 DEF Restart, LayerInv, ToldTrue, Exists
  <2> QED
    BY <2>1 DEF ToldTrue, Is
<1>6. Ended'
  <2>1. ASSUME NEW p \in Pulls, NEW l \in LayersOf[p]
        PROVE  /\ pull'[p].pc # "draining"
               /\ pull'[p].pc = "tagged" => task'[p][l].pc \in There
    <3>1. pull'[p] = IF Unfinished(p) THEN NewPull ELSE pull[p]
      BY DEF Restart
    <3>2. task'[p] = IF Unfinished(p) THEN [m \in Layers |-> NoTask] ELSE task[p]
      BY DEF Restart
    <3>3. NewPull.pc = "idle"
      BY DEF NewPull
    <3> QED
      BY <3>1, <3>2, <3>3 DEF Unfinished, LayerInv, Ended, Is
  <2> QED
    BY <2>1 DEF Ended, Is
<1> QED
  BY <1>2, <1>3, <1>4, <1>5, <1>6 DEF LayerInv

LEMMA LayerStepKeeps ==
  ASSUME LayerInv, NEW p \in Pulls, NEW l \in LayersOf[p], LayerStep(p, l)
  PROVE  LayerInv'
<1>1. l \in Layers
  BY LayerFetchAssumption
<1> QED
  BY <1>1, ListKeeps, LaunchKeeps, FetchingKeeps, BreakKeeps, VerifyKeeps DEF LayerStep

\* A layer a pull was told is there is there, whoever fetched it, however
\* many pulls, layouts and layers there are and however often the daemon
\* dies; a tag is written over such layers only (backend_docker.go:854).
THEOREM LayersHaveArrived == LayerSpec => []LayersArrive
<1>1. LayerInv /\ [LayerNext]_layerVars => LayerInv'
  <2> SUFFICES ASSUME LayerInv, [LayerNext]_layerVars PROVE LayerInv'
    OBVIOUS
  <2>1. ASSUME NEW p \in Pulls, Start(p) PROVE LayerInv'
    BY <2>1, PullKeeps
  <2>2. ASSUME NEW p \in Pulls, PullStep(p) PROVE LayerInv'
    BY <2>2, PullKeeps, LayerStepKeeps DEF PullStep
  <2>3. CASE Restart
    BY <2>3, RestartKeeps
  <2>4. CASE UNCHANGED layerVars
    BY <2>4 DEF layerVars, LayerInv, FilesTyped, TasksTyped, PullsTyped, ToldTrue, Ended,
                Is, Exists
  <2> QED
    BY <2>1, <2>2, <2>3, <2>4 DEF LayerNext
<1>2. LayerInv => LayersArrive
  <2> SUFFICES ASSUME LayerInv, NEW p \in Pulls, NEW l \in LayersOf[p],
                      Is(p, l, There) \/ pull[p].pc = "tagged"
               PROVE  file[LayoutOf[p]][l].blob = "whole"
    BY DEF LayersArrive, There
  <2>1. l \in Layers /\ LayoutOf[p] \in Layouts
    BY LayerFetchAssumption
  <2>2. Exists(p, l)
    BY <2>1 DEF LayerInv, Ended, ToldTrue
  <2> QED
    BY <2>1, <2>2 DEF Exists, LayerInv, FilesTyped, Blobs
<1> QED
  BY <1>1, <1>2, InitLayer, PTL DEF LayerSpec

(***************************************************************************)
(* The credits of a pull: what a pull has been credited is counted in the  *)
(* pieces of its layers, so that the sums are sizes of sets.               *)
(***************************************************************************)

\* The layer a sum over s takes next.
First(s) == CHOOSE l \in s : TRUE

\* f is the recursive function SumOver defines.
IsTally(f, S) ==
  f = [s \in SUBSET S |-> IF s = {} THEN 0 ELSE Size[First(s)] + f[s \ {First(s)}]]

LEMMA SumIsTally ==
  ASSUME NEW S
  PROVE  SumOver(S) = (CHOOSE f : IsTally(f, S))[S]
BY Zenon DEF SumOver, FoldFunctionOnSet, MapThenFoldSet, IsTally, First

\* What is false of a finite set of layers is false of a least one.
LEMMA LeastSubset ==
  ASSUME NEW T \in SUBSET SUBSET Layers, T # {}, \A s \in T : IsFiniteSet(s)
  PROVE  \E s \in T : \A u \in T : u \subseteq s => u = s
<1>1. T \subseteq FiniteSubsetsOf(Layers)
  BY DEF FiniteSubsetsOf
<1>2. PICK s \in T : \A u \in T : <<u, s>> \notin StrictSubsetOrdering(Layers)
  BY <1>1, FS_StrictSubsetOrderingWellFounded, WFMin, Zenon
<1> QED
  BY <1>2 DEF StrictSubsetOrdering

\* One step of it.
Tally(s) == IF s = {} THEN 0 ELSE Size[First(s)] + SumOver(s \ {First(s)})

\* At most one function is the tally of a finite set of layers.
LEMMA OneTally ==
  ASSUME NEW S \in SUBSET Layers, IsFiniteSet(S), NEW f, NEW g, IsTally(f, S), IsTally(g, S)
  PROVE  f = g
<1> DEFINE Bad == {s \in SUBSET S : f[s] # g[s]}
<1>1. f = [s \in SUBSET S |-> IF s = {} THEN 0 ELSE Size[First(s)] + f[s \ {First(s)}]]
  BY DEF IsTally
<1>2. g = [s \in SUBSET S |-> IF s = {} THEN 0 ELSE Size[First(s)] + g[s \ {First(s)}]]
  BY DEF IsTally
<1>3. Bad = {}
  <2> SUFFICES ASSUME Bad # {} PROVE FALSE
    OBVIOUS
  <2>1. \A s \in Bad : s \in SUBSET Layers /\ IsFiniteSet(s)
    BY FS_Subset
  <2>2. PICK s \in Bad : \A u \in Bad : u \subseteq s => u = s
    <3>1. Bad \in SUBSET SUBSET Layers
      BY <2>1
    <3> HIDE DEF Bad
    <3> QED
      BY <3>1, <2>1, LeastSubset
  <2>3. s # {}
    BY <2>2, <1>1, <1>2
  <2>4. First(s) \in s
    BY <2>3 DEF First
  <2>5. s \ {First(s)} \notin Bad
    BY <2>2, <2>4
  <2>6. s \ {First(s)} \in SUBSET S
    BY <2>2
  <2>7. f[s \ {First(s)}] = g[s \ {First(s)}]
    BY <2>5, <2>6
  <2>8. f[s] = Size[First(s)] + f[s \ {First(s)}]
    BY <1>1, <2>2, <2>3
  <2>9. g[s] = Size[First(s)] + g[s \ {First(s)}]
    BY <1>2, <2>2, <2>3
  <2> QED
    BY <2>2, <2>7, <2>8, <2>9
<1>4. \A s \in SUBSET S : f[s] = g[s]
  BY <1>3
<1>5. f = [s \in SUBSET S |-> f[s]] /\ g = [s \in SUBSET S |-> g[s]]
  <2> HIDE DEF First
  <2> QED
    BY <1>1, <1>2
<1> QED
  BY <1>4, <1>5

\* What a sum over a finite set of layers computes, a layer at a time.
LEMMA SumUnfolds ==
  ASSUME NEW S \in SUBSET Layers, IsFiniteSet(S)
  PROVE  SumOver(S) = Tally(S)
<1> DEFINE Bad == {s \in SUBSET S : SumOver(s) # Tally(s)}
<1>1. Bad = {}
  <2> SUFFICES ASSUME Bad # {} PROVE FALSE
    OBVIOUS
  <2>1. \A s \in Bad : s \in SUBSET Layers /\ IsFiniteSet(s)
    BY FS_Subset
  <2>2. PICK s \in Bad : \A u \in Bad : u \subseteq s => u = s
    <3>1. Bad \in SUBSET SUBSET Layers
      BY <2>1
    <3> HIDE DEF Bad
    <3> QED
      BY <3>1, <2>1, LeastSubset
  <2> DEFINE g == [u \in SUBSET s |-> Tally(u)]
  <2>3. ASSUME NEW u \in SUBSET s, u # {}
        PROVE  g[u \ {First(u)}] = SumOver(u \ {First(u)})
    <3>1. First(u) \in u
      BY <2>3 DEF First
    <3>2. u \ {First(u)} \in SUBSET s /\ u \ {First(u)} # s
      BY <3>1
    <3>3. u \ {First(u)} \notin Bad
      BY <3>2, <2>2
    <3>4. SumOver(u \ {First(u)}) = Tally(u \ {First(u)})
      BY <3>2, <3>3, <2>2
    <3> QED
      BY <3>2, <3>4
  <2>4. \A u \in SUBSET s :
          g[u] = IF u = {} THEN 0 ELSE Size[First(u)] + g[u \ {First(u)}]
    BY <2>3 DEF Tally
  <2>9. g = [u \in SUBSET s |-> g[u]]
    OBVIOUS
  <2> HIDE DEF g
  <2>5. IsTally(g, s)
    BY <2>4, <2>9 DEF IsTally
  <2>6. IsTally(CHOOSE f : IsTally(f, s), s)
    BY <2>5, Zenon
  <2>7. (CHOOSE f : IsTally(f, s)) = g
    BY <2>1, <2>2, <2>5, <2>6, OneTally
  <2>8. SumOver(s) = g[s]
    BY <2>7, SumIsTally
  <2>10. g[s] = Tally(s)
    BY DEF g
  <2> QED
    BY <2>2, <2>8, <2>10
<1> QED
  BY <1>1

\* The first so many pieces of each of some layers.
Stack(ls, c) == {x \in Layers \X Nat : x[1] \in ls /\ x[2] \in 1..c[x[1]]}

Pieces(ls) == Stack(ls, Size)

\* The pieces of one layer, from one to another.
LEMMA OneLayer ==
  ASSUME NEW l \in Layers, NEW a \in Nat, NEW k \in Nat
  PROVE  IsFiniteSet({l} \X (a + 1 .. a + k)) /\ Cardinality({l} \X (a + 1 .. a + k)) = k
<1>1. IsFiniteSet({l}) /\ Cardinality({l}) = 1
  BY FS_Singleton
<1>2. IsFiniteSet(a + 1 .. a + k) /\ Cardinality(a + 1 .. a + k) = k
  BY FS_Interval
<1>3. IsFiniteSet({l} \X (a + 1 .. a + k))
  BY <1>1, <1>2, FS_Product
<1>4. Cardinality({l} \X (a + 1 .. a + k)) = Cardinality({l}) * Cardinality(a + 1 .. a + k)
  BY <1>1, <1>2, FS_Product
<1> QED
  BY <1>1, <1>2, <1>3, <1>4

LEMMA DisjointAdds ==
  ASSUME NEW S, NEW T, IsFiniteSet(S), IsFiniteSet(T), S \cap T = {}
  PROVE  IsFiniteSet(S \cup T) /\ Cardinality(S \cup T) = Cardinality(S) + Cardinality(T)
BY FS_Union, FS_EmptySet, FS_CardinalityType

LEMMA PiecesOfOneMore ==
  ASSUME NEW ls \in SUBSET Layers, NEW l \in Layers, l \notin ls, IsFiniteSet(Pieces(ls))
  PROVE  /\ IsFiniteSet(Pieces(ls \cup {l}))
         /\ Cardinality(Pieces(ls \cup {l})) = Cardinality(Pieces(ls)) + Size[l]
<1>1. Size[l] \in Nat
  BY SizeNat
<1> DEFINE one == {l} \X (1 .. Size[l])
<1>2. IsFiniteSet(one) /\ Cardinality(one) = Size[l]
  <2>1. PICK a \in Nat : a = 0
    OBVIOUS
  <2>2. one = {l} \X (a + 1 .. a + Size[l])
    BY <1>1, <2>1
  <2>3. PICK k \in Nat : k = Size[l]
    BY <1>1
  <2>4. IsFiniteSet({l} \X (a + 1 .. a + k)) /\ Cardinality({l} \X (a + 1 .. a + k)) = k
    BY OneLayer
  <2> QED
    BY <2>2, <2>3, <2>4
<1>3. Pieces(ls \cup {l}) = Pieces(ls) \cup one /\ Pieces(ls) \cap one = {}
  BY <1>1 DEF Pieces, Stack
<1> HIDE DEF one
<1> QED
  BY <1>2, <1>3, DisjointAdds

\* The sum of the sizes of some layers is the number of their pieces.
LEMMA SumCountsPieces ==
  ASSUME NEW S \in SUBSET Layers, IsFiniteSet(S)
  PROVE  IsFiniteSet(Pieces(S)) /\ SumOver(S) = Cardinality(Pieces(S))
<1> DEFINE Good(s) == IsFiniteSet(Pieces(s)) /\ SumOver(s) = Cardinality(Pieces(s))
           Bad == {s \in SUBSET S : ~Good(s)}
<1>1. Bad = {}
  <2> SUFFICES ASSUME Bad # {} PROVE FALSE
    OBVIOUS
  <2>1. \A s \in Bad : s \in SUBSET Layers /\ IsFiniteSet(s)
    BY FS_Subset
  <2>2. PICK s \in Bad : \A u \in Bad : u \subseteq s => u = s
    <3>1. Bad \in SUBSET SUBSET Layers
      BY <2>1
    <3> HIDE DEF Bad
    <3> QED
      BY <3>1, <2>1, LeastSubset
  <2>3. SumOver(s) = Tally(s)
    BY <2>1, <2>2, SumUnfolds
  <2>4. s # {}
    <3> SUFFICES ASSUME s = {} PROVE FALSE
      OBVIOUS
    <3>1. Pieces(s) = {}
      BY DEF Pieces, Stack
    <3>2. SumOver(s) = 0
      BY <2>3 DEF Tally
    <3>3. Good(s)
      BY <3>1, <3>2, FS_EmptySet
    <3> QED
      BY <3>3, <2>2
  <2> DEFINE l == First(s)
             u == s \ {l}
  <2>5. l \in s /\ l \in Layers /\ u \in SUBSET Layers
    BY <2>1, <2>2, <2>4 DEF First
  <2>6. Good(u)
    BY <2>2, <2>5
  <2>7. s = u \cup {l} /\ l \notin u
    BY <2>5
  <2>8. SumOver(s) = Size[l] + SumOver(u)
    BY <2>3, <2>4 DEF Tally
  <2> HIDE DEF l, u
  <2>9. /\ IsFiniteSet(Pieces(s))
        /\ Cardinality(Pieces(s)) = Cardinality(Pieces(u)) + Size[l]
    BY <2>5, <2>6, <2>7, PiecesOfOneMore
  <2>10. Cardinality(Pieces(u)) \in Nat /\ Size[l] \in Nat
    BY <2>5, <2>6, SizeNat, FS_CardinalityType
  <2> QED
    BY <2>2, <2>6, <2>8, <2>9, <2>10
<1> QED
  BY <1>1

\* One layer gets k pieces more.
LEMMA StackGrows ==
  ASSUME NEW ls \in SUBSET Layers, IsFiniteSet(ls),
         NEW c \in [Layers -> Nat], \A m \in Layers : c[m] <= Size[m],
         NEW l \in ls, NEW k \in Nat, NEW e \in [Layers -> Nat],
         e[l] = c[l] + k, \A m \in Layers : m # l => e[m] = c[m]
  PROVE  Cardinality(Stack(ls, e)) = Cardinality(Stack(ls, c)) + k
<1>1. c[l] \in Nat /\ l \in Layers /\ Size \in [Layers -> Nat]
  BY LayerFetchAssumption
<1>2. IsFiniteSet(Stack(ls, c))
  <2>1. Stack(ls, c) \in SUBSET Pieces(ls)
    BY <1>1 DEF Stack, Pieces
  <2> QED
    BY <2>1, SumCountsPieces, FS_Subset
<1> DEFINE more == {l} \X (c[l] + 1 .. c[l] + k)
<1>3. IsFiniteSet(more) /\ Cardinality(more) = k
  <2>1. PICK a \in Nat : a = c[l]
    BY <1>1
  <2>2. IsFiniteSet({l} \X (a + 1 .. a + k)) /\ Cardinality({l} \X (a + 1 .. a + k)) = k
    BY <1>1, OneLayer
  <2> QED
    BY <2>1, <2>2
<1>4. Stack(ls, e) = Stack(ls, c) \cup more
  <2>1. ASSUME NEW x \in Layers \X Nat, x[1] \in ls
        PROVE  x[2] \in 1..e[x[1]] <=> x[2] \in 1..c[x[1]] \/ x \in more
    <3>1. CASE x[1] = l
      <4>1. x \in more <=> x[2] \in c[l] + 1 .. c[l] + k
        BY <3>1
      <4> HIDE DEF more
      <4> QED
        BY <3>1, <4>1, <1>1
    <3>2. CASE x[1] # l
      BY <3>2, <2>1
    <3> QED
      BY <3>1, <3>2
  <2>2. \A x \in more : x \in Layers \X Nat /\ x[1] \in ls
    BY <1>1
  <2> HIDE DEF more
  <2> QED
    BY <2>1, <2>2 DEF Stack
<1>5. Stack(ls, c) \cap more = {}
  BY <1>1 DEF Stack
<1> HIDE DEF more
<1> QED
  BY <1>2, <1>3, <1>4, <1>5, DisjointAdds

\* What a pull has been credited for each of its layers.
Credits(p) == [l \in Layers |-> IF Is(p, l, {"ok"}) THEN Size[l] ELSE task[p][l].n]

\* The layers it lacked.
Listed(p) == {l \in LayersOf[p] : ~Is(p, l, {"none", "cached"})}

Uncredited == {"none", "cached", "listed", "running", "fetching", "joined", "found"}

\* A .part file holds no more than its layer.
PartsFit == \A d \in Layouts, l \in Layers : file[d][l].part.n <= Size[l]

\* A goroutine has pieces only once its copy began, and works on a layer of
\* its pull.
GoroutinesFit == \A p \in Pulls, l \in Layers :
  /\ task[p][l].n <= Size[l]
  /\ Is(p, l, Uncredited) => task[p][l].n = 0
  /\ l \notin LayersOf[p] => Is(p, l, {"none"})

Completed == \A p \in Pulls : pull[p].completed = Cardinality(Stack(LayersOf[p], Credits(p)))

Totalled == \A p \in Pulls : pull[p].total = Cardinality(Pieces(Listed(p)))

CreditInv == LayerInv /\ PartsFit /\ GoroutinesFit /\ Completed /\ Totalled

LEMMA CreditsTyped ==
  ASSUME LayerInv, GoroutinesFit, NEW p \in Pulls
  PROVE  Credits(p) \in [Layers -> Nat] /\ \A l \in Layers : Credits(p)[l] <= Size[l]
BY SizeNat DEF LayerInv, TasksTyped, GoroutinesFit, Credits

\* What a step does to the account of a pull: nothing, or k pieces of l.
Unpaid(p) ==
  /\ \A l \in Layers : Credits(p)'[l] = Credits(p)[l]
  /\ pull'[p].completed = pull[p].completed

Paid(p) == \E l \in LayersOf[p], k \in Nat :
  /\ Credits(p)'[l] = Credits(p)[l] + k
  /\ \A m \in Layers : m # l => Credits(p)'[m] = Credits(p)[m]
  /\ pull'[p].completed = pull[p].completed + k

LEMMA PaymentsAdd ==
  ASSUME CreditInv, LayerInv', GoroutinesFit', \A p \in Pulls : Unpaid(p) \/ Paid(p)
  PROVE  Completed'
<1> SUFFICES ASSUME NEW p \in Pulls
             PROVE  pull'[p].completed = Cardinality(Stack(LayersOf[p], Credits(p)'))
  BY DEF Completed
<1>1. Credits(p) \in [Layers -> Nat] /\ \A l \in Layers : Credits(p)[l] <= Size[l]
  BY CreditsTyped DEF CreditInv
<1>2. Credits(p)' \in [Layers -> Nat]
  BY SizeNat DEF LayerInv, TasksTyped, Credits, Is
<1>3. pull[p].completed = Cardinality(Stack(LayersOf[p], Credits(p)))
  BY DEF CreditInv, Completed
<1>4. LayersOf[p] \in SUBSET Layers /\ IsFiniteSet(LayersOf[p])
  BY LayerFetchAssumption
<1>5. CASE Unpaid(p)
  <2>1. Credits(p)' = Credits(p)
    BY <1>1, <1>2, <1>5 DEF Unpaid
  <2> QED
    BY <2>1, <1>3, <1>5 DEF Unpaid
<1>6. CASE Paid(p)
  <2>1. PICK l \in LayersOf[p], k \in Nat :
          /\ Credits(p)'[l] = Credits(p)[l] + k
          /\ \A m \in Layers : m # l => Credits(p)'[m] = Credits(p)[m]
          /\ pull'[p].completed = pull[p].completed + k
    BY <1>6 DEF Paid
  <2>2. PICK c \in [Layers -> Nat] : c = Credits(p)
    BY <1>1
  <2>3. PICK e \in [Layers -> Nat] : e = Credits(p)'
    BY <1>2
  <2>4. Cardinality(Stack(LayersOf[p], e)) = Cardinality(Stack(LayersOf[p], c)) + k
    BY <2>1, <2>2, <2>3, <1>1, <1>4, StackGrows
  <2> QED
    BY <2>1, <2>2, <2>3, <2>4, <1>3
<1> QED
  BY <1>5, <1>6

\* What a goroutine that is not accounted for otherwise was credited.
CreditOf(l, t) == IF t.pc = "ok" THEN Size[l] ELSE t.n

LEMMA CreditIs ==
  ASSUME LayerInv, NEW p \in Pulls, NEW l \in Layers
  PROVE  Credits(p)[l] = CreditOf(l, task[p][l]) /\ Credits(p)[l] \in Nat
BY SizeNat DEF LayerInv, TasksTyped, Credits, Is, CreditOf

LEMMA CreditIsNext ==
  ASSUME NEW p \in Pulls, NEW l \in Layers
  PROVE  Credits(p)'[l] = CreditOf(l, task'[p][l])
BY DEF Credits, Is, CreditOf

\* A goroutine goes on alone, with k pieces more.
GoesOn(p, l, t, k) ==
  /\ t \in [pc : TaskPCs, n : Nat] /\ task' = [task EXCEPT ![p][l] = t]
  /\ t.n <= Size[l] /\ (t.pc \in Uncredited => t.n = 0)
  /\ k \in Nat /\ CreditOf(l, t) = Credits(p)[l] + k
  /\ \A q \in Pulls : pull'[q].completed =
       IF q = p THEN pull[q].completed + k ELSE pull[q].completed

LEMMA AloneCredited ==
  ASSUME CreditInv, LayerInv', NEW p \in Pulls, NEW l \in LayersOf[p],
         NEW t, NEW k, GoesOn(p, l, t, k)
  PROVE  GoroutinesFit' /\ Completed'
<1> USE DEF GoesOn
<1>1. task \in [Pulls -> [Layers -> [pc : TaskPCs, n : Nat]]] /\ l \in Layers
  BY LayerFetchAssumption DEF CreditInv, LayerInv, TasksTyped
<1>2. \A q \in Pulls, m \in Layers :
        task'[q][m] = IF q = p /\ m = l THEN t ELSE task[q][m]
  BY <1>1
<1>3. GoroutinesFit'
  BY <1>1, <1>2 DEF CreditInv, GoroutinesFit, Is
<1>4. \A q \in Pulls, m \in Layers : Credits(q)[m] = CreditOf(m, task[q][m])
  BY CreditIs DEF CreditInv
<1>5. \A q \in Pulls, m \in Layers : Credits(q)'[m] = CreditOf(m, task'[q][m])
  BY CreditIsNext
<1>6. \A q \in Pulls, m \in Layers : Credits(q)'[m] =
        IF q = p /\ m = l THEN Credits(p)[l] + k ELSE Credits(q)[m]
  BY <1>2, <1>4, <1>5
<1>7. ASSUME NEW q \in Pulls PROVE Unpaid(q) \/ Paid(q)
  <2>1. CASE q = p
    <3>1. /\ Credits(q)'[l] = Credits(q)[l] + k
          /\ \A m \in Layers : m # l => Credits(q)'[m] = Credits(q)[m]
          /\ pull'[q].completed = pull[q].completed + k
      BY <2>1, <1>1, <1>6
    <3> QED
      BY <2>1, <3>1 DEF Paid
  <2>2. CASE q # p
    BY <2>2, <1>6 DEF Unpaid
  <2> QED
    BY <2>1, <2>2
<1> QED
  BY <1>3, <1>7, PaymentsAdd DEF CreditInv

\* The layers a pull lacked are those it listed.
LEMMA ListedStays ==
  ASSUME Totalled, \A p \in Pulls : pull'[p].total = pull[p].total,
         \A p \in Pulls : \A l \in LayersOf[p] :
           task'[p][l].pc \in {"none", "cached"} <=> task[p][l].pc \in {"none", "cached"}
  PROVE  Totalled'
<1>1. \A p \in Pulls : Listed(p)' = Listed(p)
  BY DEF Listed, Is
<1> QED
  BY <1>1 DEF Totalled

LEMMA ListCredits ==
  ASSUME CreditInv, NEW p \in Pulls, NEW l \in LayersOf[p], List(p, l)
  PROVE  CreditInv'
<1>1. LayerInv'
  BY ListKeeps DEF CreditInv
<1>2. l \in Layers /\ UNCHANGED file /\ task[p][l].pc = "none" /\ task[p][l].n = 0
  BY LayerFetchAssumption DEF List, Is, CreditInv, GoroutinesFit, Uncredited
<1>3. PartsFit'
  BY <1>2 DEF CreditInv, PartsFit
<1>4. PICK pc \in {"cached", "listed"} :
        /\ task' = [task EXCEPT ![p][l].pc = pc]
        /\ pc = "cached" => UNCHANGED pull
        /\ pc = "listed" => pull' = [pull EXCEPT ![p].total = @ + Size[l]]
  BY DEF List
<1>5. pc \in TaskPCs /\ pc \in Uncredited /\ pc # "ok"
  BY DEF TaskPCs, Uncredited, Final
<1> DEFINE t == [task[p][l] EXCEPT !.pc = pc]
<1>6. t \in [pc : TaskPCs, n : Nat] /\ task' = [task EXCEPT ![p][l] = t] /\ t.pc = pc
  <2>1. LayerInv /\ task' = [task EXCEPT ![p][l].pc = pc]
    BY <1>4 DEF CreditInv
  <2> QED
    BY <1>2, <1>5, <2>1, PcTask
<1>7. t.n = 0
  BY <1>2 DEF CreditInv, LayerInv, TasksTyped
<1> HIDE DEF t
<1>8. Credits(p)[l] = 0 /\ CreditOf(l, t) = 0 /\ Size[l] \in Nat
  BY <1>2, <1>5, <1>6, <1>7, CreditIs, SizeNat DEF CreditOf, CreditInv
<1>9. \A q \in Pulls : pull'[q].completed = pull[q].completed /\ pull[q].completed \in Nat
  <2>1. PullsTyped
    BY DEF CreditInv, LayerInv
  <2>2. CASE pc = "cached"
    BY <2>1, <2>2, <1>4 DEF PullsTyped
  <2>3. CASE pc = "listed"
    BY <2>1, <2>3, <1>4 DEF PullsTyped
  <2> QED
    BY <2>2, <2>3
<1>10. PICK k \in Nat : k = 0
  OBVIOUS
<1>11. GoroutinesFit' /\ Completed'
  <2>1. CreditOf(l, t) = Credits(p)[l] + k
    BY <1>8, <1>10
  <2>2. \A q \in Pulls : pull'[q].completed =
          IF q = p THEN pull[q].completed + k ELSE pull[q].completed
    BY <1>9, <1>10
  <2>3. t.n <= Size[l] /\ (t.pc \in Uncredited => t.n = 0)
    BY <1>7, <1>8
  <2> QED
    <3>1. GoesOn(p, l, t, k)
      BY <1>6, <2>1, <2>2, <2>3 DEF GoesOn
    <3> QED
      BY <1>1, <3>1, AloneCredited
<1>12. \A q \in Pulls, m \in Layers :
         task'[q][m].pc = IF q = p /\ m = l THEN pc ELSE task[q][m].pc
  BY <1>2, <1>4 DEF CreditInv, LayerInv, TasksTyped
<1>13. Totalled'
  <2>1. CASE pc = "cached"
    <3>1. \A q \in Pulls : pull'[q].total = pull[q].total
      BY <2>1, <1>4, Zenon
    <3>2. \A q \in Pulls : \A m \in LayersOf[q] :
            task'[q][m].pc \in {"none", "cached"} <=> task[q][m].pc \in {"none", "cached"}
      BY <2>1, <1>2, <1>12, LayerFetchAssumption
    <3> QED
      BY <3>1, <3>2, ListedStays DEF CreditInv
  <2>2. CASE pc = "listed"
    <3>1. \A q \in Pulls : pull'[q].total =
            IF q = p THEN pull[q].total + Size[l] ELSE pull[q].total
      BY <2>2, <1>4 DEF CreditInv, LayerInv, PullsTyped
    <3>2. \A q \in Pulls : Listed(q)' = IF q = p THEN Listed(q) \cup {l} ELSE Listed(q)
      BY <2>2, <1>2, <1>12, LayerFetchAssumption DEF Listed, Is
    <3>3. l \notin Listed(p) /\ Listed(p) \in SUBSET Layers /\ IsFiniteSet(Listed(p))
      <4>1. Listed(p) \in SUBSET LayersOf[p]
        BY DEF Listed
      <4>2. l \notin Listed(p)
        BY <1>2 DEF Listed, Is
      <4> QED
        BY <4>1, <4>2, LayerFetchAssumption, FS_Subset
    <3>4. Cardinality(Pieces(Listed(p) \cup {l})) = Cardinality(Pieces(Listed(p))) + Size[l]
      BY <3>3, <1>2, SumCountsPieces, PiecesOfOneMore
    <3> QED
      BY <3>1, <3>2, <3>4 DEF CreditInv, Totalled
  <2> QED
    BY <2>1, <2>2
<1> QED
  BY <1>1, <1>3, <1>11, <1>13 DEF CreditInv

\* A goroutine that goes on alone neither joins nor leaves those listed.
LEMMA AloneListed ==
  ASSUME CreditInv, NEW p \in Pulls, NEW l \in LayersOf[p],
         NEW t, NEW k, GoesOn(p, l, t, k), ~Is(p, l, {"none", "cached"}),
         t.pc \notin {"none", "cached"}, \A q \in Pulls : pull'[q].total = pull[q].total
  PROVE  Totalled'
<1>1. task \in [Pulls -> [Layers -> [pc : TaskPCs, n : Nat]]] /\ l \in Layers
  BY LayerFetchAssumption DEF CreditInv, LayerInv, TasksTyped
<1>2. \A q \in Pulls, m \in Layers :
        task'[q][m] = IF q = p /\ m = l THEN t ELSE task[q][m]
  BY <1>1 DEF GoesOn
<1>3. \A q \in Pulls : \A m \in LayersOf[q] :
        task'[q][m].pc \in {"none", "cached"} <=> task[q][m].pc \in {"none", "cached"}
  BY <1>2, LayerFetchAssumption DEF Is
<1> QED
  BY <1>3, ListedStays DEF CreditInv

LEMMA LaunchCredits ==
  ASSUME CreditInv, NEW p \in Pulls, NEW l \in LayersOf[p], Launch(p, l) \/ Do(p, l)
  PROVE  CreditInv'
<1>1. l \in Layers
  BY LayerFetchAssumption
<1>2. LayerInv' /\ UNCHANGED <<pull, file>>
  BY <1>1, LaunchKeeps DEF CreditInv, Launch, Do
<1>3. PartsFit'
  BY <1>2 DEF CreditInv, PartsFit
<1>4. PICK pc \in {"running", "fetching", "joined"} : task' = [task EXCEPT ![p][l].pc = pc]
  BY DEF Launch, Do
<1>5. task[p][l].pc \in {"listed", "running"} /\ task[p][l].n = 0
  BY <1>1 DEF Launch, Do, Is, CreditInv, GoroutinesFit, Uncredited
<1> DEFINE t == [task[p][l] EXCEPT !.pc = pc]
<1>6. t \in [pc : TaskPCs, n : Nat] /\ task' = [task EXCEPT ![p][l] = t] /\ t.pc = pc
  <2>1. LayerInv /\ pc \in TaskPCs
    BY DEF CreditInv, TaskPCs
  <2> QED
    BY <1>1, <1>4, <2>1, PcTask
<1>7. t.n = 0
  BY <1>1, <1>5 DEF CreditInv, LayerInv, TasksTyped
<1> HIDE DEF t
<1>8. PICK k \in Nat : k = 0
  OBVIOUS
<1>9. GoesOn(p, l, t, k)
  <2>1. CreditOf(l, t) = 0 /\ Credits(p)[l] = 0
    BY <1>1, <1>5, <1>6, <1>7, CreditIs DEF CreditInv, CreditOf
  <2>2. \A q \in Pulls : pull'[q].completed = pull[q].completed /\ pull[q].completed \in Nat
    BY <1>2 DEF CreditInv, LayerInv, PullsTyped
  <2> QED
    BY <1>1, <1>6, <1>7, <1>8, <2>1, <2>2, SizeNat DEF GoesOn
<1>10. GoroutinesFit' /\ Completed'
  BY <1>2, <1>9, AloneCredited
<1>11. Totalled'
  BY <1>2, <1>5, <1>6, <1>9, AloneListed DEF Is
<1> QED
  BY <1>2, <1>3, <1>10, <1>11 DEF CreditInv

\* What a copy may leave in the .part file.
LEMMA PartFits ==
  ASSUME CreditInv, NEW p \in Pulls, NEW l \in Layers, NEW part, SetPart(p, l, part),
         part.n <= Size[l]
  PROVE  PartsFit'
<1>1. file \in [Layouts -> [Layers -> [blob : Blobs, part : [n : Nat, bad : BOOLEAN]]]]
  BY DEF CreditInv, LayerInv, FilesTyped
<1>2. LayoutOf[p] \in Layouts
  BY LayerFetchAssumption
<1> DEFINE d == LayoutOf[p]
           f == [file[d][l] EXCEPT !.part = part]
<1>3. file' = [file EXCEPT ![d][l] = f] /\ f.part = part
  BY <1>1, <1>2 DEF SetPart
<1> HIDE DEF d, f
<1>4. \A e \in Layouts, m \in Layers :
        file'[e][m] = IF e = d /\ m = l THEN f ELSE file[e][m]
  BY <1>1, <1>3
<1> QED
  BY <1>3, <1>4 DEF CreditInv, PartsFit

\* The pieces of a layer as they arrive: first those that had arrived before.
LEMMA CopyCredits ==
  ASSUME CreditInv, NEW p \in Pulls, NEW l \in LayersOf[p],
         (Fetch(p, l) /\ ~Exists(p, l)) \/ Copy(p, l)
  PROVE  CreditInv'
<1>1. l \in Layers /\ LayoutOf[p] \in Layouts
  BY LayerFetchAssumption
<1>2. LayerInv'
  BY <1>1, FetchingKeeps DEF CreditInv
<1>3. /\ task[p][l].pc \in {"fetching", "copying"} /\ task[p][l].n \in Nat
      /\ task[p][l].pc = "fetching" => task[p][l].n = 0
      /\ Credits(p)[l] = task[p][l].n
  <2>1. task[p][l].pc \in {"fetching", "copying"} /\ task[p][l].n \in Nat
    BY <1>1 DEF Fetch, Copy, Is, CreditInv, LayerInv, TasksTyped
  <2> QED
    BY <2>1, <1>1, CreditIs DEF CreditInv, GoroutinesFit, Uncredited, Is, CreditOf
<1>4. task \in [Pulls -> [Layers -> [pc : TaskPCs, n : Nat]]]
  BY DEF CreditInv, LayerInv, TasksTyped
<1>5. \E n \in Nat, k \in Nat, part \in [n : Nat, bad : BOOLEAN] :
        /\ n = task[p][l].n + k /\ n <= Size[l] /\ part.n = n
        /\ SetPart(p, l, part)
        /\ task' = [task EXCEPT ![p][l] = [pc |-> "copying", n |-> n]]
        /\ pull' = [pull EXCEPT ![p].completed = @ + k]
  <2>1. CASE Fetch(p, l) /\ ~Exists(p, l)
    <3>1. PICK part \in {NoPart, PartOf(p, l)} :
            /\ SetPart(p, l, part)
            /\ task' = [task EXCEPT ![p][l] = [pc |-> "copying", n |-> part.n]]
            /\ pull' = [pull EXCEPT ![p].completed = @ + part.n]
      BY <2>1 DEF Fetch
    <3>5. part \in [n : Nat, bad : BOOLEAN]
      <4>1. NoPart \in [n : Nat, bad : BOOLEAN]
        BY DEF NoPart
      <4>2. PartOf(p, l) \in [n : Nat, bad : BOOLEAN]
        BY <1>1 DEF PartOf, CreditInv, LayerInv, FilesTyped
      <4> QED
        BY <3>1, <4>1, <4>2
    <3>2. part.n \in Nat /\ part.n <= Size[l]
      BY <1>1, SizeNat DEF NoPart, PartOf, CreditInv, PartsFit, LayerInv, FilesTyped
    <3>3. task[p][l].n = 0
      BY <2>1, <1>3 DEF Fetch, Is
    <3>4. part.n = task[p][l].n + part.n
      BY <3>2, <3>3
    <3> QED
      BY <3>1, <3>2, <3>4, <3>5, Zenon
  <2>2. CASE Copy(p, l)
    <3>1. PICK bad \in BOOLEAN :
            /\ SetPart(p, l, [n |-> task[p][l].n + 1, bad |-> PartOf(p, l).bad \/ bad])
            /\ task' = [task EXCEPT ![p][l].n = @ + 1]
            /\ pull' = [pull EXCEPT ![p].completed = @ + 1]
      BY <2>2 DEF Copy
    <3>2. task[p][l].pc = "copying" /\ task[p][l].n < Size[l]
      BY <2>2 DEF Copy, Is
    <3>3. task' = [task EXCEPT ![p][l] = [pc |-> "copying", n |-> task[p][l].n + 1]]
      <4>1. [task[p][l] EXCEPT !.n = @ + 1] = [pc |-> "copying", n |-> task[p][l].n + 1]
        BY <3>2, <1>1, <1>4
      <4>2. task' = [task EXCEPT ![p][l] = [task[p][l] EXCEPT !.n = @ + 1]]
        BY <3>1, <1>4
      <4> QED
        BY <4>1, <4>2
    <3>4. PICK n \in Nat : n = task[p][l].n + 1
      BY <1>3
    <3>7. PICK k \in Nat : k = 1
      OBVIOUS
    <3>8. PICK part \in [n : Nat, bad : BOOLEAN] :
            part = [n |-> n, bad |-> PartOf(p, l).bad \/ bad]
      BY <1>1 DEF PartOf, CreditInv, LayerInv, FilesTyped
    <3>5. n = task[p][l].n + k /\ n <= Size[l] /\ part.n = n
      BY <3>2, <3>4, <3>7, <3>8, <1>1, <1>3, SizeNat
    <3>6. /\ SetPart(p, l, part)
          /\ task' = [task EXCEPT ![p][l] = [pc |-> "copying", n |-> n]]
          /\ pull' = [pull EXCEPT ![p].completed = @ + k]
      BY <3>1, <3>3, <3>4, <3>7, <3>8
    <3> QED
      BY <3>5, <3>6
  <2> QED
    BY <2>1, <2>2
<1>6. PICK n \in Nat, k \in Nat, part \in [n : Nat, bad : BOOLEAN] :
        /\ n = task[p][l].n + k /\ n <= Size[l] /\ part.n = n
        /\ SetPart(p, l, part)
        /\ task' = [task EXCEPT ![p][l] = [pc |-> "copying", n |-> n]]
        /\ pull' = [pull EXCEPT ![p].completed = @ + k]
  BY <1>5
<1>7. PartsFit'
  BY <1>1, <1>6, PartFits
<1> DEFINE t == [pc |-> "copying", n |-> n]
<1>8. /\ t \in [pc : TaskPCs, n : Nat] /\ t.pc = "copying" /\ t.n = n
      /\ task' = [task EXCEPT ![p][l] = t]
  BY <1>6 DEF TaskPCs
<1> HIDE DEF t
<1>9. \A q \in Pulls : /\ pull'[q].completed =
                           IF q = p THEN pull[q].completed + k ELSE pull[q].completed
                       /\ pull'[q].total = pull[q].total
  BY <1>6 DEF CreditInv, LayerInv, PullsTyped
<1>10. GoesOn(p, l, t, k)
  BY <1>3, <1>6, <1>8, <1>9 DEF GoesOn, CreditOf, Uncredited
<1>11. GoroutinesFit' /\ Completed'
  BY <1>2, <1>10, AloneCredited
<1>12. Totalled'
  BY <1>3, <1>8, <1>9, <1>10, AloneListed DEF Is
<1> QED
  BY <1>2, <1>7, <1>11, <1>12 DEF CreditInv

\* A fetch pays for those who joined it, and is paid for already.
LEMMA ResultCredits ==
  ASSUME CreditInv, LayerInv', NEW p \in Pulls, NEW l \in LayersOf[p],
         Is(p, l, {"fetching", "copying"}), NEW pc \in {"ok", "found", "failed"}, NEW n \in Nat,
         n = task[p][l].n, pc = "ok" => n = Size[l], pc = "found" => n = 0,
         Result(p, l, pc, n)
  PROVE  GoroutinesFit' /\ Completed' /\ Totalled'
<1>1. task \in [Pulls -> [Layers -> [pc : TaskPCs, n : Nat]]] /\ l \in Layers
  BY LayerFetchAssumption DEF CreditInv, LayerInv, TasksTyped
<1>2. Size[l] \in Nat /\ n <= Size[l]
  BY <1>1, SizeNat DEF CreditInv, GoroutinesFit
<1> DEFINE to == IF pc = "failed" THEN "failed" ELSE "ok"
           next(q, m) == IF <<q, m>> = <<p, l>> THEN [pc |-> pc, n |-> n]
                         ELSE IF <<q, m>> \in Joined(p, l)
                              THEN [task[q][m] EXCEPT !.pc = to] ELSE task[q][m]
<1>3. \A q \in Pulls, m \in Layers : task'[q][m] = next(q, m)
  BY DEF Result
<1>4. \A q \in Pulls, m \in Layers : <<q, m>> \in Joined(p, l) =>
        task[q][m].pc = "joined" /\ m = l /\ task[q][m].n = 0 /\ m \in LayersOf[q]
  BY DEF Joined, Key, Is, CreditInv, GoroutinesFit, Uncredited
<1>5. task[p][l].pc \in {"fetching", "copying"}
  BY DEF Is
<1>6. \A q \in Pulls, m \in Layers :
        /\ next(q, m).pc = IF q = p /\ m = l THEN pc
                           ELSE IF <<q, m>> \in Joined(p, l) THEN to ELSE task[q][m].pc
        /\ next(q, m).n = task[q][m].n
  BY <1>1
<1> HIDE DEF next
<1>7. GoroutinesFit'
  <2> SUFFICES ASSUME NEW q \in Pulls, NEW m \in Layers
               PROVE  /\ task'[q][m].n <= Size[m]
                      /\ task'[q][m].pc \in Uncredited => task'[q][m].n = 0
                      /\ m \notin LayersOf[q] => task'[q][m].pc = "none"
    BY DEF GoroutinesFit, Is
  <2>1. /\ task'[q][m].n = task[q][m].n
        /\ task'[q][m].pc = IF q = p /\ m = l THEN pc
                            ELSE IF <<q, m>> \in Joined(p, l) THEN to ELSE task[q][m].pc
    BY <1>3, <1>6
  <2>2. /\ task[q][m].n <= Size[m]
        /\ task[q][m].pc \in Uncredited => task[q][m].n = 0
        /\ m \notin LayersOf[q] => task[q][m].pc = "none"
    BY DEF CreditInv, GoroutinesFit, Is
  <2>3. to \notin Uncredited /\ (pc \in Uncredited => pc = "found")
    BY DEF Uncredited
  <2> HIDE DEF to
  <2> QED
    BY <2>1, <2>2, <2>3, <1>4, <1>5
<1>8. \A q \in Pulls, m \in Layers :
        /\ Credits(q)[m] = CreditOf(m, task[q][m]) /\ Credits(q)[m] \in Nat
        /\ Credits(q)'[m] = CreditOf(m, task'[q][m])
  BY CreditIs, CreditIsNext DEF CreditInv
<1>9. \A q \in Pulls, m \in Layers : Credits(q)'[m] =
        IF <<q, m>> \in Joined(p, l) /\ pc # "failed" THEN Credits(q)[m] + Size[l]
        ELSE Credits(q)[m]
  <2> SUFFICES ASSUME NEW q \in Pulls, NEW m \in Layers
               PROVE  Credits(q)'[m] =
                 IF <<q, m>> \in Joined(p, l) /\ pc # "failed" THEN Credits(q)[m] + Size[l]
                 ELSE Credits(q)[m]
    OBVIOUS
  <2>1. /\ task'[q][m].n = task[q][m].n
        /\ task'[q][m].pc = IF q = p /\ m = l THEN pc
                            ELSE IF <<q, m>> \in Joined(p, l) THEN to ELSE task[q][m].pc
    BY <1>3, <1>6
  <2>2. CASE q = p /\ m = l
    <3>1. <<q, m>> \notin Joined(p, l)
      BY <2>2, <1>4, <1>5
    <3> QED
      BY <2>1, <2>2, <3>1, <1>5, <1>8 DEF CreditOf
  <2>3. CASE ~(q = p /\ m = l) /\ <<q, m>> \in Joined(p, l)
    <3>1. task[q][m].pc = "joined" /\ task[q][m].n = 0 /\ m = l
      BY <2>3, <1>4
    <3>2. task'[q][m].pc = to /\ task'[q][m].n = 0
      BY <2>1, <2>3, <3>1
    <3> QED
      BY <2>3, <3>1, <3>2, <1>2, <1>8 DEF CreditOf
  <2>4. CASE ~(q = p /\ m = l) /\ <<q, m>> \notin Joined(p, l)
    BY <2>1, <2>4, <1>8 DEF CreditOf
  <2> QED
    BY <2>2, <2>3, <2>4
<1>10. \A q \in Pulls :
         /\ pull'[q].total = pull[q].total
         /\ pull'[q].completed = IF pc # "failed" /\ <<q, l>> \in Joined(p, l)
                                 THEN pull[q].completed + Size[l] ELSE pull[q].completed
  <2>1. pull' = [q \in Pulls |->
          IF pc # "failed" /\ <<q, l>> \in Joined(p, l)
          THEN [pull[q] EXCEPT !.completed = @ + Size[l]] ELSE pull[q]]
    BY DEF Result
  <2> QED
    BY <2>1 DEF CreditInv, LayerInv, PullsTyped
<1>11. ASSUME NEW q \in Pulls PROVE Unpaid(q) \/ Paid(q)
  <2>1. CASE pc # "failed" /\ <<q, l>> \in Joined(p, l)
    <3>1. /\ Credits(q)'[l] = Credits(q)[l] + Size[l]
          /\ pull'[q].completed = pull[q].completed + Size[l]
      BY <2>1, <1>1, <1>9, <1>10
    <3>2. \A m \in Layers : m # l => Credits(q)'[m] = Credits(q)[m]
      BY <1>4, <1>9
    <3>3. l \in LayersOf[q]
      BY <2>1, <1>1, <1>4
    <3> QED
      BY <3>1, <3>2, <3>3, <1>2 DEF Paid
  <2>2. CASE ~(pc # "failed" /\ <<q, l>> \in Joined(p, l))
    BY <2>2, <1>4, <1>9, <1>10 DEF Unpaid
  <2> QED
    BY <2>1, <2>2
<1>12. Completed'
  BY <1>7, <1>11, PaymentsAdd
<1>13. Totalled'
  <2>1. \A q \in Pulls : \A m \in LayersOf[q] :
          task'[q][m].pc \in {"none", "cached"} <=> task[q][m].pc \in {"none", "cached"}
    <3> SUFFICES ASSUME NEW q \in Pulls, NEW m \in Layers
                 PROVE  task'[q][m].pc \in {"none", "cached"} <=>
                          task[q][m].pc \in {"none", "cached"}
      BY LayerFetchAssumption
    <3>1. task'[q][m].pc = IF q = p /\ m = l THEN pc
                           ELSE IF <<q, m>> \in Joined(p, l) THEN to ELSE task[q][m].pc
      BY <1>3, <1>6
    <3>2. to \notin {"none", "cached"}
      OBVIOUS
    <3> HIDE DEF to
    <3> QED
      BY <3>1, <3>2, <1>4, <1>5
  <2> QED
    BY <2>1, <1>10, ListedStays DEF CreditInv
<1> QED
  BY <1>7, <1>12, <1>13

\* Another pull's fetch had ended before this one began.
LEMMA FoundCredits ==
  ASSUME CreditInv, NEW p \in Pulls, NEW l \in LayersOf[p], Fetch(p, l), Exists(p, l)
  PROVE  CreditInv'
<1>1. l \in Layers
  BY LayerFetchAssumption
<1>2. LayerInv'
  BY <1>1, FetchingKeeps DEF CreditInv
<1>3. Is(p, l, {"fetching", "copying"}) /\ Result(p, l, "found", 0) /\ UNCHANGED file
  BY DEF Fetch, Is
<1>4. task[p][l].n = 0
  BY <1>1 DEF Fetch, Is, CreditInv, GoroutinesFit, Uncredited
<1>5. GoroutinesFit' /\ Completed' /\ Totalled'
  BY <1>2, <1>3, <1>4, ResultCredits
<1> QED
  BY <1>2, <1>3, <1>5 DEF CreditInv, PartsFit

LEMMA BreakCredits ==
  ASSUME CreditInv, NEW p \in Pulls, NEW l \in LayersOf[p], Break(p, l)
  PROVE  CreditInv'
<1>1. l \in Layers
  BY LayerFetchAssumption
<1>2. LayerInv'
  BY <1>1, BreakKeeps DEF CreditInv
<1>3. Is(p, l, {"fetching", "copying"}) /\ Result(p, l, "failed", task[p][l].n)
  BY DEF Break
<1>4. PICK n \in Nat : n = task[p][l].n
  BY <1>1 DEF CreditInv, LayerInv, TasksTyped
<1>5. GoroutinesFit' /\ Completed' /\ Totalled'
  BY <1>2, <1>3, <1>4, ResultCredits
<1>6. PartsFit'
  <2>1. CASE SetPart(p, l, NoPart)
    <3>1. NoPart.n <= Size[l]
      BY <1>1, SizeNat DEF NoPart
    <3> QED
      BY <1>1, <2>1, <3>1, PartFits
  <2>2. CASE UNCHANGED file
    BY <2>2 DEF CreditInv, PartsFit
  <2> QED
    BY <2>1, <2>2 DEF Break
<1> QED
  BY <1>2, <1>5, <1>6 DEF CreditInv

LEMMA VerifyCredits ==
  ASSUME CreditInv, NEW p \in Pulls, NEW l \in LayersOf[p], Verify(p, l)
  PROVE  CreditInv'
<1>1. l \in Layers /\ LayoutOf[p] \in Layouts
  BY LayerFetchAssumption
<1>2. LayerInv'
  BY <1>1, VerifyKeeps DEF CreditInv
<1>3. PICK pc \in {"ok", "found", "failed"} : pc # "found" /\ Result(p, l, pc, Size[l])
  BY DEF Verify
<1>4. Is(p, l, {"fetching", "copying"}) /\ task[p][l].n = Size[l]
  BY DEF Verify, Is
<1>5. PICK n \in Nat : n = Size[l]
  BY <1>1, SizeNat
<1>6. GoroutinesFit' /\ Completed' /\ Totalled'
  BY <1>2, <1>3, <1>4, <1>5, ResultCredits
<1>7. PartsFit'
  <2>1. file \in [Layouts -> [Layers -> [blob : Blobs, part : [n : Nat, bad : BOOLEAN]]]]
    BY DEF CreditInv, LayerInv, FilesTyped
  <2>2. PICK f : f.part = NoPart /\ file' = [file EXCEPT ![LayoutOf[p]][l] = f]
    BY DEF Verify
  <2>3. \A d \in Layouts, m \in Layers :
          file'[d][m] = IF d = LayoutOf[p] /\ m = l THEN f ELSE file[d][m]
    BY <2>1, <2>2, <1>1
  <2>4. \A m \in Layers : NoPart.n <= Size[m]
    BY SizeNat DEF NoPart
  <2> QED
    BY <2>2, <2>3, <2>4 DEF CreditInv, PartsFit
<1> QED
  BY <1>2, <1>6, <1>7 DEF CreditInv

\* A pull begins, waits, or ends: nothing is credited.
LEMMA PullCredits ==
  ASSUME CreditInv, NEW p \in Pulls, Start(p) \/ GroupWait(p) \/ ProgressWait(p)
  PROVE  CreditInv'
<1>1. LayerInv' /\ UNCHANGED <<task, file>>
  BY PullKeeps DEF CreditInv, Start, GroupWait, ProgressWait
<1>2. PICK pc : pull' = [pull EXCEPT ![p].pc = pc]
  BY DEF Start, GroupWait, ProgressWait
<1>3. \A q \in Pulls : pull'[q].completed = pull[q].completed /\ pull'[q].total = pull[q].total
  BY <1>2 DEF CreditInv, LayerInv, PullsTyped
<1>4. PartsFit' /\ GoroutinesFit'
  BY <1>1 DEF CreditInv, PartsFit, GoroutinesFit, Is
<1>5. Completed'
  BY <1>1, <1>3 DEF CreditInv, Completed, Credits, Is
<1>6. Totalled'
  BY <1>1, <1>3 DEF CreditInv, Totalled, Listed, Is
<1> QED
  BY <1>1, <1>4, <1>5, <1>6 DEF CreditInv

LEMMA NothingStacked ==
  ASSUME NEW ls, NEW c, \A l \in Layers : c[l] = 0
  PROVE  Cardinality(Stack(ls, c)) = 0 /\ Cardinality(Pieces({})) = 0
<1>1. Stack(ls, c) = {} /\ Pieces({}) = {}
  BY DEF Stack, Pieces
<1> QED
  BY <1>1, FS_EmptySet

LEMMA InitCredits == LayerInit => CreditInv
<1> SUFFICES ASSUME LayerInit PROVE CreditInv
  OBVIOUS
<1>1. PartsFit
  BY SizeNat DEF LayerInit, PartsFit, NoPart
<1>2. GoroutinesFit
  BY SizeNat DEF LayerInit, GoroutinesFit, NoTask, Is
<1>3. ASSUME NEW p \in Pulls
      PROVE  /\ pull[p].completed = Cardinality(Stack(LayersOf[p], Credits(p)))
             /\ pull[p].total = Cardinality(Pieces(Listed(p)))
  <2>1. Listed(p) = {} /\ \A l \in Layers : Credits(p)[l] = 0
    BY LayerFetchAssumption DEF LayerInit, Listed, Credits, NoTask, Is
  <2>2. pull[p].completed = 0 /\ pull[p].total = 0
    BY DEF LayerInit, NewPull
  <2> QED
    BY <2>1, <2>2, NothingStacked
<1> QED
  BY <1>1, <1>2, <1>3, InitLayer DEF CreditInv, Completed, Totalled

\* A pull that is cut off starts from nothing; one that had ended stays.
LEMMA RestartCredits ==
  ASSUME CreditInv, Restart
  PROVE  CreditInv'
<1>1. LayerInv'
  BY RestartKeeps DEF CreditInv
<1>2. PartsFit'
  BY DEF CreditInv, PartsFit, Restart
<1>3. ASSUME NEW p \in Pulls
      PROVE  /\ pull'[p] = IF Unfinished(p) THEN NewPull ELSE pull[p]
             /\ task'[p] = IF Unfinished(p) THEN [l \in Layers |-> NoTask] ELSE task[p]
  BY DEF Restart
<1>4. GoroutinesFit'
  <2> SUFFICES ASSUME NEW p \in Pulls, NEW l \in Layers
               PROVE  /\ task'[p][l].n <= Size[l]
                      /\ task'[p][l].pc \in Uncredited => task'[p][l].n = 0
                      /\ l \notin LayersOf[p] => task'[p][l].pc = "none"
    BY DEF GoroutinesFit, Is
  <2>1. CASE Unfinished(p)
    BY <2>1, <1>3, SizeNat DEF NoTask
  <2>2. CASE ~Unfinished(p)
    BY <2>2, <1>3 DEF CreditInv, GoroutinesFit, Is
  <2> QED
    BY <2>1, <2>2
<1>5. ASSUME NEW p \in Pulls
      PROVE  /\ pull'[p].completed = Cardinality(Stack(LayersOf[p], Credits(p)'))
             /\ pull'[p].total = Cardinality(Pieces(Listed(p)'))
  <2>1. CASE Unfinished(p)
    <3>1. Listed(p)' = {} /\ \A l \in Layers : Credits(p)'[l] = 0
      BY <2>1, <1>3, LayerFetchAssumption DEF Listed, Credits, NoTask, Is
    <3>2. pull'[p].completed = 0 /\ pull'[p].total = 0
      BY <2>1, <1>3 DEF NewPull
    <3> QED
      BY <3>1, <3>2, NothingStacked
  <2>2. CASE ~Unfinished(p)
    <3>1. Listed(p)' = Listed(p) /\ Credits(p)' = Credits(p)
      BY <2>2, <1>3 DEF Listed, Credits, Is
    <3> QED
      BY <2>2, <3>1, <1>3 DEF CreditInv, Completed, Totalled
  <2> QED
    BY <2>1, <2>2
<1> QED
  BY <1>1, <1>2, <1>4, <1>5 DEF CreditInv, Completed, Totalled

LEMMA CreditsCounted ==
  ASSUME CreditInv, NEW p \in Pulls
  PROVE  /\ pull[p].completed <= pull[p].total
         /\ pull[p].pc = "draining" /\ ~Cancelled(p) =>
              pull[p].completed = SumOver({l \in LayersOf[p] : Is(p, l, {"ok"})})
<1>1. Listed(p) \in SUBSET Layers /\ IsFiniteSet(Listed(p))
  BY LayerFetchAssumption, FS_Subset DEF Listed
<1>2. \A l \in Layers : Credits(p)[l] = CreditOf(l, task[p][l]) /\ Credits(p)[l] \in Nat
  BY CreditIs DEF CreditInv
<1>3. IsFiniteSet(Pieces(Listed(p))) /\ Cardinality(Pieces(Listed(p))) = pull[p].total
  BY <1>1, SumCountsPieces DEF CreditInv, Totalled
<1>4. pull[p].completed <= pull[p].total
  <2>1. ASSUME NEW l \in LayersOf[p], NEW i \in Nat, i \in 1..Credits(p)[l]
        PROVE  l \in Listed(p) /\ i \in 1..Size[l]
    <3>1. l \in Layers /\ Size[l] \in Nat /\ Credits(p)[l] <= Size[l] /\ Credits(p)[l] \in Nat
      BY LayerFetchAssumption, SizeNat, CreditsTyped DEF CreditInv
    <3>2. Credits(p)[l] # 0
      BY <2>1, <3>1
    <3>3. task[p][l].pc \notin {"none", "cached"}
      BY <3>1, <3>2, <1>2 DEF CreditOf, CreditInv, GoroutinesFit, Is, Uncredited
    <3> QED
      BY <2>1, <3>1, <3>3 DEF Listed, Is
  <2>2. Stack(LayersOf[p], Credits(p)) \in SUBSET Pieces(Listed(p))
    BY <2>1 DEF Stack, Pieces
  <2> QED
    BY <1>3, <2>2, FS_Subset DEF CreditInv, Completed
<1>5. ASSUME pull[p].pc = "draining", ~Cancelled(p)
      PROVE  pull[p].completed = SumOver({l \in LayersOf[p] : Is(p, l, {"ok"})})
  <2> DEFINE done == {l \in LayersOf[p] : Is(p, l, {"ok"})}
  <2>1. \A l \in LayersOf[p] : task[p][l].pc \in There
    BY <1>5 DEF CreditInv, LayerInv, Ended, Cancelled, Is, Final, There
  <2>2. \A l \in LayersOf[p] : Credits(p)[l] = IF l \in done THEN Size[l] ELSE 0
    BY <2>1, <1>2, LayerFetchAssumption
       DEF There, CreditOf, Is, CreditInv, GoroutinesFit, Uncredited
  <2>3. done \in SUBSET Layers /\ IsFiniteSet(done)
    BY LayerFetchAssumption, FS_Subset
  <2>4. done \in SUBSET LayersOf[p]
    OBVIOUS
  <2> HIDE DEF done
  <2>5. Stack(LayersOf[p], Credits(p)) = Pieces(done)
    BY <2>2, <2>4 DEF Stack, Pieces
  <2>6. pull[p].completed = SumOver(done)
    BY <2>3, <2>5, SumCountsPieces DEF CreditInv, Completed
  <2> QED
    BY <2>6 DEF done
<1> QED
  BY <1>4, <1>5

\* A pull is credited once for each layer it lacked, by its own fetch or by
\* one it joined, and never for more than it lacks, for any manifests, any
\* sizes, any number of pulls sharing fetches and of restarts
\* (shared_oci.go, dedupBlobFetch).
THEOREM CreditsKept == LayerSpec => []CreditedOnce
<1>1. CreditInv /\ [LayerNext]_layerVars => CreditInv'
  <2> SUFFICES ASSUME CreditInv, [LayerNext]_layerVars PROVE CreditInv'
    OBVIOUS
  <2>1. ASSUME NEW p \in Pulls, Start(p) PROVE CreditInv'
    BY <2>1, PullCredits
  <2>2. ASSUME NEW p \in Pulls, NEW l \in LayersOf[p], LayerStep(p, l) PROVE CreditInv'
    <3>1. CASE List(p, l) \/ Launch(p, l) \/ Do(p, l)
      BY <3>1, ListCredits, LaunchCredits
    <3>2. CASE Fetch(p, l) \/ Copy(p, l)
      BY <3>2, FoundCredits, CopyCredits
    <3>3. CASE Break(p, l) \/ Verify(p, l)
      BY <3>3, BreakCredits, VerifyCredits
    <3> QED
      BY <2>2, <3>1, <3>2, <3>3 DEF LayerStep
  <2>3. ASSUME NEW p \in Pulls, PullStep(p) PROVE CreditInv'
    BY <2>3, <2>2, PullCredits DEF PullStep
  <2>4. CASE Restart
    BY <2>4, RestartCredits
  <2>5. CASE UNCHANGED layerVars
    <3>1. LayerInv'
      BY <2>5 DEF layerVars, CreditInv, LayerInv, FilesTyped, TasksTyped, PullsTyped, ToldTrue,
                  Ended, Is, Exists
    <3>2. UNCHANGED <<pull, task, file>>
      BY <2>5 DEF layerVars
    <3> QED
      BY <3>1, <3>2 DEF CreditInv, PartsFit, GoroutinesFit, Completed, Totalled, Credits,
                        Listed, Is
  <2> QED
    BY <2>1, <2>3, <2>4, <2>5 DEF LayerNext
<1>2. CreditInv => CreditedOnce
  BY CreditsCounted DEF CreditedOnce
<1> QED
  BY <1>1, <1>2, InitCredits, PTL DEF LayerSpec

(***************************************************************************)
(* Starting the daemon                                                     *)
(***************************************************************************)

\* Where a client goes on from a daemon it has read the pid of.
Replacing == {"term", "waitfree", "kill", "waitagain", "name"}

\* A client replaces the stale daemon only, and never spawned it.
ClientFit(cl) ==
  /\ cl \in ClientStates
  /\ cl.pc \in Replacing => cl.stale = Stale
  /\ cl.pc \in Waiting => cl.child # None
  /\ cl.child # Stale

\* What a client has seen of the processes stays true: it spawns after it
\* has seen the port free, and a child that has exited stays so.
Sees(cl, pr, mis) ==
  /\ cl.pc = "spawn" \/ cl.child # None => pr[Stale] = "gone"
  /\ cl.pc = "lost" => pr[cl.child] = "gone"
  /\ cl.result = "exited" => mis

ClientsFit ==
  /\ client \in [Clients -> ClientStates]
  /\ \A c \in Clients : ClientFit(client[c]) /\ Sees(client[c], proc, mishap)

ProcessesTyped ==
  /\ proc \in [Daemons -> ProcStates]
  /\ fetch \in [Daemons -> Fetches]
  /\ marker \in 0..Absent
  /\ mishap \in BOOLEAN

\* Nothing but the stale daemon is there while it holds the port.
StaleFirst ==
  /\ proc[Stale] \in {"serving", "stopping", "gone"}
  /\ \A d \in Daemons : d # Stale => proc[d] # "stopping"
  /\ proc[Stale] # "gone" => \A d \in Daemons : d # Stale => proc[d] = "unused"

\* Who has gone for no mishap has lost the port to one that still serves.
LostToServer == ~mishap =>
  \A d \in Daemons : d # Stale /\ proc[d] = "gone" => \E e \in Daemons : proc[e] = "serving"

StartupInv == ProcessesTyped /\ StaleFirst /\ LostToServer /\ ClientsFit

LEMMA NewClientTyped ==
  /\ NewClient \in ClientStates
  /\ NewClient.child = None /\ NewClient.pc = "probe" /\ NewClient.result = "none"
BY StartupAssumption DEF NewClient, ClientStates, PCs, Waiting, Results

LEMMA NewClientFits ==
  ASSUME NEW result \in Results, NEW pr, NEW mis, result = "exited" => mis
  PROVE  LET cl == [NewClient EXCEPT !.pc = "done", !.result = result]
         IN  ClientFit(cl) /\ Sees(cl, pr, mis)
<1> DEFINE cl == [NewClient EXCEPT !.pc = "done", !.result = result]
<1>1. cl \in ClientStates
  BY NewClientTyped DEF ClientStates, PCs
<1>2. cl.pc = "done" /\ cl.child = None /\ cl.result = result
  BY NewClientTyped DEF ClientStates
<1> HIDE DEF cl
<1>3. ClientFit(cl)
  BY <1>1, <1>2, StartupAssumption DEF ClientFit, Waiting, Replacing
<1>4. cl.pc # "spawn" /\ cl.pc # "lost"
  BY <1>2
<1>5. Sees(cl, pr, mis)
  BY <1>2, <1>4, Zenon DEF Sees
<1> QED
  BY <1>3, <1>5 DEF cl

LEMMA NoFetchTyped == NoFetch \in Fetches
<1>1. 0 \in 0..1 /\ 0 \in 0..2 /\ MaxFetches \in 0..MaxFetches
  BY StartupAssumption
<1> QED
  BY <1>1, Zenon DEF NoFetch, Fetches

LEMMA NoFetchLeft ==
  ASSUME NEW n \in 0..MaxFetches
  PROVE  [NoFetch EXCEPT !.left = n] \in Fetches
BY NoFetchTyped DEF Fetches

LEMMA InitStartup == StartupInit => StartupInv
<1> SUFFICES ASSUME StartupInit PROVE StartupInv
  OBVIOUS
<1>1. ProcessesTyped
  <2>1. Absent \in 0..Absent
    BY StartupAssumption DEF Absent
  <2>2. proc \in [Daemons -> ProcStates]
    BY DEF StartupInit, ProcStates
  <2> QED
    BY <2>1, <2>2, NoFetchTyped DEF StartupInit, ProcessesTyped
<1>2. StaleFirst /\ LostToServer
  BY StartupAssumption DEF StartupInit, StaleFirst, LostToServer
<1>4. ClientFit(NewClient) /\ Sees(NewClient, proc, mishap)
  BY NewClientTyped, StartupAssumption DEF ClientFit, Sees, Waiting, Replacing
<1>5. ClientsFit
  BY NewClientTyped, <1>4 DEF StartupInit, ClientsFit
<1> QED
  BY <1>1, <1>2, <1>5 DEF StartupInv

\* What a client has seen it has seen for good: no process that is gone
\* comes back, and a mishap is not forgotten.
NoneReturns ==
  /\ \A d \in Daemons : proc[d] = "gone" => proc'[d] = "gone"
  /\ mishap => mishap'

LEMMA SeenForGood ==
  ASSUME StartupInv, NoneReturns, NEW c \in Clients
  PROVE  Sees(client[c], proc', mishap')
<1>1. ClientFit(client[c]) /\ Sees(client[c], proc, mishap)
  BY DEF StartupInv, ClientsFit
<1> QED
  BY <1>1, StartupAssumption
     DEF NoneReturns, Sees, ClientFit, ClientStates, Waiting

\* A step that moves one client, to a state that fits what there is now.
LEMMA ClientMoves ==
  ASSUME StartupInv, NoneReturns, NEW c \in Clients, NEW cl,
         client' = [client EXCEPT ![c] = cl],
         ClientFit(cl), Sees(cl, proc', mishap')
  PROVE  ClientsFit'
<1>1. client' \in [Clients -> ClientStates]
  BY DEF StartupInv, ClientsFit, ClientFit
<1>2. \A b \in Clients : ClientFit(client[b]) /\ Sees(client[b], proc', mishap')
  BY SeenForGood DEF StartupInv, ClientsFit
<1>3. \A b \in Clients : client'[b] = IF b = c THEN cl ELSE client[b]
  BY DEF StartupInv, ClientsFit
<1>4. \A b \in Clients : ClientFit(client'[b]) /\ Sees(client'[b], proc', mishap')
  BY <1>2, <1>3
<1> QED
  BY <1>1, <1>4 DEF ClientsFit

LEMMA ClientsStay ==
  ASSUME StartupInv, NoneReturns, client' = client
  PROVE  ClientsFit'
BY SeenForGood DEF StartupInv, ClientsFit

LEMMA QuietFits ==
  ASSUME StartupInv, Quiet
  PROVE  (ProcessesTyped /\ StaleFirst /\ LostToServer)' /\ NoneReturns
BY DEF StartupInv, Quiet, ProcessesTyped, StaleFirst, LostToServer, NoneReturns

LEMMA GoFits ==
  ASSUME StartupInv, NoneReturns, NEW c \in Clients, NEW pc \in PCs, Go(c, pc),
         pc \in Replacing => client[c].stale = Stale,
         pc \in Waiting => client[c].child # None,
         pc = "spawn" => proc'[Stale] = "gone",
         pc = "lost" => proc'[client[c].child] = "gone"
  PROVE  ClientsFit'
<1> DEFINE cl == [client[c] EXCEPT !.pc = pc]
<1>1. client[c] \in ClientStates /\ ClientFit(client[c]) /\ Sees(client[c], proc', mishap')
  BY SeenForGood DEF StartupInv, ClientsFit
<1>2. ClientFit(cl) /\ Sees(cl, proc', mishap')
  BY <1>1 DEF ClientFit, Sees, ClientStates
<1>3. client' = [client EXCEPT ![c] = cl]
  BY DEF Go
<1> HIDE DEF cl
<1> QED
  BY <1>2, <1>3, ClientMoves

LEMMA ReturnFits ==
  ASSUME StartupInv, NoneReturns, NEW c \in Clients, NEW result \in Results,
         Return(c, result), result = "exited" => mishap'
  PROVE  ClientsFit'
<1> DEFINE cl == [NewClient EXCEPT !.pc = "done", !.result = result]
<1>1. ClientFit(cl) /\ Sees(cl, proc', mishap')
  BY NewClientFits
<1>2. client' = [client EXCEPT ![c] = cl]
  BY DEF Return
<1> HIDE DEF cl
<1> QED
  BY <1>1, <1>2, ClientMoves

LEMMA PortFree ==
  ASSUME StartupInv, ~Alive
  PROVE  proc[Stale] = "gone"
BY StartupAssumption DEF StartupInv, StaleFirst, Alive, Listening

LEMMA ClientOf ==
  ASSUME StartupInv, NEW c \in Clients
  PROVE  client[c] \in ClientStates /\ ClientFit(client[c]) /\ Sees(client[c], proc, mishap)
BY DEF StartupInv, ClientsFit

\* Before a client has a child it looks at the port and may replace its
\* holder.
LEMMA ReplacingKeeps ==
  ASSUME StartupInv, NEW c \in Clients,
         \/ Probe(c) \/ Identify(c) \/ GiveUp(c)
         \/ WaitForPortFree(c, "waitfree", "kill") \/ WaitForPortFree(c, "waitagain", "name")
  PROVE  StartupInv'
<1> USE DEF At
<1>1. Quiet
  BY DEF Probe, Identify, GiveUp, WaitForPortFree
<1>2. (ProcessesTyped /\ StaleFirst /\ LostToServer)' /\ NoneReturns
  BY <1>1, QuietFits
<1>3. proc' = proc /\ mishap' = mishap
  BY <1>1 DEF Quiet
<1>4. ~Alive => proc'[Stale] = "gone"
  BY <1>3, PortFree
<1>5. ClientFit(client[c]) /\ client[c] \in ClientStates
  BY ClientOf
<1>6. CASE Probe(c)
  <2>1. PICK pc \in {"identify", "spawn"} : Go(c, pc) /\ (pc = "spawn" => ~Alive)
    BY <1>6 DEF Probe
  <2> QED
    BY <2>1, <1>2, <1>4, GoFits DEF StartupInv, PCs, Waiting, Replacing
<1>7. CASE WaitForPortFree(c, "waitfree", "kill")
  <2>1. PICK pc \in {"kill", "spawn"} : Go(c, pc) /\ (pc = "spawn" => ~Alive)
    BY <1>7 DEF WaitForPortFree
  <2>2. client[c].stale = Stale
    BY <1>5, <1>7 DEF WaitForPortFree, ClientFit, Replacing
  <2> QED
    BY <2>1, <2>2, <1>2, <1>4, GoFits DEF StartupInv, PCs, Waiting, Replacing
<1>8. CASE WaitForPortFree(c, "waitagain", "name")
  <2>1. PICK pc \in {"name", "spawn"} : Go(c, pc) /\ (pc = "spawn" => ~Alive)
    BY <1>8 DEF WaitForPortFree
  <2>2. client[c].stale = Stale
    BY <1>5, <1>8 DEF WaitForPortFree, ClientFit, Replacing
  <2> QED
    BY <2>1, <2>2, <1>2, <1>4, GoFits DEF StartupInv, PCs, Waiting, Replacing
<1>9. CASE GiveUp(c)
  BY <1>9, <1>2, ReturnFits DEF GiveUp, StartupInv, Results
<1>10. CASE Identify(c) /\ Return(c, "ok")
  BY <1>10, <1>2, ReturnFits DEF StartupInv, Results
<1>11. CASE Identify(c) /\ ~Return(c, "ok")
  <2> DEFINE cl == [client[c] EXCEPT !.stale = Stale, !.pc = "term"]
  <2>1. Stale \in Answer /\ client' = [client EXCEPT ![c].stale = Stale, ![c].pc = "term"]
    BY <1>11 DEF Identify
  <2>2. client' = [client EXCEPT ![c] = cl]
    BY <2>1, <1>5 DEF StartupInv, ClientsFit
  <2>3. ClientFit(cl)
    BY <1>5, StartupAssumption DEF ClientFit, ClientStates, PCs, Waiting, Replacing
  <2>4. Sees(client[c], proc, mishap)
    BY ClientOf
  <2>5. Sees(cl, proc', mishap')
    BY <2>4, <1>3, <1>5 DEF Sees, ClientStates
  <2> HIDE DEF cl
  <2> QED
    BY <2>2, <2>3, <2>5, <1>2, ClientMoves DEF StartupInv
<1> QED
  BY <1>6, <1>7, <1>8, <1>9, <1>10, <1>11

\* The loop of a client that has spawned, until it returns without stopping
\* its child.
LEMMA WaitingKeeps ==
  ASSUME StartupInv, NEW c \in Clients,
         \/ Poll(c) \/ Look(c) \/ Confirm(c) \/ Lost(c)
         \/ SpentBudget(c) \/ LastExit(c) \/ LastFetch(c)
  PROVE  StartupInv'
<1> USE DEF At
<1>1. Quiet
  BY DEF Poll, Look, Confirm, Lost, SpentBudget, LastExit, LastFetch
<1>2. (ProcessesTyped /\ StaleFirst /\ LostToServer)' /\ NoneReturns
  BY <1>1, QuietFits
<1>3. proc' = proc /\ mishap' = mishap
  BY <1>1 DEF Quiet
<1>4. ClientFit(client[c]) /\ client[c] \in ClientStates /\ Sees(client[c], proc, mishap)
  BY ClientOf
<1>5. client[c].child \in Daemons /\ client[c].child # None
  BY <1>4 DEF ClientFit, ClientStates, Waiting, Poll, Look, Confirm, Lost, SpentBudget,
              LastExit, LastFetch
<1>6. ASSUME NEW pc \in {"poll", "look", "confirm", "exited", "fetching", "stop"}, Go(c, pc)
      PROVE  StartupInv'
  BY <1>2, <1>5, <1>6, GoFits DEF StartupInv, PCs, Waiting, Replacing
<1>7. ASSUME Go(c, "lost"), Exited(c)
      PROVE  StartupInv'
  BY <1>2, <1>3, <1>5, <1>7, GoFits DEF StartupInv, PCs, Waiting, Replacing, Exited
<1>8. ASSUME NEW result \in {"ok", "fetching"}, Return(c, result)
      PROVE  StartupInv'
  BY <1>2, <1>8, ReturnFits DEF StartupInv, Results
<1>9. CASE Poll(c)
  BY <1>9, <1>6 DEF Poll
<1>10. CASE Confirm(c)
  BY <1>10, <1>7, <1>8 DEF Confirm
<1>11. CASE SpentBudget(c)
  BY <1>11, <1>6 DEF SpentBudget
<1>12. CASE LastExit(c)
  BY <1>12, <1>6, <1>7 DEF LastExit
<1>13. CASE LastFetch(c)
  BY <1>13, <1>6, <1>8 DEF LastFetch
<1>14. CASE Lost(c)
  \* The port is free and the child has gone: something died.
  <2>1. CASE Alive
    BY <2>1, <1>14, <1>8 DEF Lost
  <2>2. CASE ~Alive
    <3>1. proc[client[c].child] = "gone" /\ client[c].child # Stale
      BY <1>4, <1>14 DEF Lost, Sees, ClientFit
    <3>2. mishap
      BY <3>1, <1>5, <2>2 DEF StartupInv, LostToServer, Alive, Listening
    <3> QED
      BY <3>2, <2>2, <1>14, <1>2, <1>3, ReturnFits DEF Lost, StartupInv, Results
  <2> QED
    BY <2>1, <2>2
<1>15. CASE Look(c) /\ Exited(c)
  BY <1>15, <1>7 DEF Look
<1>16. CASE Look(c) /\ ~Exited(c)
  <2> DEFINE pc == IF ~Fresh /\ client[c].idle = Budget THEN "last" ELSE "poll"
             idle == IF Fresh THEN 0 ELSE client[c].idle
             cl == [client[c] EXCEPT !.polled = TRUE, !.idle = idle, !.pc = pc]
  <2>1. client' = [client EXCEPT ![c] = cl]
    BY <1>4, <1>16 DEF Look, StartupInv, ClientsFit
  <2>2. idle \in 0..Budget /\ pc \in {"last", "poll"}
    BY <1>4, StartupAssumption DEF ClientStates
  <2> HIDE DEF pc, idle
  <2>3. ClientFit(cl)
    BY <1>4, <1>5, <2>2 DEF ClientFit, ClientStates, PCs, Waiting, Replacing
  <2>4. Sees(cl, proc', mishap')
    BY <1>3, <1>4, <2>2 DEF Sees, ClientStates
  <2> HIDE DEF cl
  <2> QED
    BY <2>1, <2>3, <2>4, <1>2, ClientMoves DEF StartupInv
<1> QED
  BY <1>9, <1>10, <1>11, <1>12, <1>13, <1>14, <1>15, <1>16

\* The processes of ds die: the stale daemon, or one of those that follow
\* it.
LEMMA DeadFits ==
  ASSUME StartupInv, NEW ds \in SUBSET Daemons, Dead(ds),
         proc[Stale] = "gone" \/ Stale \in ds
  PROVE  /\ proc' \in [Daemons -> ProcStates]
         /\ fetch' \in [Daemons -> Fetches]
         /\ StaleFirst'
         /\ \A d \in Daemons : proc[d] = "gone" => proc'[d] = "gone"
<1>1. proc \in [Daemons -> ProcStates] /\ fetch \in [Daemons -> Fetches] /\ StaleFirst
  BY DEF StartupInv, ProcessesTyped
<1>2. [NoFetch EXCEPT !.left = 0] \in Fetches
  BY NoFetchLeft, StartupAssumption
<1>3. proc' \in [Daemons -> ProcStates] /\ fetch' \in [Daemons -> Fetches]
  BY <1>1, <1>2 DEF Dead, ProcStates
<1>4. \A d \in Daemons : proc'[d] = IF d \in ds THEN "gone" ELSE proc[d]
  BY DEF Dead
<1>5. StaleFirst'
  BY <1>1, <1>4, StartupAssumption DEF StaleFirst
<1> QED
  BY <1>3, <1>4, <1>5

LEMMA TermKeeps ==
  ASSUME StartupInv, NEW c \in Clients, Term(c)
  PROVE  StartupInv'
<1>1. ClientFit(client[c]) /\ client[c] \in ClientStates /\ client[c].pc = "term"
  BY ClientOf DEF Term, At
<1>2. client[c].stale = Stale
  BY <1>1 DEF ClientFit, Replacing
<1>3. proc \in [Daemons -> ProcStates] /\ StaleFirst
  BY DEF StartupInv, ProcessesTyped
<1>4. \A d \in Daemons : proc'[d] = IF d = Stale /\ proc[d] = "serving" THEN "stopping" ELSE proc[d]
  BY <1>2, <1>3 DEF Term
<1>5. ProcessesTyped'
  BY <1>2, <1>3 DEF StartupInv, ProcessesTyped, ProcStates, Term
<1>6. StaleFirst' /\ NoneReturns
  BY <1>3, <1>4, StartupAssumption DEF StaleFirst, NoneReturns, Term
<1>7. LostToServer'
  BY <1>3, <1>4, StartupAssumption DEF StartupInv, LostToServer, StaleFirst, Term
<1>8. ClientsFit'
  BY <1>1, <1>2, <1>6, GoFits DEF Term, PCs, Waiting, Replacing
<1> QED
  BY <1>5, <1>6, <1>7, <1>8 DEF StartupInv

LEMMA KillKeeps ==
  ASSUME StartupInv, NEW c \in Clients, Kill(c)
  PROVE  StartupInv'
<1>1. ClientFit(client[c]) /\ client[c] \in ClientStates /\ client[c].pc = "kill"
  BY ClientOf DEF Kill, At
<1>2. client[c].stale = Stale
  BY <1>1 DEF ClientFit, Replacing
<1>3. Go(c, "waitagain") /\ marker' = marker /\ mishap' = mishap
  BY DEF Kill
<1>4. StaleFirst
  BY DEF StartupInv
<1>5. /\ (ProcessesTyped /\ StaleFirst /\ LostToServer)'
      /\ NoneReturns
  <2>1. CASE proc[Stale] \in {"serving", "stopping"}
    <3>1. Dead({Stale})
      BY <1>2, <2>1 DEF Kill
    <3>2. /\ proc' \in [Daemons -> ProcStates] /\ fetch' \in [Daemons -> Fetches]
          /\ StaleFirst'
          /\ \A d \in Daemons : proc[d] = "gone" => proc'[d] = "gone"
      BY <3>1, DeadFits, StartupAssumption
    <3>3. LostToServer'
      BY <3>1, <2>1, <1>4, StartupAssumption DEF LostToServer, StaleFirst, Dead
    <3> QED
      BY <3>2, <3>3, <1>3 DEF StartupInv, ProcessesTyped, NoneReturns
  <2>2. CASE proc[Stale] \notin {"serving", "stopping"}
    <3>1. Quiet
      BY <1>2, <1>3, <2>2 DEF Kill, Quiet
    <3> QED
      BY <3>1, QuietFits
  <2> QED
    BY <2>1, <2>2
<1>6. ClientsFit'
  BY <1>1, <1>2, <1>3, <1>5, GoFits DEF PCs, Waiting, Replacing
<1> QED
  BY <1>5, <1>6 DEF StartupInv

\* The port was free: the stale daemon has gone.
LEMMA SpawnKeeps ==
  ASSUME StartupInv, NEW c \in Clients, Spawn(c)
  PROVE  StartupInv'
<1>1. ClientFit(client[c]) /\ client[c] \in ClientStates /\ Sees(client[c], proc, mishap)
  BY ClientOf
<1>2. client[c].pc = "spawn" /\ proc[Stale] = "gone"
  BY <1>1 DEF Spawn, At, Sees
<1>3. PICK d \in Daemons :
        /\ proc[d] = "unused"
        /\ proc' = [proc EXCEPT ![d] = "starting"]
        /\ client' = [client EXCEPT ![c].child = d, ![c].pc = "poll", ![c].polled = TRUE]
  BY DEF Spawn
<1>4. d # Stale
  BY <1>2, <1>3
<1>5. UNCHANGED <<fetch, marker, mishap>>
  BY DEF Spawn
<1>6. proc \in [Daemons -> ProcStates] /\ StaleFirst
  BY DEF StartupInv, ProcessesTyped
<1>7. ProcessesTyped'
  BY <1>3, <1>5, <1>6 DEF StartupInv, ProcessesTyped, ProcStates
<1>8. StaleFirst' /\ NoneReturns
  BY <1>2, <1>3, <1>4, <1>5, <1>6, StartupAssumption DEF StaleFirst, NoneReturns
<1>9. LostToServer'
  BY <1>3, <1>5, <1>6 DEF StartupInv, LostToServer
<1> DEFINE cl == [client[c] EXCEPT !.child = d, !.pc = "poll", !.polled = TRUE]
<1>10. client' = [client EXCEPT ![c] = cl]
  BY <1>3 DEF StartupInv, ClientsFit
<1>11. ClientFit(cl)
  BY <1>1, <1>4, StartupAssumption DEF ClientFit, ClientStates, PCs, Waiting, Replacing
<1>12. Sees(cl, proc', mishap')
  BY <1>1, <1>2, <1>3, <1>4, <1>5, <1>6, StartupAssumption DEF Sees, ClientStates
<1> HIDE DEF cl
<1>13. ClientsFit'
  BY <1>8, <1>10, <1>11, <1>12, ClientMoves
<1> QED
  BY <1>7, <1>8, <1>9, <1>13 DEF StartupInv

LEMMA StopKeeps ==
  ASSUME StartupInv, NEW c \in Clients, Stop(c)
  PROVE  StartupInv'
<1>1. ClientFit(client[c]) /\ client[c] \in ClientStates /\ Sees(client[c], proc, mishap)
  BY ClientOf
<1>2. client[c].child \in Daemons /\ client[c].child # None
  BY <1>1 DEF Stop, At, ClientFit, ClientStates, Waiting
<1>3. proc[Stale] = "gone"
  BY <1>1, <1>2 DEF Sees
<1>4. Dead({client[c].child}) /\ mishap' /\ mishap' = TRUE /\ marker' = marker
  BY DEF Stop
<1>5. /\ proc' \in [Daemons -> ProcStates] /\ fetch' \in [Daemons -> Fetches]
      /\ StaleFirst'
      /\ \A d \in Daemons : proc[d] = "gone" => proc'[d] = "gone"
  BY <1>2, <1>3, <1>4, DeadFits
<1>6. ProcessesTyped' /\ LostToServer' /\ NoneReturns
  BY <1>4, <1>5 DEF StartupInv, ProcessesTyped, LostToServer, NoneReturns
<1>7. ClientsFit'
  BY <1>6, ReturnFits DEF Stop, Results
<1> QED
  BY <1>5, <1>6, <1>7 DEF StartupInv

LEMMA ClientStepKeeps ==
  ASSUME StartupInv, NEW c \in Clients, ClientStep(c)
  PROVE  StartupInv'
BY ReplacingKeeps, WaitingKeeps, TermKeeps, KillKeeps, SpawnKeeps, StopKeeps DEF ClientStep

\* Whoever looks at the marker next looks at what it is now.
LEMMA MarkFits ==
  ASSUME StartupInv, NoneReturns, NEW m, Mark(m)
  PROVE  ClientsFit'
<1>1. \A c \in Clients :
        client'[c] = [client[c] EXCEPT !.polled = FALSE] /\ client[c] \in ClientStates
  BY DEF Mark, StartupInv, ClientsFit
<1>2. ASSUME NEW c \in Clients
      PROVE  /\ client'[c] \in ClientStates
             /\ ClientFit(client'[c]) /\ Sees(client'[c], proc', mishap')
  <2>1. ClientFit(client[c]) /\ Sees(client[c], proc', mishap')
    BY SeenForGood, ClientOf
  <2>2. client[c] \in ClientStates /\ client'[c] = [client[c] EXCEPT !.polled = FALSE]
    BY <1>1
  <2>3. client'[c] \in ClientStates
    BY <2>2 DEF ClientStates
  <2>4. /\ client'[c].pc = client[c].pc /\ client'[c].stale = client[c].stale
        /\ client'[c].child = client[c].child /\ client'[c].result = client[c].result
    BY <2>2 DEF ClientStates
  <2> QED
    BY <2>1, <2>3, <2>4 DEF ClientFit, Sees
<1>3. client' = [c \in Clients |-> client'[c]]
  BY DEF Mark
<1> QED
  BY <1>2, <1>3 DEF ClientsFit

LEMMA FetchKeeps ==
  ASSUME StartupInv, NEW d \in Daemons, BeginFetch(d) \/ Beat(d) \/ EndFetch(d)
  PROVE  StartupInv'
<1>1. proc' = proc /\ mishap' = mishap
  BY DEF BeginFetch, Beat, EndFetch
<1>2. NoneReturns /\ StaleFirst' /\ LostToServer'
  BY <1>1 DEF StartupInv, NoneReturns, StaleFirst, LostToServer
<1>3. fetch \in [Daemons -> Fetches] /\ fetch[d] \in Fetches
  BY DEF StartupInv, ProcessesTyped
<1>4. PICK m \in {0, Absent} : Mark(m)
  BY DEF BeginFetch, Beat, EndFetch
<1>5. marker' \in 0..Absent
  BY <1>4, StartupAssumption DEF Mark, Absent
<1>6. ClientsFit'
  BY <1>2, <1>4, MarkFits
<1>7. fetch' \in [Daemons -> Fetches]
  <2>1. CASE BeginFetch(d)
    <3>1. [on |-> TRUE, beat |-> 0, age |-> 0, left |-> fetch[d].left - 1] \in Fetches
      BY <2>1, <1>3, StartupAssumption DEF BeginFetch, Fetches
    <3> QED
      BY <3>1, <2>1, <1>3 DEF BeginFetch
  <2>2. CASE Beat(d)
    BY <2>2, <1>3 DEF Beat, Fetches
  <2>3. CASE EndFetch(d)
    <3>1. fetch[d].left \in 0..MaxFetches
      BY <1>3 DEF Fetches
    <3>2. [NoFetch EXCEPT !.left = fetch[d].left] \in Fetches
      BY <3>1, NoFetchTyped DEF Fetches
    <3> QED
      BY <3>2, <2>3, <1>3 DEF EndFetch
  <2> QED
    BY <2>1, <2>2, <2>3
<1> QED
  BY <1>1, <1>2, <1>5, <1>6, <1>7 DEF StartupInv, ProcessesTyped

\* Who finds the port held, finds it held by a daemon that serves: the only
\* one that is ever shutting down has gone.
LEMMA BindKeeps ==
  ASSUME StartupInv, NEW d \in Daemons, Bind(d)
  PROVE  StartupInv'
<1>1. proc \in [Daemons -> ProcStates] /\ StaleFirst
  BY DEF StartupInv, ProcessesTyped
<1>2. proc[d] = "starting" /\ d # Stale /\ proc[Stale] = "gone"
  BY <1>1 DEF Bind, StaleFirst
<1>3. proc' = [proc EXCEPT ![d] = IF Alive THEN "gone" ELSE "serving"]
  BY DEF Bind
<1>4. Alive => \E e \in Daemons : e # d /\ proc[e] = "serving"
  BY <1>1, <1>2 DEF Alive, Listening, StaleFirst
<1>5. UNCHANGED <<fetch, marker, client, mishap>>
  BY DEF Bind
<1>6. ProcessesTyped'
  BY <1>1, <1>3, <1>5 DEF StartupInv, ProcessesTyped, ProcStates
<1>7. StaleFirst' /\ NoneReturns
  BY <1>1, <1>2, <1>3, <1>5, StartupAssumption DEF StaleFirst, NoneReturns
<1>8. LostToServer'
  <2>1. CASE Alive
    BY <2>1, <1>1, <1>3, <1>4 DEF LostToServer
  <2>2. CASE ~Alive
    BY <2>2, <1>1, <1>3 DEF LostToServer
  <2> QED
    BY <2>1, <2>2
<1>9. ClientsFit'
  BY <1>5, <1>7, ClientsStay
<1> QED
  BY <1>6, <1>7, <1>8, <1>9 DEF StartupInv

LEMMA DeathKeeps ==
  ASSUME StartupInv, NEW d \in Daemons, Crash(d) \/ Shutdown(d)
  PROVE  StartupInv'
<1>1. proc \in [Daemons -> ProcStates] /\ StaleFirst
  BY DEF StartupInv, ProcessesTyped
<1>2. proc[d] # "unused" /\ (proc[Stale] = "gone" \/ Stale \in {d})
  BY <1>1 DEF Crash, Shutdown, StaleFirst
<1>3. Dead({d}) /\ UNCHANGED <<marker, client>> /\ mishap' \in BOOLEAN
  BY DEF Crash, Shutdown, StartupInv, ProcessesTyped
<1>4. /\ proc' \in [Daemons -> ProcStates] /\ fetch' \in [Daemons -> Fetches]
      /\ StaleFirst'
      /\ \A e \in Daemons : proc[e] = "gone" => proc'[e] = "gone"
  BY <1>2, <1>3, DeadFits
<1>5. NoneReturns
  BY <1>4 DEF NoneReturns, Crash, Shutdown
<1>6. LostToServer'
  <2>1. CASE Crash(d)
    BY <2>1 DEF Crash, LostToServer
  <2>2. CASE Shutdown(d)
    \* The stale daemon: nobody has spawned yet.
    <3>1. d = Stale /\ \A e \in Daemons : e # Stale => proc[e] = "unused"
      BY <2>2, <1>1 DEF Shutdown, StaleFirst
    <3>2. \A e \in Daemons : e # Stale => proc'[e] = "unused"
      BY <3>1, <1>3 DEF Dead
    <3> QED
      BY <3>2 DEF LostToServer
  <2> QED
    BY <2>1, <2>2
<1>7. ClientsFit'
  BY <1>3, <1>5, ClientsStay
<1> QED
  BY <1>3, <1>4, <1>5, <1>6, <1>7 DEF StartupInv, ProcessesTyped

LEMMA TickKeeps ==
  ASSUME StartupInv, Tick
  PROVE  StartupInv'
<1>1. proc' = proc /\ mishap' = mishap
  BY DEF Tick
<1>2. NoneReturns /\ StaleFirst' /\ LostToServer'
  BY <1>1 DEF StartupInv, NoneReturns, StaleFirst, LostToServer
<1>3. \A cap \in Nat : \A n \in 0..cap : Older(n, cap) \in 0..cap
  BY DEF Older
<1>4. marker' \in 0..Absent
  <2>1. marker \in 0..Absent
    BY DEF StartupInv, ProcessesTyped
  <2>2. CASE marker = Absent
    BY <2>1, <2>2 DEF Tick
  <2>3. CASE marker # Absent
    <3>1. marker \in 0..Credible
      BY <2>1, <2>3, StartupAssumption DEF Absent
    <3>2. marker' = Older(marker, Credible)
      BY <2>3 DEF Tick
    <3> QED
      BY <3>1, <3>2, <1>3, StartupAssumption DEF Absent
  <2> QED
    BY <2>2, <2>3
<1>5. fetch' \in [Daemons -> Fetches]
  <2>1. ASSUME NEW d \in Daemons
        PROVE  (IF fetch[d].on THEN [fetch[d] EXCEPT !.beat = 1, !.age = Older(@, 2)]
                               ELSE fetch[d]) \in Fetches
    <3>1. fetch[d] \in Fetches
      BY DEF StartupInv, ProcessesTyped
    <3>4. PICK cap \in Nat : cap = 2
      OBVIOUS
    <3>5. fetch[d].age \in 0..cap
      BY <3>1, <3>4 DEF Fetches
    <3>6. Older(fetch[d].age, cap) \in 0..cap
      BY <3>5, <1>3
    <3>2. Older(fetch[d].age, 2) \in 0..2 /\ 1 \in 0..1
      BY <3>4, <3>6
    <3>3. [fetch[d] EXCEPT !.beat = 1, !.age = Older(fetch[d].age, 2)] \in Fetches
      BY <3>1, <3>2 DEF Fetches
    <3> QED
      BY <3>1, <3>3
  <2> QED
    BY <2>1 DEF Tick
<1>6. ASSUME NEW c \in Clients
      PROVE  /\ client'[c] \in ClientStates
             /\ ClientFit(client'[c]) /\ Sees(client'[c], proc', mishap')
  <2>1. client[c] \in ClientStates /\ ClientFit(client[c]) /\ Sees(client[c], proc', mishap')
    BY <1>2, SeenForGood, ClientOf
  <2>2. CASE client[c].child = None
    BY <2>1, <2>2 DEF Tick
  <2>3. CASE client[c].child # None
    <3> DEFINE cl == [client[c] EXCEPT !.polled = FALSE, !.idle = Older(client[c].idle, Budget)]
    <3>1. Older(client[c].idle, Budget) \in 0..Budget
      BY <2>1, <1>3, StartupAssumption DEF ClientStates
    <3>2. client'[c] = cl
      BY <2>3 DEF Tick
    <3>3. cl \in ClientStates
      BY <2>1, <3>1 DEF ClientStates
    <3>4. /\ cl.pc = client[c].pc /\ cl.stale = client[c].stale
          /\ cl.child = client[c].child /\ cl.result = client[c].result
      BY <2>1 DEF ClientStates
    <3> HIDE DEF cl
    <3> QED
      BY <2>1, <3>2, <3>3, <3>4 DEF ClientFit, Sees
  <2> QED
    BY <2>2, <2>3
<1>7. client' = [c \in Clients |-> client'[c]]
  BY DEF Tick
<1>8. ClientsFit'
  BY <1>6, <1>7 DEF ClientsFit
<1> QED
  BY <1>1, <1>2, <1>4, <1>5, <1>8 DEF StartupInv, ProcessesTyped

LEMMA StartupAlways == StartupSpec => []StartupInv
<1>1. StartupInv /\ [StartupNext]_startupVars => StartupInv'
  <2> SUFFICES ASSUME StartupInv, [StartupNext]_startupVars PROVE StartupInv'
    OBVIOUS
  <2>1. ASSUME NEW c \in Clients, ClientStep(c) PROVE StartupInv'
    BY <2>1, ClientStepKeeps
  <2>2. ASSUME NEW d \in Daemons, DaemonStep(d) PROVE StartupInv'
    BY <2>2, FetchKeeps, BindKeeps, DeathKeeps DEF DaemonStep
  <2>3. CASE Tick
    BY <2>3, TickKeeps
  <2>4. CASE UNCHANGED startupVars
    <3>1. Quiet /\ client' = client
      BY <2>4 DEF startupVars, Quiet
    <3> QED
      BY <3>1, QuietFits, ClientsStay DEF StartupInv
  <2> QED
    BY <2>1, <2>2, <2>3, <2>4 DEF StartupNext
<1> QED
  BY <1>1, InitStartup, PTL DEF StartupSpec

LEMMA StartupInvTyped == StartupInv => StartupTypeOK
BY DEF StartupInv, ProcessesTyped, ClientsFit, ClientFit, StartupTypeOK

\* The state is well typed and a client that waits has a daemon to wait for,
\* whatever the budgets and however many clients and daemons there are.
THEOREM StartupTyped == StartupSpec => []StartupTypeOK
BY StartupAlways, StartupInvTyped, PTL

\* A client that finds its daemon gone fails only if some daemon died of
\* something else than a lost race (daemon.rs:974): who lost the port lost
\* it to a daemon that serves, for the one a client replaces has let go of
\* the port before anybody spawns.
THEOREM RacesAreServed == StartupSpec => []LosersAreServed
<1>1. StartupInv => LosersAreServed
  BY DEF StartupInv, ClientsFit, Sees, LosersAreServed
<1> QED
  BY <1>1, StartupAlways, PTL
=============================================================================
