------------------------------ MODULE BlobStore ------------------------------
(***************************************************************************)
(* The content-addressed store that the daemon, `llmman resolve`, `llmman  *)
(* cp` and `llmman rm` share as files, with no lock between processes.     *)
(*                                                                         *)
(* A pull writes blobs (layers, then config, then manifest) and at last    *)
(* the tag that makes them reachable (hf/pull.rs, hf/oci.rs).  A sweep     *)
(* reads every tag and every manifest, and deletes each blob none of them  *)
(* reaches that is older than a grace period (storage/gc.rs).  `rm` and    *)
(* the start of the daemon run one.                                        *)
(*                                                                         *)
(* A blob is complete or absent: it is written under a temporary name and  *)
(* renamed.  Its content is its digest.  Temporary files, sizes, the cache *)
(* of extracted models and legacy pointers are left out.                   *)
(***************************************************************************)
EXTENDS Naturals, FiniteSets

CONSTANTS
  Tasks,      \* what the daemon runs: /api/pull, loads that pull, /api/copy
  Commands,   \* processes of their own: `llmman resolve`, `llmman cp`
  Removers,   \* `llmman rm` processes
  Boot,       \* the sweep at the start of the daemon
  Refs,       \* references, the names of tags
  Manifests,  \* digests of manifests
  Layers,     \* the layers of a manifest
  Config,     \* the config blob of a manifest
  Upstream,   \* the manifests a reference may stand for where it is pulled from
  Grace,      \* GC_GRACE_PERIOD, in ticks
  None

Writers  == Tasks \cup Commands
Sweepers == Removers \cup {Boot}
Content(m) == Layers[m] \cup {Config[m], m}
Blobs == UNION {Content(m) : m \in Manifests}

ASSUME ContentAssumption ==
  /\ Layers \in [Manifests -> SUBSET Blobs]
  /\ Config \in [Manifests -> Blobs]
  /\ Upstream \in [Refs -> SUBSET Manifests]
  /\ None \notin Manifests \cup Refs

ASSUME GraceAssumption == Grace \in Nat \ {0}

ASSUME ActorsAssumption == Tasks \cap Commands = {} /\ Boot \notin Removers

VARIABLES
  present,  \* the files in blobs/sha256
  age,      \* how long ago each was last written, up to Grace
  tag,      \* the manifest each reference points at
  daemon,   \* "down", "booting" (it sweeps) or "up" (it listens)
  writer,   \* each pull or copy
  sweep,    \* each sweep
  exposed   \* history: tags written in a race with a sweep (see Races)

vars == <<present, age, tag, daemon, writer, sweep, exposed>>

(***************************************************************************)
(* writer[w].ref is the tag asked for, man the manifest it will point at,  *)
(* left the layers still to fetch.  Two fields are history: raced, a sweep *)
(* was under way at some time since w began; stale, w relies on a blob it  *)
(* found, on one it wrote a grace period ago, or on one that a sweep       *)
(* had found old when it was another file.                                 *)
(*                                                                         *)
(* sweep[s].unread are the tags still to be looked at, seen the manifests  *)
(* found but not read, live the digests reached so far, todo the names not *)
(* live whose file is not yet visited, doomed the file found old and about *)
(* to be deleted.  fresh is history: the tags written since the sweep      *)
(* began.                                                                  *)
(***************************************************************************)
Stages == {"idle", "probe", "layers", "manifest", "ref", "copy", "done"}

IdleWriter == [at |-> "idle", ref |-> None, man |-> None, left |-> {},
               raced |-> FALSE, stale |-> FALSE]

Asking(r, stage, raced) == [at |-> stage, ref |-> r, man |-> None, left |-> {},
                            raced |-> raced, stale |-> FALSE]

IdleSweep == [at |-> "idle", unread |-> {}, seen |-> {}, live |-> {},
              todo |-> {}, doomed |-> {}, fresh |-> {}]

Held(r) == tag[r] # None

\* Every blob that tag r needs is there.
Complete(r) == Held(r) /\ Content(tag[r]) \subseteq present

Sweeping == \E s \in Sweepers : sweep[s].at \in {"scan", "prune"}

Writing(w) == writer[w].at \notin {"idle", "done"}

\* What w has put in the store or found there.
Secured(w) ==
  {d \in Blobs :
     \/ writer[w].at = "layers" /\ d \in Layers[writer[w].man] \ writer[w].left
     \/ writer[w].at = "manifest" /\ d \in Layers[writer[w].man] \cup {Config[writer[w].man]}
     \/ writer[w].at \in {"ref", "copy"} /\ d \in Content(writer[w].man)}

-----------------------------------------------------------------------------
(* Pulls.                                                                  *)

\* The pulls of the daemon hold MODEL_LOCKS[r]; copies and commands know of no lock.
LockFree(w, r) ==
  w \in Tasks => \A t \in Tasks \ {w} :
    writer[t].at \in {"probe", "layers", "manifest", "ref"} => writer[t].ref # r

CanStart(w) == writer[w].at = "idle" /\ (w \in Tasks => daemon = "up")

\* `find` succeeds: nothing is pulled, and the caller is told of success.
FindPresent(w, r) ==
  /\ CanStart(w) /\ LockFree(w, r) /\ Held(r)
  /\ writer' = [writer EXCEPT ![w] = Asking(r, "done", Sweeping)]
  /\ UNCHANGED <<present, age, tag, daemon, sweep, exposed>>

FindMissing(w, r) ==
  /\ CanStart(w) /\ LockFree(w, r) /\ ~Held(r)
  /\ writer' = [writer EXCEPT ![w] = Asking(r, "probe", Sweeping)]
  /\ UNCHANGED <<present, age, tag, daemon, sweep, exposed>>

\* report_cached looks at the manifest and the layers, not at the config.
Cached(r) == Held(r) /\ Layers[tag[r]] \cup {tag[r]} \subseteq present

ReportCached(w) ==
  /\ writer[w].at = "probe" /\ Cached(writer[w].ref)
  /\ writer' = [writer EXCEPT ![w] = Asking(@.ref, "done", @.raced)]
  /\ UNCHANGED <<present, age, tag, daemon, sweep, exposed>>

FetchModelInfo(w) ==
  /\ writer[w].at = "probe" /\ ~Cached(writer[w].ref)
  /\ \E m \in Upstream[writer[w].ref] :
       writer' = [writer EXCEPT ![w].at = "layers", ![w].man = m, ![w].left = Layers[m]]
  /\ UNCHANGED <<present, age, tag, daemon, sweep, exposed>>

\* A blob that is there is used as it is, and its age stays what it was.
Store(d) ==
  /\ present' = present \cup {d}
  /\ age' = IF d \in present THEN age ELSE [age EXCEPT ![d] = 0]

Doomed(d) == \E s \in Sweepers : d \in sweep[s].doomed

\* A writer that finds a blob, or discards its copy for one, did not write it.
Stale(w, d) == writer[w].stale \/ d \in present \/ Doomed(d)

(***************************************************************************)
(* Layers come one after another or several at a time.  When download_layer *)
(* was told the digest and a blob of that name is there it downloads       *)
(* nothing; otherwise it moves its copy into place unless somebody was     *)
(* faster.  Both leave what Store says.                                    *)
(***************************************************************************)
DownloadLayer(w, d) ==
  /\ writer[w].at = "layers" /\ d \in writer[w].left
  /\ Store(d)
  /\ writer' = [writer EXCEPT ![w].left = @ \ {d}, ![w].stale = Stale(w, d)]
  /\ UNCHANGED <<tag, daemon, sweep, exposed>>

WriteConfig(w) ==
  /\ writer[w].at = "layers" /\ writer[w].left = {}
  /\ Store(Config[writer[w].man])
  /\ writer' = [writer EXCEPT ![w].at = "manifest",
                              ![w].stale = Stale(w, Config[writer[w].man])]
  /\ UNCHANGED <<tag, daemon, sweep, exposed>>

WriteManifest(w) ==
  /\ writer[w].at = "manifest"
  /\ Store(writer[w].man)
  /\ writer' = [writer EXCEPT ![w].at = "ref", ![w].stale = Stale(w, writer[w].man)]
  /\ UNCHANGED <<tag, daemon, sweep, exposed>>

(***************************************************************************)
(* A tag is written in a race when a sweep is under way, which may not     *)
(* have seen the tag, or when one was since the writer began and the       *)
(* writer relies on more than blobs it wrote within the grace period.      *)
(***************************************************************************)
Races(w) == Sweeping \/ (writer[w].raced /\ writer[w].stale)

Tag(w, r, m) ==
  /\ tag' = [tag EXCEPT ![r] = m]
  /\ exposed' = IF Races(w) THEN exposed \cup {r} ELSE exposed \ {r}
  /\ sweep' = [s \in Sweepers |->
       IF sweep[s].at \in {"scan", "prune"}
         THEN [sweep[s] EXCEPT !.fresh = @ \cup {r}] ELSE sweep[s]]

WriteManifestRef(w) ==
  /\ writer[w].at \in {"ref", "copy"}
  /\ Tag(w, writer[w].ref, writer[w].man)
  /\ writer' = [writer EXCEPT ![w] = Asking(@.ref, "done", @.raced)]
  /\ UNCHANGED <<present, age, daemon>>

\* A download fails for good, or a command is interrupted.  What it stored stays.
Fail(w) ==
  /\ Writing(w)
  /\ writer' = [writer EXCEPT ![w] = IdleWriter]
  /\ UNCHANGED <<present, age, tag, daemon, sweep, exposed>>

Return(w) ==
  /\ writer[w].at = "done"
  /\ writer' = [writer EXCEPT ![w] = IdleWriter]
  /\ UNCHANGED <<present, age, tag, daemon, sweep, exposed>>

-----------------------------------------------------------------------------
(* Copies and removals.                                                    *)

(***************************************************************************)
(* `cp` reads one tag and then writes another, with no lock and no look at *)
(* the blobs.  It relies on blobs it found; a tag exposed stays exposed    *)
(* under its other name.                                                   *)
(***************************************************************************)
CopyFind(w, r, q) ==
  /\ CanStart(w) /\ Held(r)
  /\ writer' = [writer EXCEPT ![w] =
       [at |-> "copy", ref |-> q, man |-> tag[r], left |-> {},
        raced |-> Sweeping \/ r \in exposed, stale |-> TRUE]]
  /\ UNCHANGED <<present, age, tag, daemon, sweep, exposed>>

Untag(r) ==
  /\ Held(r)
  /\ tag' = [tag EXCEPT ![r] = None]
  /\ exposed' = exposed \ {r}

\* /api/delete, or a pull whose signature is refused: no sweep follows.
Delete(r) ==
  /\ daemon = "up"
  /\ Untag(r)
  /\ UNCHANGED <<present, age, daemon, writer, sweep>>

\* `llmman rm` removes its references one by one.
Remove(s, r) ==
  /\ sweep[s].at \in {"idle", "rm"}
  /\ Untag(r)
  /\ sweep' = [sweep EXCEPT ![s].at = "rm"]
  /\ UNCHANGED <<present, age, daemon, writer>>

-----------------------------------------------------------------------------
(* Sweeps.                                                                 *)

\* Every writer under way from here on has raced with this sweep.
Scanning(s) ==
  /\ sweep' = [sweep EXCEPT ![s] =
       [IdleSweep EXCEPT !.at = "scan", !.unread = Refs]]
  /\ writer' = [w \in Writers |->
       IF Writing(w) THEN [writer[w] EXCEPT !.raced = TRUE] ELSE writer[w]]

StartSweep(s) ==
  /\ sweep[s].at = "rm"
  /\ Scanning(s)
  /\ UNCHANGED <<present, age, tag, daemon, exposed>>

MutantReadRef(s, r) ==
  /\ sweep[s].at = "scan" /\ r \in sweep[s].unread
  /\ sweep' = [sweep EXCEPT ![s].unread = @ \ {r}, ![s].seen = @ \cup {tag[r]}]
  /\ UNCHANGED <<present, age, tag, daemon, writer, exposed>>

\* list_refs_strict: one pointer file after another.
ReadRef(s, r) ==
  /\ sweep[s].at = "scan" /\ r \in sweep[s].unread
  /\ sweep' = [sweep EXCEPT ![s].unread = @ \ {r},
                            ![s].seen = IF Held(r) THEN @ \cup {tag[r]} ELSE @]
  /\ UNCHANGED <<present, age, tag, daemon, writer, exposed>>

MutantReadManifest(s, m) ==
  /\ sweep[s].at = "scan" /\ sweep[s].unread = {} /\ m \in sweep[s].seen
  /\ sweep' = [sweep EXCEPT ![s].seen = @ \ {m},
                            ![s].live = @ \cup IF m \in present THEN Content(m) ELSE {m}]
  /\ UNCHANGED <<present, age, tag, daemon, writer, exposed>>

\* referenced_digests: what a manifest names is live.  One that cannot be read
\* ends the sweep, and nothing is deleted.
ReadManifest(s, m) ==
  /\ sweep[s].at = "scan" /\ sweep[s].unread = {} /\ m \in sweep[s].seen
  /\ sweep' = IF m \in present
                THEN [sweep EXCEPT ![s].seen = @ \ {m}, ![s].live = @ \cup Content(m)]
                ELSE [sweep EXCEPT ![s] = IdleSweep]
  /\ UNCHANGED <<present, age, tag, daemon, writer, exposed>>

StartPrune(s) ==
  /\ sweep[s].at = "scan" /\ sweep[s].unread = {} /\ sweep[s].seen = {}
  /\ sweep' = [sweep EXCEPT ![s].at = "prune", ![s].live = {},
                            ![s].todo = Blobs \ sweep[s].live]
  /\ UNCHANGED <<present, age, tag, daemon, writer, exposed>>

MutantIsOlderThan(d) == TRUE
IsOlderThan(d) == age[d] >= Grace

(***************************************************************************)
(* The directory is read in any order, each name once: a file's age is     *)
(* looked at, then the file is deleted.  A file that is passed over,       *)
(* because it is young or cannot be removed, changes nothing: the sweep    *)
(* may end with names left in todo.                                        *)
(***************************************************************************)
Condemn(s, d) ==
  /\ sweep[s].at = "prune" /\ d \in sweep[s].todo /\ sweep[s].doomed = {}
  /\ d \in present /\ IsOlderThan(d)
  /\ sweep' = [sweep EXCEPT ![s].todo = @ \ {d}, ![s].doomed = {d}]
  /\ UNCHANGED <<present, age, tag, daemon, writer, exposed>>

Prune(s, d) ==
  /\ d \in sweep[s].doomed
  /\ present' = present \ {d}
  /\ age' = [age EXCEPT ![d] = 0]
  /\ sweep' = [sweep EXCEPT ![s].doomed = {}]
  /\ UNCHANGED <<tag, daemon, writer, exposed>>

\* At its end, for an error of a file system, or because LLMMAN_NOPRUNE is set.
EndSweep(s) ==
  /\ sweep[s].at # "idle"
  /\ sweep' = [sweep EXCEPT ![s] = IdleSweep]
  /\ UNCHANGED <<present, age, tag, daemon, writer, exposed>>

-----------------------------------------------------------------------------
(* The daemon, and time.                                                   *)

\* `llmman serve` sweeps before it listens.
Start ==
  /\ daemon = "down"
  /\ daemon' = "booting"
  /\ Scanning(Boot)
  /\ UNCHANGED <<present, age, tag, exposed>>

Listen ==
  /\ daemon = "booting" /\ sweep[Boot].at = "idle"
  /\ daemon' = "up"
  /\ UNCHANGED <<present, age, tag, writer, sweep, exposed>>

\* Its tasks and its sweep die with it, at any step; the files stay.
Crash ==
  /\ daemon # "down"
  /\ daemon' = "down"
  /\ writer' = [w \in Writers |-> IF w \in Tasks THEN IdleWriter ELSE writer[w]]
  /\ sweep' = [sweep EXCEPT ![Boot] = IdleSweep]
  /\ UNCHANGED <<present, age, tag, exposed>>

Aged(d) == IF d \in present /\ age[d] < Grace THEN age[d] + 1 ELSE age[d]

Tick ==
  /\ \E d \in present : age[d] < Grace
  /\ age' = [d \in Blobs |-> Aged(d)]
  /\ writer' = [w \in Writers |->
       [writer[w] EXCEPT !.stale = @ \/ \E d \in Secured(w) : Aged(d) >= Grace]]
  /\ UNCHANGED <<present, tag, daemon, sweep, exposed>>

-----------------------------------------------------------------------------
\* Any store that earlier runs left, its tags complete.
Init ==
  /\ present \in SUBSET Blobs
  /\ age = [d \in Blobs |-> IF d \in present THEN Grace ELSE 0]
  /\ tag \in [Refs -> Manifests \cup {None}]
  /\ \A r \in Refs : Held(r) => Complete(r)
  /\ daemon = "down"
  /\ writer = [w \in Writers |-> IdleWriter]
  /\ sweep = [s \in Sweepers |-> IdleSweep]
  /\ exposed = {}

Pull(w) ==
  \/ \E r \in Refs : FindPresent(w, r) \/ FindMissing(w, r)
  \/ ReportCached(w) \/ FetchModelInfo(w)
  \/ \E d \in Blobs : DownloadLayer(w, d)
  \/ WriteConfig(w) \/ WriteManifest(w) \/ WriteManifestRef(w)
  \/ Fail(w) \/ Return(w)

Copy(w) == \E r, q \in Refs : CopyFind(w, r, q)

Sweep(s) ==
  \/ \E r \in Refs : ReadRef(s, r)
  \/ \E m \in Manifests : ReadManifest(s, m)
  \/ StartPrune(s)
  \/ \E d \in Blobs : Condemn(s, d) \/ Prune(s, d)
  \/ EndSweep(s)

Next ==
  \/ \E w \in Writers : Pull(w) \/ Copy(w)
  \/ \E r \in Refs : Delete(r)
  \/ \E s \in Removers : StartSweep(s) \/ \E r \in Refs : Remove(s, r)
  \/ \E s \in Sweepers : Sweep(s)
  \/ Start \/ Listen \/ Crash \/ Tick

Spec == Init /\ [][Next]_vars

-----------------------------------------------------------------------------
WriterType == [at : Stages, ref : Refs \cup {None}, man : Manifests \cup {None},
               left : SUBSET Blobs, raced : BOOLEAN, stale : BOOLEAN]

SweepType == [at : {"idle", "rm", "scan", "prune"}, unread : SUBSET Refs,
              seen : SUBSET Manifests, live : SUBSET Blobs, todo : SUBSET Blobs,
              doomed : SUBSET Blobs, fresh : SUBSET Refs]

TypeOK ==
  /\ present \subseteq Blobs
  /\ age \in [Blobs -> 0..Grace]
  /\ tag \in [Refs -> Manifests \cup {None}]
  /\ daemon \in {"down", "booting", "up"}
  /\ writer \in [Writers -> WriterType]
  /\ sweep \in [Sweepers -> SweepType]
  /\ exposed \subseteq Refs

(***************************************************************************)
(* A tag that was not written in a race with a sweep has all its blobs,    *)
(* whatever pulls, copies, removals, sweeps and crashes do, before and     *)
(* after: a pull that dies leaves no tag, a sweep keeps what a tag needs,  *)
(* and the grace period protects a pull that wrote its blobs itself.       *)
(***************************************************************************)
OnlyRacesBreakTags == \A r \in Refs : Held(r) /\ r \notin exposed => Complete(r)

(***************************************************************************)
(* A sweep deletes nothing that belongs to a tag which was there when it   *)
(* began and was not rewritten since, even one whose manifest cannot be    *)
(* read: then referenced_digests fails, and the sweep with it.             *)
(***************************************************************************)
Spared(s) ==
  \A r \in Refs \ sweep[s].fresh :
    Held(r) => present \cap Content(tag[r]) \subseteq present'

SweepSparesTags ==
  [][\A s \in Sweepers, d \in Blobs : Prune(s, d) => Spared(s)]_vars

(***************************************************************************)
(* No sweep takes a blob away from a pull between finding or writing it    *)
(* and writing the tag, which then names only blobs that are there.        *)
(* storage/gc.rs and cmd/rm.rs say that the grace window protects such a   *)
(* blob.  (The code does not keep this: a blob that a pull finds is old.)  *)
(***************************************************************************)
PullsKeepBlobs ==
  [][\A r \in Refs : tag'[r] \notin {tag[r], None} => Complete(r)']_vars

(***************************************************************************)
(* A pull that answers with success, and that no sweep raced with, leaves  *)
(* its tag with all its blobs: storage/repair.rs tells the user to re-pull *)
(* a model that lost some.  (The code does not keep this.)                 *)
(***************************************************************************)
RepullRepairs ==
  [][\A w \in Writers, r \in Refs :
       writer[w].at # "done" /\ writer'[w].at = "done" /\ writer'[w].ref = r
         => writer'[w].raced \/ Complete(r)']_vars
=============================================================================
