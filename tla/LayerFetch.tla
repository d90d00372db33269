----------------------------- MODULE LayerFetch -----------------------------
(***************************************************************************)
(* Pulls from a registry (go-shim, pullToLayout): each fetches its layers  *)
(* in parallel, shares a fetch under way with the other pulls of the       *)
(* process (dedupBlobFetch), resumes from the .part file of a killed       *)
(* daemon, accounts its progress, waits for its progress bars and writes   *)
(* its tag last.  Pulls of one reference exclude each other before they    *)
(* get here (pull_serialized), so every pull has a progress key of its own.*)
(***************************************************************************)
EXTENDS Naturals, FiniteSets, Functions

CONSTANTS
  Pulls,
  Layers,       \* digests
  Layouts,      \* directories: the store, or a signature check's own
  LayersOf,     \* of each pull's manifest
  LayoutOf,     \* where each pull writes
  Size,         \* of each layer, in pieces
  MaxParallel,  \* maxParallel
  MaxCrashes    \* bound: how often the daemon dies

ASSUME LayerFetchAssumption ==
  /\ LayersOf \in [Pulls -> SUBSET Layers] /\ LayoutOf \in [Pulls -> Layouts]
  /\ \A p \in Pulls : IsFiniteSet(LayersOf[p])
  /\ Size \in [Layers -> Nat \ {0}] /\ MaxParallel \in Nat \ {0} /\ MaxCrashes \in Nat

VARIABLES
  pull,   \* what each pull does, and its progressEntry
  task,   \* the goroutine and progress bar of each of its layers
  file,   \* each layer's blob and .part file, in each layout
  crashes

layerVars == <<pull, task, file, crashes>>

NoPart == [n |-> 0, bad |-> FALSE]

NoTask == [pc |-> "none", n |-> 0]

NewPull == [pc |-> "idle", total |-> 0, completed |-> 0]

LayerInit ==
  /\ pull = [p \in Pulls |-> NewPull]
  /\ task = [p \in Pulls |-> [l \in Layers |-> NoTask]]
  /\ file = [d \in Layouts |-> [l \in Layers |-> [blob |-> "none", part |-> NoPart]]]
  /\ crashes = 0

\* What two fetches must have in common to be one.
MutantKey(p, l) == l

Key(p, l) == <<LayoutOf[p], l>>

Is(p, l, pcs) == task[p][l].pc \in pcs

Exists(p, l) == file[LayoutOf[p]][l].blob # "none"

PartOf(p, l) == file[LayoutOf[p]][l].part

SetPart(p, l, part) == file' = [file EXCEPT ![LayoutOf[p]][l].part = part]

\* errgroup: the first failure cancels what the pull itself fetches.
Cancelled(p) == \E l \in LayersOf[p] : Is(p, l, {"failed"})

\* The manifest and the configuration come first, or do not come.
Start(p) == \E pc \in {"listing", "failed"} :
  /\ pull[p].pc = "idle"
  /\ pull' = [pull EXCEPT ![p].pc = pc]
  /\ UNCHANGED <<task, file, crashes>>

\* A bar for each layer that is not there yet, one at a time ...
List(p, l) ==
  /\ pull[p].pc = "listing" /\ Is(p, l, {"none"})
  /\ \A m \in LayersOf[p] : ~Is(p, m, {"listed"})
  /\ IF Exists(p, l)
     THEN /\ task' = [task EXCEPT ![p][l].pc = "cached"]
          /\ UNCHANGED pull
     ELSE /\ task' = [task EXCEPT ![p][l].pc = "listed"]
          /\ pull' = [pull EXCEPT ![p].total = @ + Size[l]]
  /\ UNCHANGED <<file, crashes>>

Running(p) == {l \in LayersOf[p] : Is(p, l, {"running", "fetching", "copying", "joined"})}

\* ... and a goroutine when the semaphore lets it.
Launch(p, l) ==
  /\ Is(p, l, {"listed"}) /\ Cardinality(Running(p)) < MaxParallel
  /\ task' = [task EXCEPT ![p][l].pc = "running"]
  /\ UNCHANGED <<pull, file, crashes>>

Leads(k) == {r \in Pulls \X Layers : Is(r[1], r[2], {"fetching", "copying"}) /\ Key(r[1], r[2]) = k}

\* singleflight: join the fetch under way, or make it.
Do(p, l) ==
  /\ Is(p, l, {"running"})
  /\ task' = [task EXCEPT ![p][l].pc = IF Leads(Key(p, l)) = {} THEN "fetching" ELSE "joined"]
  /\ UNCHANGED <<pull, file, crashes>>

Joined(p, l) == {r \in Pulls \X Layers : Is(r[1], r[2], {"joined"}) /\ Key(r[1], r[2]) = Key(p, l)}

\* One result for all; who did not make the fetch is credited for it whole.
MutantResult(p, l, pc, n) ==
  /\ task' = [q \in Pulls |-> [m \in Layers |->
       IF <<q, m>> = <<p, l>> THEN [pc |-> pc, n |-> n]
       ELSE IF <<q, m>> \in Joined(p, l)
            THEN [task[q][m] EXCEPT !.pc = IF pc = "failed" THEN "failed" ELSE "ok"]
            ELSE task[q][m]]]
  /\ pull' = [q \in Pulls |->
       IF pc # "failed" /\ (q = p \/ <<q, l>> \in Joined(p, l))
       THEN [pull[q] EXCEPT !.completed = @ + Size[l]] ELSE pull[q]]

Result(p, l, pc, n) ==
  /\ task' = [q \in Pulls |-> [m \in Layers |->
       IF <<q, m>> = <<p, l>> THEN [pc |-> pc, n |-> n]
       ELSE IF <<q, m>> \in Joined(p, l)
            THEN [task[q][m] EXCEPT !.pc = IF pc = "failed" THEN "failed" ELSE "ok"]
            ELSE task[q][m]]]
  /\ pull' = [q \in Pulls |->
       IF pc # "failed" /\ <<q, l>> \in Joined(p, l)
       THEN [pull[q] EXCEPT !.completed = @ + Size[l]] ELSE pull[q]]

\* The request, and where to resume: the server may not let us seek.
Fetch(p, l) ==
  /\ Is(p, l, {"fetching"}) /\ ~Cancelled(p)
  /\ UNCHANGED crashes
  /\ \/ /\ Exists(p, l)      \* another pull's fetch ended before this began
        /\ Result(p, l, "found", 0)
        /\ UNCHANGED file
     \/ /\ ~Exists(p, l)
        /\ \E part \in {NoPart, PartOf(p, l)} :
             /\ SetPart(p, l, part)
             /\ task' = [task EXCEPT ![p][l] = [pc |-> "copying", n |-> part.n]]
             /\ pull' = [pull EXCEPT ![p].completed = @ + part.n]

\* The registry may send what it did not promise.
Copy(p, l) == \E bad \in BOOLEAN :
  /\ Is(p, l, {"copying"}) /\ task[p][l].n < Size[l] /\ ~Cancelled(p)
  /\ SetPart(p, l, [n |-> task[p][l].n + 1, bad |-> PartOf(p, l).bad \/ bad])
  /\ task' = [task EXCEPT ![p][l].n = @ + 1]
  /\ pull' = [pull EXCEPT ![p].completed = @ + 1]
  /\ UNCHANGED crashes

\* The connection breaks, or the pull's context is cancelled.
Break(p, l) ==
  /\ Is(p, l, {"fetching", "copying"})
  /\ Result(p, l, "failed", task[p][l].n)
  /\ IF Is(p, l, {"copying"}) THEN SetPart(p, l, NoPart) ELSE UNCHANGED file
  /\ UNCHANGED crashes

\* The digest spans what was resumed too.
Verify(p, l) ==
  /\ Is(p, l, {"copying"}) /\ task[p][l].n = Size[l]
  /\ file' = [file EXCEPT ![LayoutOf[p]][l] =
                [blob |-> IF PartOf(p, l).bad THEN @.blob ELSE "whole", part |-> NoPart]]
  /\ Result(p, l, IF PartOf(p, l).bad THEN "failed" ELSE "ok", Size[l])
  /\ UNCHANGED crashes

Final == {"none", "cached", "ok", "found", "failed"}

\* g.Wait: every layer was listed and every goroutine has returned.
GroupWait(p) ==
  /\ pull[p].pc = "listing"
  /\ \A l \in LayersOf[p] : Is(p, l, Final \ {"none"})
  /\ pull' = [pull EXCEPT ![p].pc = "draining"]
  /\ UNCHANGED <<task, file, crashes>>

\* A bar with a size is over when it was filled or aborted: SetTotal does
\* nothing to it (backend_docker.go:436).
BarOver(p, l) == task[p][l].n = Size[l] \/ Is(p, l, {"failed", "cached"})

\* prog.Wait, and then the tag.
ProgressWait(p) ==
  /\ pull[p].pc = "draining"
  /\ \A l \in LayersOf[p] : BarOver(p, l)
  /\ pull' = [pull EXCEPT ![p].pc = IF Cancelled(p) THEN "failed" ELSE "tagged"]
  /\ UNCHANGED <<task, file, crashes>>

\* The daemon dies and starts again: the files stay.  A pull cut off is
\* tried again; one that failed left nothing but whole blobs.
Unfinished(p) == pull[p].pc \in {"listing", "draining"}

Restart ==
  /\ crashes < MaxCrashes /\ crashes' = crashes + 1
  /\ \E p \in Pulls : Unfinished(p)
  /\ pull' = [p \in Pulls |-> IF Unfinished(p) THEN NewPull ELSE pull[p]]
  /\ task' = [p \in Pulls |-> IF Unfinished(p) THEN [l \in Layers |-> NoTask] ELSE task[p]]
  /\ UNCHANGED file

LayerStep(p, l) ==
  List(p, l) \/ Launch(p, l) \/ Do(p, l) \/ Fetch(p, l) \/ Copy(p, l) \/ Break(p, l) \/ Verify(p, l)

PullStep(p) == GroupWait(p) \/ ProgressWait(p) \/ \E l \in LayersOf[p] : LayerStep(p, l)

LayerNext ==
  \/ \E p \in Pulls : Start(p) \/ PullStep(p)
  \/ Restart

\* A fetch ends or breaks; nobody has to start one.
LayerFairness == \A p \in Pulls : WF_layerVars(PullStep(p))

LayerSpec == LayerInit /\ [][LayerNext]_layerVars /\ LayerFairness

(***************************************************************************)
(* Properties                                                              *)
(***************************************************************************)

\* A layer a pull was told is there is there: in that pull's own layout and
\* as the manifest promised it, whoever fetched it and however often the
\* daemon died; a tag is written over such layers only
\* (backend_docker.go:854, "believing it had a blob it never received").
LayersArrive == \A p \in Pulls : \A l \in LayersOf[p] :
  Is(p, l, {"cached", "ok", "found"}) \/ pull[p].pc = "tagged" =>
    file[LayoutOf[p]][l].blob = "whole"

SumOver(ls) == FoldFunctionOnSet(+, 0, Size, ls)

\* A pull is credited once for each layer it lacked, and never for more
\* than it lacks: by its own fetch with what it resumed, or by another's
\* (dedupBlobFetch).  A layer that arrived before its turn is not credited.
CreditedOnce == \A p \in Pulls :
  /\ pull[p].completed <= pull[p].total
  /\ pull[p].pc = "draining" /\ ~Cancelled(p) =>
       pull[p].completed = SumOver({l \in LayersOf[p] : Is(p, l, {"ok"})})

\* A pull that began returns, or its daemon dies (backend_docker.go:889,
\* "so mpb's pool.Wait() below doesn't hang").
PullsReturn == \A p \in Pulls :
  pull[p].pc = "listing" ~> pull[p].pc \in {"tagged", "failed", "idle"}
=============================================================================
