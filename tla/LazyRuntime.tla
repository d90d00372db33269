----------------------------- MODULE LazyRuntime -----------------------------
(***************************************************************************)
(* runtime::Lazy: the runtime of the daemon, resolved at its start or by   *)
(* the first load that needs it, kept from then on, and resolved again     *)
(* when its binary has gone.  Loads may be cancelled at any await; a       *)
(* resolution on a blocking thread then goes on, and its result is lost.   *)
(***************************************************************************)
EXTENDS Naturals, FiniteSets

CONSTANTS
  Loads,
  Binaries,   \* paths a resolution may find or install llama-server at
  Container,  \* a resolution to a container runtime
  Unresolved

ASSUME RuntimeAssumption ==
  /\ Container \notin Binaries /\ Unresolved \notin Binaries \cup {Container}
  /\ Unresolved \notin Loads

VARIABLES
  resolved,   \* the mutex-protected Option<Resolved>
  resolving,  \* the load that has the async mutex
  installed,  \* the binaries that are there
  vanished,   \* history: resolved was missing at some time since it was set
  load        \* each load: where it is, its copy of the resolution, and
              \* history: the binaries that were there since it asked

runtimeVars == <<resolved, resolving, installed, vanished, load>>

NewLoad == [pc |-> "idle", mine |-> Unresolved, seen |-> {}]

LoadStates ==
  [pc : {"idle", "resolve", "resolving", "check", "recheck", "reresolving", "orphan", "using"},
   mine : Binaries \cup {Container, Unresolved}, seen : SUBSET Binaries]

\* What startup left: a resolution, or a warning.
RuntimeInit ==
  /\ installed \in SUBSET Binaries
  /\ resolved \in installed \cup {Container, Unresolved}
  /\ resolving = Unresolved
  /\ vanished = FALSE
  /\ load = [l \in Loads |-> NewLoad]

Doing(l, pcs) == load[l].pc \in pcs

\* The binaries that are there now, in everybody's history.
Seeing(ls) == [l \in Loads |-> [ls[l] EXCEPT !.seen = IF ls[l].pc = "idle" THEN {} ELSE @ \cup installed']]

Become(l, pc, mine) == load' = Seeing([load EXCEPT ![l].pc = pc, ![l].mine = mine])

\* A container runs llama-server elsewhere: the load needs no binary.
Got(r) == IF r = Container THEN "using" ELSE "check"

\* local_llama_server_bin, and resolve within it: what is known will do.
AskRuntime(l) ==
  /\ Doing(l, {"idle"})
  /\ UNCHANGED <<resolved, resolving, installed, vanished>>
  /\ IF resolved = Unresolved THEN Become(l, "resolve", Unresolved)
     ELSE Become(l, Got(resolved), resolved)

\* Behind the mutex, another load may have resolved it.
LockToResolve(l) ==
  /\ Doing(l, {"resolve"}) /\ resolving = Unresolved
  /\ UNCHANGED <<resolved, installed, vanished>>
  /\ IF resolved = Unresolved
     THEN Become(l, "resolving", Unresolved) /\ resolving' = l
     ELSE Become(l, Got(resolved), resolved) /\ UNCHANGED resolving

\* resolve_from ends: a binary is there now, or a container runs, or none.
SetUp(r) ==
  /\ installed' = installed \cup ({r} \cap Binaries)
  /\ resolved' = r /\ vanished' = FALSE

NoRuntime(l) ==
  /\ UNCHANGED <<resolved, installed, vanished>>
  /\ Become(l, "idle", Unresolved)

Resolve(l) ==
  /\ Doing(l, {"resolving"}) /\ resolving' = Unresolved
  /\ \/ \E r \in Binaries \cup {Container} : SetUp(r) /\ Become(l, Got(r), r)
     \/ NoRuntime(l)

MutantCheckBinary(l) ==
  /\ Doing(l, {"check"})
  /\ UNCHANGED <<resolved, resolving, installed, vanished>>
  /\ Become(l, "using", load[l].mine)

CheckBinary(l) ==
  /\ Doing(l, {"check"})
  /\ UNCHANGED <<resolved, resolving, installed, vanished>>
  /\ Become(l, IF load[l].mine \in installed THEN "using" ELSE "recheck", load[l].mine)

MutantLockToRecheck(l) ==
  /\ Doing(l, {"recheck"}) /\ resolving = Unresolved
  /\ UNCHANGED <<resolved, installed, vanished>>
  /\ IF load[l].mine \in installed
     THEN Become(l, "using", load[l].mine) /\ UNCHANGED resolving
     ELSE Become(l, "reresolving", load[l].mine) /\ resolving' = l

\* Behind the mutex, another load may have found another binary.
LockToRecheck(l) ==
  /\ Doing(l, {"recheck"}) /\ resolving = Unresolved
  /\ UNCHANGED <<resolved, installed, vanished>>
  /\ IF resolved \in installed
     THEN Become(l, "using", resolved) /\ UNCHANGED resolving
     ELSE Become(l, "reresolving", resolved) /\ resolving' = l

\* resolve_local, of the source there was.
ResolveAgain(l) ==
  /\ Doing(l, {"reresolving"}) /\ resolving' = Unresolved
  /\ \/ \E r \in Binaries : SetUp(r) /\ Become(l, "using", r)
     \/ NoRuntime(l)

Spawned(l) ==
  /\ Doing(l, {"using"})
  /\ UNCHANGED <<resolved, resolving, installed, vanished>>
  /\ Become(l, "idle", Unresolved)

\* The load is dropped, with the mutex; its blocking thread is not.
Cancel(l) ==
  /\ Doing(l, {"resolve", "recheck", "resolving", "reresolving"})
  /\ UNCHANGED <<resolved, installed, vanished>>
  /\ Become(l, IF resolving = l THEN "orphan" ELSE "idle", Unresolved)
  /\ resolving' = IF resolving = l THEN Unresolved ELSE resolving

OrphanEnds(l) ==
  /\ Doing(l, {"orphan"})
  /\ UNCHANGED <<resolved, resolving, vanished>>
  /\ \E r \in SUBSET Binaries : Cardinality(r) <= 1 /\ installed' = installed \cup r
  /\ Become(l, "idle", Unresolved)

\* An install is upgraded or removed while the daemon runs.
Uninstall(b) ==
  /\ b \in installed /\ installed' = installed \ {b}
  /\ vanished' = (vanished \/ resolved = b)
  /\ load' = Seeing(load)
  /\ UNCHANGED <<resolved, resolving>>

RuntimeNext ==
  \/ \E l \in Loads :
       \/ AskRuntime(l) \/ LockToResolve(l) \/ Resolve(l) \/ CheckBinary(l) \/ LockToRecheck(l)
       \/ ResolveAgain(l) \/ Spawned(l) \/ Cancel(l) \/ OrphanEnds(l)
  \/ \E b \in Binaries : Uninstall(b)

RuntimeSpec == RuntimeInit /\ [][RuntimeNext]_runtimeVars

(***************************************************************************)
(* Properties                                                              *)
(***************************************************************************)

RuntimeTypeOK ==
  /\ resolved \in Binaries \cup {Container, Unresolved}
  /\ resolving \in Loads \cup {Unresolved}
  /\ installed \subseteq Binaries /\ vanished \in BOOLEAN
  /\ load \in [Loads -> LoadStates]

\* A load spawns a binary that was there at some time since it asked, which
\* no load waiting behind another's resolution may get wrong
\* (runtime.rs:199, "rather than failing every load against a dead path").
SpawnsWhatWasThere == \A l \in Loads :
  Doing(l, {"using"}) => load[l].mine \in load[l].seen \cup {Container}

\* What is resolved is kept ("A success is kept", runtime.rs:111): another
\* resolution replaces it only when its binary was missing, so of the loads
\* that see it missing one resolves it again for all.
KeptWhileThere == [][resolved' # resolved => resolved = Unresolved \/ vanished]_runtimeVars
=============================================================================
