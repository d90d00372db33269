------------------------------- MODULE Startup -------------------------------
(***************************************************************************)
(* Starting the daemon (daemon.rs): ensure_server of several clients, the  *)
(* daemons they spawn and replace, and the download marker that tells a    *)
(* client to wait for a daemon that fetches a backend before it binds      *)
(* (llama_release.rs, DownloadMarker).                                     *)
(*                                                                         *)
(* A client is a sequence of probes, each of which may be stale when it is *)
(* used.  A tick is one MARKER_HEARTBEAT.  Heartbeats are on time, and a   *)
(* waiting client, which polls every half second, does so in each tick     *)
(* after whatever happened to the marker in it.                            *)
(***************************************************************************)
EXTENDS Naturals, FiniteSets

CONSTANTS
  Clients,
  Daemons,     \* processes, by pid
  Stale,       \* the one that serves at first, of a superseded install
  Budget,      \* STARTUP_BUDGET, in ticks
  Credible,    \* DOWNLOAD_MARKER_STALE_AFTER, in ticks
  MaxFetches,  \* bound: the fetches of one process
  None

ASSUME StartupAssumption ==
  /\ Stale \in Daemons
  /\ None \notin Clients \cup Daemons
  /\ Budget \in Nat /\ Credible \in Nat /\ MaxFetches \in Nat
  /\ Budget > 1 /\ Credible > 1

VARIABLES
  proc,     \* the state of each process
  fetch,    \* the backend fetch of each process: under way, for how long
  marker,   \* ticks since the marker was written, or Absent
  client,   \* what each client does and knows
  mishap    \* history: a daemon died of something else than a lost race

startupVars == <<proc, fetch, marker, client, mishap>>

ProcStates == {"unused", "starting", "serving", "stopping", "gone"}

\* beat: ticks since its last write of the marker; age: since it began.
Fetches == [on : BOOLEAN, beat : 0..1, age : 0..2, left : 0..MaxFetches]

Absent == Credible + 1

Waiting == {"poll", "look", "confirm", "lost", "last", "exited", "fetching", "stop"}

PCs == Waiting \cup {"probe", "identify", "term", "waitfree", "kill", "waitagain",
                      "name", "spawn", "done"}

Results == {"none", "ok", "exited", "stopped", "fetching", "held"}

ClientStates == [pc : PCs, stale : Daemons \cup {None}, child : Daemons \cup {None},
                 idle : 0..Budget, polled : BOOLEAN, result : Results]

\* The state is well typed, and a client that waits has a daemon to wait for.
StartupTypeOK ==
  /\ proc \in [Daemons -> ProcStates]
  /\ fetch \in [Daemons -> Fetches]
  /\ marker \in 0..Absent
  /\ client \in [Clients -> ClientStates]
  /\ \A c \in Clients : client[c].pc \in Waiting => client[c].child # None
  /\ mishap \in BOOLEAN

NoFetch == [on |-> FALSE, beat |-> 0, age |-> 0, left |-> MaxFetches]

NewClient == [pc |-> "probe", stale |-> None, child |-> None, idle |-> 0,
              polled |-> FALSE, result |-> "none"]

\* With or without a stale daemon on the port.
StartupInit ==
  /\ \E s \in {"serving", "gone"} :
       proc = [d \in Daemons |-> IF d = Stale THEN s ELSE "unused"]
  /\ fetch = [d \in Daemons |-> NoFetch]
  /\ marker = Absent
  /\ client = [c \in Clients |-> NewClient]
  /\ mishap = FALSE

\* Who holds the port: a daemon that shuts down may keep it for a while.
Listening == {d \in Daemons : proc[d] \in {"serving", "stopping"}}

\* server_alive
Alive == Listening # {}

MutantFresh == marker # Absent

\* download_status: a marker that nobody renews is a dead process's.
Fresh == marker < Credible

\* Nobody has seen the marker as it is now.
Mark(m) ==
  /\ marker' = m
  /\ client' = [c \in Clients |-> [client[c] EXCEPT !.polled = FALSE]]

(***************************************************************************)
(* The daemons                                                             *)
(***************************************************************************)

BeginFetch(d) ==
  /\ proc[d] = "starting" /\ ~fetch[d].on /\ fetch[d].left > 0
  /\ fetch' = [fetch EXCEPT ![d] = [on |-> TRUE, beat |-> 0, age |-> 0, left |-> @.left - 1]]
  /\ Mark(0)
  /\ UNCHANGED <<proc, mishap>>

MutantBeat(d) ==
  /\ fetch[d].on /\ fetch[d].beat = 1
  /\ fetch' = [fetch EXCEPT ![d].beat = 0]
  /\ IF marker = Absent THEN UNCHANGED <<marker, client>> ELSE Mark(0)
  /\ UNCHANGED <<proc, mishap>>

\* touch, by keep_alive_during or with each line of progress.
Beat(d) ==
  /\ fetch[d].on /\ fetch[d].beat = 1
  /\ fetch' = [fetch EXCEPT ![d].beat = 0]
  /\ Mark(0)
  /\ UNCHANGED <<proc, mishap>>

\* Drop removes the marker, whoever wrote it last.
EndFetch(d) ==
  /\ fetch[d].on
  /\ fetch' = [fetch EXCEPT ![d] = [NoFetch EXCEPT !.left = fetch[d].left]]
  /\ Mark(Absent)
  /\ UNCHANGED <<proc, mishap>>

\* serve binds once its backends are there; "address in use" ends it.
Bind(d) ==
  /\ proc[d] = "starting" /\ ~fetch[d].on
  /\ proc' = [proc EXCEPT ![d] = IF Alive THEN "gone" ELSE "serving"]
  /\ UNCHANGED <<fetch, marker, client, mishap>>

\* What a process leaves when it is killed: no Drop runs.
Dead(ds) ==
  /\ proc' = [d \in Daemons |-> IF d \in ds THEN "gone" ELSE proc[d]]
  /\ fetch' = [d \in Daemons |-> IF d \in ds THEN [NoFetch EXCEPT !.left = 0] ELSE fetch[d]]

Crash(d) ==
  /\ proc[d] \in {"starting", "serving"}
  /\ Dead({d})
  /\ mishap' = TRUE
  /\ UNCHANGED <<marker, client>>

\* The end of a graceful shutdown: the port is free.
Shutdown(d) ==
  /\ proc[d] = "stopping"
  /\ Dead({d})
  /\ UNCHANGED <<marker, client, mishap>>

(***************************************************************************)
(* A client.  Between two steps anything may happen to what it just saw.   *)
(***************************************************************************)

At(c, pc) == client[c].pc = pc

Go(c, pc) == client' = [client EXCEPT ![c].pc = pc]

Return(c, result) ==
  client' = [client EXCEPT ![c] = [NewClient EXCEPT !.pc = "done", !.result = result]]

Quiet == UNCHANGED <<proc, fetch, marker, mishap>>

MutantProbe(c) ==
  /\ At(c, "probe")
  /\ Go(c, IF Alive THEN "identify" ELSE "poll")
  /\ Quiet

Probe(c) ==
  /\ At(c, "probe")
  /\ Go(c, IF Alive THEN "identify" ELSE "spawn")
  /\ Quiet

\* stale_daemon: nobody who answers is a guess not acted upon.
Answer == {d \in Daemons : proc[d] = "serving"}

Identify(c) ==
  /\ At(c, "identify")
  /\ \/ /\ Stale \in Answer
        /\ client' = [client EXCEPT ![c].stale = Stale, ![c].pc = "term"]
     \/ Stale \notin Answer /\ Return(c, "ok")
     \/ Stale \in Answer /\ Return(c, "ok")   \* service_unit: somebody else's to stop
  /\ Quiet

\* kill_daemon: SIGTERM to the pid that was read.
Term(c) ==
  /\ At(c, "term")
  /\ proc' = [proc EXCEPT ![client[c].stale] = IF @ = "serving" THEN "stopping" ELSE @]
  /\ Go(c, "waitfree")
  /\ UNCHANGED <<fetch, marker, mishap>>

\* wait_for_port_free: seen free, or held at the last look too.
WaitForPortFree(c, pc, timedOut) ==
  /\ At(c, pc)
  /\ Go(c, IF Alive THEN timedOut ELSE "spawn")
  /\ Quiet

Kill(c) ==
  /\ At(c, "kill")
  /\ IF proc[client[c].stale] \in {"serving", "stopping"}
     THEN Dead({client[c].stale}) ELSE UNCHANGED <<proc, fetch>>
  /\ Go(c, "waitagain")
  /\ UNCHANGED <<marker, mishap>>

\* "a stale llmman serve daemon is still holding"
GiveUp(c) == At(c, "name") /\ Return(c, "held") /\ Quiet

\* Unused processes are alike: any of them will do.
Spawn(c) ==
  /\ At(c, "spawn")
  /\ \E d \in Daemons : proc[d] = "unused"
  /\ LET d == CHOOSE d \in Daemons : proc[d] = "unused"
     IN /\ proc' = [proc EXCEPT ![d] = "starting"]
        /\ client' = [client EXCEPT ![c].child = d, ![c].pc = "poll", ![c].polled = TRUE]
  /\ UNCHANGED <<fetch, marker, mishap>>

Exited(c) == proc[client[c].child] = "gone"

\* One turn of the loop: connect, try_wait, and the marker.
Poll(c) ==
  /\ At(c, "poll")
  /\ Go(c, IF Alive THEN "confirm" ELSE "look")
  /\ Quiet

Look(c) ==
  /\ At(c, "look")
  /\ IF Exited(c) THEN Go(c, "lost")
     ELSE client' = [client EXCEPT ![c].polled = TRUE,
                                   ![c].idle = IF Fresh THEN 0 ELSE @,
                                   ![c].pc = IF ~Fresh /\ client[c].idle = Budget
                                             THEN "last" ELSE "poll"]
  /\ Quiet

\* bail_if_exited after a connect
Confirm(c) ==
  /\ At(c, "confirm")
  /\ IF Exited(c) THEN Go(c, "lost") ELSE Return(c, "ok")
  /\ Quiet

MutantLost(c) == At(c, "lost") /\ Return(c, "exited") /\ Quiet

\* The child has exited: a loser of a race if somebody serves now.
Lost(c) ==
  /\ At(c, "lost")
  /\ Return(c, IF Alive THEN "ok" ELSE "exited")
  /\ Quiet

\* The budget is spent.  Another connect, another try_wait ...
SpentBudget(c) ==
  /\ At(c, "last")
  /\ Go(c, IF Alive THEN "confirm" ELSE "exited")
  /\ Quiet

LastExit(c) ==
  /\ At(c, "exited")
  /\ Go(c, IF Exited(c) THEN "lost" ELSE "fetching")
  /\ Quiet

\* ... and another look at the marker.
LastFetch(c) ==
  /\ At(c, "fetching")
  /\ IF Fresh THEN Return(c, "fetching") ELSE Go(c, "stop")
  /\ Quiet

\* stop_group, of its own child only
Stop(c) ==
  /\ At(c, "stop")
  /\ Dead({client[c].child})
  /\ mishap' = TRUE
  /\ Return(c, "stopped")
  /\ UNCHANGED marker

ClientStep(c) ==
  \/ Probe(c) \/ Identify(c) \/ Term(c) \/ Kill(c) \/ GiveUp(c) \/ Spawn(c)
  \/ WaitForPortFree(c, "waitfree", "kill") \/ WaitForPortFree(c, "waitagain", "name")
  \/ Poll(c) \/ Look(c) \/ Confirm(c) \/ Lost(c)
  \/ SpentBudget(c) \/ LastExit(c) \/ LastFetch(c) \/ Stop(c)

DaemonStep(d) ==
  BeginFetch(d) \/ Beat(d) \/ EndFetch(d) \/ Bind(d) \/ Crash(d) \/ Shutdown(d)

Older(n, cap) == IF n < cap THEN n + 1 ELSE n

\* A heartbeat and a poll are never late, and deciding takes no time.
Tick ==
  /\ \A c \in Clients :
       client[c].pc \notin Waiting \ {"poll", "look"}
  /\ \A d \in Daemons : fetch[d].on => fetch[d].beat = 0
  /\ \A c \in Clients : client[c].pc \in {"poll", "look"} => client[c].polled
  /\ marker' = IF marker = Absent THEN Absent ELSE Older(marker, Credible)
  /\ fetch' = [d \in Daemons |->
       IF fetch[d].on THEN [fetch[d] EXCEPT !.beat = 1, !.age = Older(@, 2)] ELSE fetch[d]]
  /\ client' = [c \in Clients |->
       IF client[c].child = None THEN client[c]
       ELSE [client[c] EXCEPT !.polled = FALSE, !.idle = Older(@, Budget)]]
  /\ UNCHANGED <<proc, mishap>>

StartupNext ==
  \/ \E c \in Clients : ClientStep(c)
  \/ \E d \in Daemons : DaemonStep(d)
  \/ Tick

\* Steps are taken, time passes, a fetch ends or its process dies, and a
\* process asked to stop does or is killed.
StartupFairness ==
  /\ WF_startupVars(Tick)
  /\ \A c \in Clients : WF_startupVars(ClientStep(c))
  /\ \A d \in Daemons \ {Stale} : WF_startupVars(EndFetch(d))

StartupSpec == StartupInit /\ [][StartupNext]_startupVars /\ StartupFairness

(***************************************************************************)
(* Properties                                                              *)
(***************************************************************************)

\* A client that gives up on its daemon never stops a backend fetch that
\* has been going on for longer than a heartbeat, although another
\* process's fetch, ending, takes away the marker they share
\* (daemon.rs:700; llama_release.rs:625, "the survivor recreates it").
\* That is about one such end: with a series of fetches, each ending right
\* after the survivor's heartbeat, a client may look in several gaps, and
\* the property fails from MaxFetches = 2 on.
FetchSpared == [][\A c \in Clients : Stop(c) =>
  LET f == fetch[client[c].child] IN f.on => f.age <= 1]_startupVars

\* Two clients may spawn two daemons, and one loses the port: neither
\* client fails for that (daemon.rs:974, bail_if_exited).
LosersAreServed == \A c \in Clients :
  client[c].result = "exited" => mishap

\* Every client returns, also when a fetch died and left its marker behind.
ClientsReturn == <>(\A c \in Clients : At(c, "done"))
=============================================================================
