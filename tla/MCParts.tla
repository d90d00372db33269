------------------------------- MODULE MCParts -------------------------------
(* Small instances of the parts that do not interact, in one run: in a      *)
(* behaviour one part runs, and the others are at rest.                     *)
EXTENDS Startup, Streams, MCLayerFetch, Catalog, LazyRuntime, MCRouting

VARIABLE part   \* the part that runs

StartupAtRest ==
  /\ proc = [d \in Daemons |-> "unused"]
  /\ fetch = [d \in Daemons |-> NoFetch]
  /\ marker = Absent
  /\ client = [cl \in Clients |-> [NewClient EXCEPT !.pc = "done"]]
  /\ mishap = FALSE

StreamsAtRest ==
  /\ up = [source |-> "none", stage |-> "none"]
  /\ sent = NewReply
  /\ conv = <<>>
  /\ seen = [messages |-> NewMessage, responses |-> NewResponse, ollama |-> NewTally,
             gemini |-> NewTally]

LayersAtRest ==
  /\ pull = [p \in Pulls |-> [NewPull EXCEPT !.pc = "failed"]]
  /\ task = [p \in Pulls |-> [l \in Layers |-> NoTask]]
  /\ file = [d \in Layouts |-> [l \in Layers |-> [blob |-> "none", part |-> NoPart]]]
  /\ crashes = 0

CatalogAtRest ==
  /\ held = NoHeld /\ holder = Nothing /\ turn = Nothing /\ asked = Ttl
  /\ models = 0 /\ cacheFile = [there |-> FALSE, version |-> 0, age |-> Ttl]
  /\ world = [writable |-> FALSE, others |-> FALSE, other |-> Nothing]
  /\ thread = [t \in Threads |-> Resting]

RuntimeAtRest ==
  /\ resolved = Unresolved /\ resolving = Unresolved
  /\ installed = {} /\ vanished = FALSE
  /\ load = [l \in Loads |-> NewLoad]

RoutingAtRest ==
  /\ machine = CHOOSE f \in Fleets : TRUE
  /\ stock = [n \in Nodes |-> "none"]
  /\ request = NoRequest

PartsInit ==
  /\ part \in {"startup", "streams", "layers", "catalog", "runtime", "routing"}
  /\ IF part = "startup" THEN StartupInit ELSE StartupAtRest
  /\ IF part = "streams" THEN StreamsInit ELSE StreamsAtRest
  /\ IF part = "layers" THEN LayerInit ELSE LayersAtRest
  /\ IF part = "catalog" THEN CatalogInit ELSE CatalogAtRest
  /\ IF part = "runtime" THEN RuntimeInit ELSE RuntimeAtRest
  /\ IF part = "routing" THEN RoutingInit ELSE RoutingAtRest

PartsNext ==
  /\ UNCHANGED part
  /\ \/ /\ part = "startup" /\ StartupNext
        /\ UNCHANGED <<streamsVars, layerVars, catalogVars, runtimeVars, routingVars>>
     \/ /\ part = "streams" /\ StreamsNext
        /\ UNCHANGED <<startupVars, layerVars, catalogVars, runtimeVars, routingVars>>
     \/ /\ part = "layers" /\ LayerNext
        /\ UNCHANGED <<startupVars, streamsVars, catalogVars, runtimeVars, routingVars>>
     \/ /\ part = "catalog" /\ CatalogNext
        /\ UNCHANGED <<startupVars, streamsVars, layerVars, runtimeVars, routingVars>>
     \/ /\ part = "runtime" /\ RuntimeNext
        /\ UNCHANGED <<startupVars, streamsVars, layerVars, catalogVars, routingVars>>
     \/ /\ part = "routing" /\ RoutingNext
        /\ UNCHANGED <<startupVars, streamsVars, layerVars, catalogVars, runtimeVars>>

PartsSpec ==
  /\ PartsInit
  /\ [][PartsNext]_<<part, startupVars, streamsVars, layerVars, catalogVars, runtimeVars, routingVars>>
  /\ StartupFairness
=============================================================================
