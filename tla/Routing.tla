------------------------------- MODULE Routing -------------------------------
(***************************************************************************)
(* Where one request is served: which half of a hybrid pair (hybrid.rs,    *)
(* serve/hybrid.rs), on which node of an aggregation                       *)
(* (serve/aggregation.rs), and the retry when a backend refuses it as over *)
(* its context.  The nodes' other requests load, evict and remove the      *)
(* model meanwhile, so what a poll answered may be old when it is used.    *)
(***************************************************************************)
EXTENDS Integers, Sequences

CONSTANTS
  Nodes,
  Peers,    \* the peers that each node lists, in order
  Fleets,   \* what the nodes may be: see Machines
  Weight    \* the model's size

Sizes == 0..2   \* of a request's body, and budgets; 0: none declared, no rule

Rooms == 0..3   \* free memory

\* stated: the user's budget (explicit) or the daemon's; window: of a backend.
Machines == [known : BOOLEAN, room : Rooms, explicit : BOOLEAN, stated : Sizes, window : Sizes]

ASSUME RoutingAssumption ==
  /\ Nodes # {} /\ Peers \in [Nodes -> Seq(Nodes)]
  /\ \A n \in Nodes : \A i \in 1..Len(Peers[n]) : Peers[n][i] # n
  /\ Fleets \subseteq [Nodes -> Machines]
  /\ Weight \in Nat \ {0}

VARIABLES
  machine,   \* each node's memory and budget
  stock,     \* what each node has of the model
  request    \* the request, and what its node knows

routingVars == <<machine, stock, request>>

Stocks == {"none", "stored", "loaded"}

\* asked: history, the pin that the client gave with a pair.
Requests ==
  [pc : {"idle", "resolve", "local", "polling", "load", "serving", "provider"},
   node : Nodes, name : {"model", "pair", "provider"}, pin : {"none", "local", "cloud"},
   size : Sizes, hops : 0..2, polled : [Nodes -> Stocks \cup {"unasked", "silent"}],
   asked : {"none", "local", "cloud"}]

Unasked == [n \in Nodes |-> "unasked"]

NoRequest ==
  [pc |-> "idle", node |-> CHOOSE n \in Nodes : TRUE, name |-> "model", pin |-> "none",
   size |-> 0, hops |-> 0, polled |-> Unasked, asked |-> "none"]

RoutingInit ==
  /\ machine \in Fleets
  /\ stock \in [Nodes -> {"none", "stored"}]
  /\ request = NoRequest

Here == request.node

Enter(pc) == request' = [request EXCEPT !.pc = pc]

Over == request' = NoRequest

ArriveAt(n) ==
  /\ request.pc = "idle"
  /\ \E name \in {"model", "pair", "provider"}, pin \in {"none", "local", "cloud"}, size \in Sizes :
       /\ name # "pair" => pin = "none" /\ size = 0   \* neither is looked at
       /\ request' = [NoRequest EXCEPT !.pc = "resolve", !.node = n, !.name = name, !.pin = pin,
                        !.size = size, !.asked = pin]
  /\ UNCHANGED <<machine, stock>>

\* local_budget: a loaded backend's window replaces a budget that llmman
\* derived, never one that was stated.
LocalBudget(n) ==
  LET m == machine[n]
  IN IF ~m.explicit /\ stock[n] = "loaded" /\ m.window > 0 THEN m.window ELSE m.stated

\* hybrid::route
Side ==
  LET budget == LocalBudget(Here)
  IN IF request.pin # "none" THEN request.pin
     ELSE IF budget > 0 /\ request.size > budget THEN "cloud" ELSE "local"

\* resolve_hybrid_side and resolve_remote_target
ResolveSide ==
  /\ request.pc = "resolve"
  /\ Enter(IF request.name = "provider" \/ (request.name = "pair" /\ Side = "cloud")
           THEN "provider" ELSE "local")
  /\ UNCHANGED <<machine, stock>>

\* A node with peers answers for all of them, unless a peer sent the request.
Aggregates == Peers[Here] # <<>> /\ request.hops = 0

\* The model is loaded here, or the peers are asked.
LookHere ==
  /\ request.pc = "local"
  /\ IF stock[Here] = "loaded" THEN Enter("serving")
     ELSE IF Aggregates
          THEN request' = [request EXCEPT !.pc = "polling", !.polled[Here] = stock[Here]]
          ELSE Enter("load")
  /\ UNCHANGED <<machine, stock>>

PeersHere == {Peers[Here][i] : i \in 1..Len(Peers[Here])}

\* poll: all at once; a peer that is down or slow takes no part.
PollAnswer(p) ==
  /\ request.pc = "polling" /\ p \in PeersHere /\ request.polled[p] = "unasked"
  /\ \E answer \in {stock[p], "silent"} : request' = [request EXCEPT !.polled[p] = answer]
  /\ UNCHANGED <<machine, stock>>

\* This node and its peers, in order, and which of them take part.
Order == <<Here>> \o Peers[Here]

Candidates == {i \in 1..Len(Order) : request.polled[Order[i]] # "silent"}

Stored(n) == request.polled[n] \in {"stored", "loaded"}

SizeKnown == \E i \in Candidates : Stored(Order[i])

Fits(n) == ~SizeKnown \/ ~machine[n].known \/ machine[n].room >= Weight

\* rank: fitting, then stored, then room.
Rank(n) ==
  LET room == IF machine[n].known THEN machine[n].room ELSE 0
  IN room + (IF Fits(n) THEN 10 ELSE 0) + (IF Fits(n) /\ Stored(n) THEN 5 ELSE 0)

LoadedThere == {i \in Candidates : request.polled[Order[i]] = "loaded"}

BestThere == {i \in Candidates : \A j \in Candidates : Rank(Order[j]) <= Rank(Order[i])}

MutantPlace ==
  Order[IF LoadedThere # {} THEN CHOOSE i \in LoadedThere : \A j \in LoadedThere : i <= j
        ELSE CHOOSE i \in BestThere : \A j \in BestThere : j <= i]

\* place: the first that has it loaded, or else the first of the best.
Place ==
  LET from == IF LoadedThere # {} THEN LoadedThere ELSE BestThere
  IN Order[CHOOSE i \in from : \A j \in from : i <= j]

MutantForwarded(p) ==
  [request EXCEPT !.pc = "resolve", !.node = p, !.pin = "none", !.hops = @ + 1, !.polled = Unasked]

\* forward_ollama and the OpenAI proxies: the half that was chosen goes to
\* the peer, without the client's headers.
Forwarded(p) ==
  [request EXCEPT !.pc = "resolve", !.node = p, !.name = "model", !.pin = "none",
                  !.hops = @ + 1, !.polled = Unasked]

\* route.  Forwarding may fail, and what a peer then answers is passed on.
Route ==
  /\ request.pc = "polling" /\ \A p \in PeersHere : request.polled[p] # "unasked"
  /\ \/ Place = Here /\ request' = [request EXCEPT !.pc = "load", !.polled = Unasked]
     \/ Place # Here /\ (request' = Forwarded(Place) \/ Over)
  /\ UNCHANGED <<machine, stock>>

\* The rest of resolve_target: pull and load, or fail.
LoadHere ==
  /\ request.pc = "load"
  /\ \/ stock' = [stock EXCEPT ![Here] = "loaded"] /\ Enter("serving")
     \/ UNCHANGED stock /\ Over
  /\ UNCHANGED machine

EndRequest ==
  /\ request.pc \in {"serving", "provider"}
  /\ Over
  /\ UNCHANGED <<machine, stock>>

\* with_hybrid_fallback: the context refusal of a backend of this node.
Refused ==
  /\ request.pc = "serving"
  /\ IF request.name = "pair" /\ request.pin # "local" THEN Enter("provider") ELSE Over
  /\ UNCHANGED <<machine, stock>>

\* Other requests of a node: a load, an unload, a removal.
OtherRequests(n) ==
  /\ \/ stock[n] = "loaded" /\ stock' = [stock EXCEPT ![n] = "stored"]
     \/ stock[n] = "stored" /\ stock' = [stock EXCEPT ![n] = "none"]
     \/ stock[n] # "loaded" /\ stock' = [stock EXCEPT ![n] = "loaded"]
  /\ UNCHANGED <<machine, request>>

RoutingNext ==
  \/ \E n \in Nodes : ArriveAt(n) \/ PollAnswer(n) \/ OtherRequests(n)
  \/ ResolveSide \/ LookHere \/ Route \/ LoadHere \/ EndRequest \/ Refused

RoutingSpec == RoutingInit /\ [][RoutingNext]_routingVars

(***************************************************************************)
(* Properties                                                              *)
(***************************************************************************)

RoutingTypeOK ==
  /\ machine \in Fleets
  /\ stock \in [Nodes -> Stocks]
  /\ request \in Requests

\* A pair pinned to one side is served by that side, through a hop to a peer
\* (where the pin does not go), its choice there and the retry
\* (hybrid.rs, "data sent to someone else's servers is not" recoverable);
\* and a forwarded request is never forwarded again.
StaysWhereItMay ==
  /\ request.pc = "provider" => request.asked # "local"
  /\ request.pc \in {"load", "serving"} => request.asked # "cloud"
  /\ request.hops <= 1

\* A cold request goes where docs/aggregation.md:83-87 says: to a node that
\* has the model loaded; else, of the nodes it fits on, to one that has it
\* stored; else to the one with the most room, and this node wins ties.
PlacedAsDocumented ==
  [][request.pc = "polling" /\ request'.pc \in {"load", "resolve"} =>
       LET answered == {n \in {Here} \cup PeersHere : request.polled[n] # "silent"}
           loaded == {n \in answered : request.polled[n] = "loaded"}
           size == \E n \in answered : Stored(n)
           fit == {n \in answered : size /\ machine[n].known => machine[n].room >= Weight}
           have == {n \in fit : Stored(n)}
           choice == IF fit = {} THEN answered ELSE IF have # {} THEN have ELSE fit
           room(n) == IF machine[n].known THEN machine[n].room ELSE 0
           best == {n \in choice : \A o \in choice : room(o) <= room(n)}
       IN /\ loaded # {} => request'.node \in loaded
          /\ loaded = {} => request'.node \in best /\ (Here \in best => request'.node = Here)
    ]_routingVars
=============================================================================
