----------------------------- MODULE NodeProofs -----------------------------
(***************************************************************************)
(* What a node serves and what it keeps.  A pair that its client pinned is *)
(* served by the side of the pin, through any aggregation (the pin does not*)
(* travel, but neither does the pair); a cold request goes where the       *)
(* documentation says; and a load spawns the backend that was there.  The  *)
(* store keeps what its tags need, whatever sweeps it.                     *)
(***************************************************************************)
EXTENDS Routing, LazyRuntime, BlobStore, WellFoundedInduction, TLAPS

(***************************************************************************)
(* Serving: Routing and LazyRuntime                                        *)
(***************************************************************************)

\* Nothing here depends on where the request is or on what was polled.
RequestTypes ==
  /\ DOMAIN request = {"pc", "node", "name", "pin", "size", "hops", "polled", "asked"}
  /\ request.pc \in {"idle", "resolve", "local", "polling", "load", "serving", "provider"}
  /\ request.name \in {"model", "pair", "provider"}
  /\ request.pin \in {"none", "local", "cloud"} /\ request.asked \in {"none", "local", "cloud"}
  /\ request.hops \in {0, 1}

\* Until it is forwarded a request carries the pin it came with; from then
\* on it names a model, and whoever asked for the cloud is not forwarded.
PinCarried ==
  /\ request.hops = 0 => request.pin = request.asked
  /\ request.hops = 1 => request.name = "model" /\ request.asked # "cloud"
  /\ request.name # "pair" /\ request.hops = 0 => request.asked = "none"

\* The side that was chosen is the pin's.
SideKept ==
  /\ request.pc \in {"local", "polling", "load", "serving"} => request.asked # "cloud"
  /\ request.pc = "provider" => request.asked # "local"
  /\ request.pc = "polling" => request.hops = 0

RouteInv == RequestTypes /\ PinCarried /\ SideKept

\* A request ends, and its slot is free for another.
LEMMA OverKeeps == Over => RouteInv'
  BY DEF RouteInv, RequestTypes, PinCarried, SideKept, Over, NoRequest

\* Where a request is may change, as long as the pin allows it.
LEMMA EnterKeeps ==
  ASSUME RouteInv, NEW pc \in {"local", "load", "serving", "provider"}, Enter(pc),
         pc = "provider" => request.asked # "local",
         pc # "provider" => request.asked # "cloud"
  PROVE  RouteInv'
<1>1. /\ DOMAIN request' = DOMAIN request /\ request'.pc = pc
      /\ request'.name = request.name /\ request'.pin = request.pin
      /\ request'.asked = request.asked /\ request'.hops = request.hops
  BY DEF RouteInv, RequestTypes, Enter
<1> QED
  BY <1>1 DEF RouteInv, RequestTypes, PinCarried, SideKept

\* The side of a pinned pair is the pin.
LEMMA SideObeysPin == request.pin # "none" => Side = request.pin
  BY DEF Side

\* A pair that arrives, pinned or not.
LEMMA ArriveKeeps ==
  ASSUME NEW n \in Nodes, ArriveAt(n)
  PROVE  RouteInv'
<1> PICK name \in {"model", "pair", "provider"}, pin \in {"none", "local", "cloud"}, size \in Sizes :
      /\ name # "pair" => pin = "none" /\ size = 0
      /\ request' = [NoRequest EXCEPT !.pc = "resolve", !.node = n, !.name = name, !.pin = pin,
                       !.size = size, !.asked = pin]
  BY DEF ArriveAt
<1>1. /\ DOMAIN request' = {"pc", "node", "name", "pin", "size", "hops", "polled", "asked"}
      /\ request'.pc = "resolve" /\ request'.name = name /\ request'.pin = pin
      /\ request'.asked = pin /\ request'.hops = 0
  BY DEF NoRequest
<1> QED
  BY <1>1 DEF RouteInv, RequestTypes, PinCarried, SideKept

\* The half that is chosen, here or on the peer that was sent a half.
LEMMA ResolveKeeps ==
  ASSUME RouteInv, ResolveSide
  PROVE  RouteInv'
<1> DEFINE cloud == request.name = "provider" \/ (request.name = "pair" /\ Side = "cloud")
<1>1. CASE cloud
  <2>1. request.asked # "local"
    BY <1>1, SideObeysPin DEF RouteInv, RequestTypes, PinCarried
  <2> QED
    BY <1>1, <2>1, EnterKeeps DEF ResolveSide
<1>2. CASE ~cloud
  <2>1. request.asked # "cloud"
    BY <1>2, SideObeysPin DEF RouteInv, RequestTypes, PinCarried
  <2> QED
    BY <1>2, <2>1, EnterKeeps DEF ResolveSide
<1> QED
  BY <1>1, <1>2

\* Only a request that was not forwarded is polled for.
LEMMA LookKeeps ==
  ASSUME RouteInv, LookHere
  PROVE  RouteInv'
<1>1. request.asked # "cloud"
  BY DEF LookHere, RouteInv, SideKept
<1>2. CASE stock[Here] = "loaded" \/ ~Aggregates
  BY <1>1, <1>2, EnterKeeps DEF LookHere
<1>3. CASE stock[Here] # "loaded" /\ Aggregates
  <2>1. request' = [request EXCEPT !.pc = "polling", !.polled[Here] = stock[Here]]
    BY <1>3 DEF LookHere
  <2>2. /\ DOMAIN request' = DOMAIN request /\ request'.pc = "polling"
        /\ request'.name = request.name /\ request'.pin = request.pin
        /\ request'.asked = request.asked /\ request'.hops = request.hops
    BY <2>1 DEF RouteInv, RequestTypes
  <2> QED
    BY <1>1, <1>3, <2>2 DEF RouteInv, RequestTypes, PinCarried, SideKept, Aggregates
<1> QED
  BY <1>2, <1>3

\* A peer's answer is noted.
LEMMA PollKeeps ==
  ASSUME RouteInv, NEW p \in Nodes, PollAnswer(p)
  PROVE  RouteInv'
<1> PICK answer \in {stock[p], "silent"} : request' = [request EXCEPT !.polled[p] = answer]
  BY DEF PollAnswer
<1>1. /\ DOMAIN request' = DOMAIN request /\ request'.pc = request.pc
      /\ request'.name = request.name /\ request'.pin = request.pin
      /\ request'.asked = request.asked /\ request'.hops = request.hops
  BY DEF RouteInv, RequestTypes
<1> QED
  BY <1>1 DEF RouteInv, RequestTypes, PinCarried, SideKept

\* A request is forwarded once, as the half that was chosen.
LEMMA RouteKeeps ==
  ASSUME RouteInv, Route
  PROVE  RouteInv'
<1>1. request.hops = 0 /\ request.asked # "cloud"
  BY DEF Route, RouteInv, SideKept
<1>2. CASE request' = [request EXCEPT !.pc = "load", !.polled = Unasked]
  <2>1. /\ DOMAIN request' = DOMAIN request /\ request'.pc = "load"
        /\ request'.name = request.name /\ request'.pin = request.pin
        /\ request'.asked = request.asked /\ request'.hops = request.hops
    BY <1>2 DEF RouteInv, RequestTypes
  <2> QED
    BY <1>1, <2>1 DEF RouteInv, RequestTypes, PinCarried, SideKept
<1>3. CASE request' = Forwarded(Place)
  <2>1. PICK p : p = Place
    OBVIOUS
  <2>2. /\ DOMAIN request' = DOMAIN request /\ request'.pc = "resolve"
        /\ request'.name = "model" /\ request'.pin = "none"
        /\ request'.asked = request.asked /\ request'.hops = 1
    BY <1>1, <1>3, <2>1 DEF RouteInv, RequestTypes, Forwarded
  <2> QED
    BY <1>1, <2>2 DEF RouteInv, RequestTypes, PinCarried, SideKept
<1> QED
  BY <1>2, <1>3, OverKeeps DEF Route

\* The retry of a refused request: only here, and never against the pin.
LEMMA RefusedKeeps ==
  ASSUME RouteInv, Refused
  PROVE  RouteInv'
<1>1. CASE request.name = "pair" /\ request.pin # "local"
  BY <1>1, EnterKeeps DEF Refused, RouteInv, RequestTypes, PinCarried
<1>2. CASE ~(request.name = "pair" /\ request.pin # "local")
  BY <1>2, OverKeeps DEF Refused
<1> QED
  BY <1>1, <1>2

\* Every step keeps the pin.
LEMMA StepKeepsPin == RouteInv /\ [RoutingNext]_routingVars => RouteInv'
<1> SUFFICES ASSUME RouteInv, [RoutingNext]_routingVars PROVE RouteInv'
  OBVIOUS
<1>1. CASE LoadHere
  <2>1. request.asked # "cloud"
    BY <1>1 DEF LoadHere, RouteInv, SideKept
  <2> QED
    BY <1>1, <2>1, EnterKeeps, OverKeeps DEF LoadHere
<1>2. CASE EndRequest
  BY <1>2, OverKeeps DEF EndRequest
<1>3. CASE \E n \in Nodes : ArriveAt(n) \/ PollAnswer(n)
  BY <1>3, ArriveKeeps, PollKeeps
<1>4. CASE (\E n \in Nodes : OtherRequests(n)) \/ UNCHANGED routingVars
  BY <1>4 DEF OtherRequests, routingVars, RouteInv, RequestTypes, PinCarried, SideKept
<1> QED
  BY <1>1, <1>2, <1>3, <1>4, ResolveKeeps, LookKeeps, RouteKeeps, RefusedKeeps DEF RoutingNext

\* A pinned pair never leaves its side and no request is forwarded twice, for
\* any nodes that list one another in any way, whatever they have and do.
THEOREM PinsHold == RoutingSpec => []StaysWhereItMay
<1>1. RoutingInit => RouteInv
  BY DEF RoutingInit, RouteInv, RequestTypes, PinCarried, SideKept, NoRequest
<1>2. RouteInv /\ [RoutingNext]_routingVars => RouteInv'
  BY StepKeepsPin
<1>3. RouteInv => StaysWhereItMay
  BY DEF RouteInv, RequestTypes, SideKept, StaysWhereItMay
<1> QED
  BY <1>1, <1>2, <1>3, PTL DEF RoutingSpec
(***************************************************************************)
(* Where a cold request is placed                                          *)
(***************************************************************************)

LEMMA LeastNatural ==
  ASSUME NEW S \in SUBSET Nat, S # {}
  PROVE  \E n \in S : \A m \in S : n <= m
<1>1. PICK n \in S : \A m \in S : <<m, n>> \notin OpToRel(<, Nat)
  BY NatLessThanWellFounded, WFMin, Zenon
<1>2. \A m \in S : ~(m < n)
  BY <1>1, Zenon DEF OpToRel
<1> QED
  BY <1>2

\* This node always answers itself.
PollsItself == request.pc = "polling" => request.polled[Here] # "silent"

PlaceInv == RoutingTypeOK /\ RouteInv /\ PollsItself

AnsweredHere == {n \in {Here} \cup PeersHere : request.polled[n] # "silent"}

LEMMA OrderIs ==
  ASSUME RoutingTypeOK
  PROVE  /\ Order \in Seq(Nodes) /\ Len(Order) = Len(Peers[Here]) + 1 /\ Order[1] = Here
         /\ Len(Peers[Here]) \in Nat
         /\ \A i \in 1..Len(Peers[Here]) : Order[i + 1] = Peers[Here][i]
<1>1. Here \in Nodes /\ Peers[Here] \in Seq(Nodes)
  BY RoutingAssumption DEF RoutingTypeOK, Requests, Here
<1> QED
  BY <1>1 DEF Order

\* The candidates are the nodes that answered, in order.
LEMMA CandidatesAnswered ==
  ASSUME RoutingTypeOK
  PROVE  /\ \A i \in Candidates : Order[i] \in AnsweredHere
         /\ \A n \in AnsweredHere : \E i \in Candidates : Order[i] = n
<1>1. \A i \in 1..Len(Order) : Order[i] \in {Here} \cup PeersHere
  <2> SUFFICES ASSUME NEW i \in 1..Len(Order), i # 1 PROVE Order[i] \in PeersHere
    BY OrderIs
  <2>1. i - 1 \in 1..Len(Peers[Here]) /\ (i - 1) + 1 = i
    BY OrderIs
  <2> QED
    BY <2>1, OrderIs DEF PeersHere
<1>2. \A n \in {Here} \cup PeersHere : \E i \in 1..Len(Order) : Order[i] = n
  <2>1. 1 \in 1..Len(Order)
    BY OrderIs
  <2>2. \A i \in 1..Len(Peers[Here]) : i + 1 \in 1..Len(Order)
    BY OrderIs
  <2> QED
    BY <2>1, <2>2, OrderIs DEF PeersHere
<1> QED
  BY <1>1, <1>2 DEF Candidates, AnsweredHere

RoomOf(n) == IF machine[n].known THEN machine[n].room ELSE 0

LEMMA RankIs ==
  ASSUME RoutingTypeOK, NEW n \in Nodes
  PROVE  /\ RoomOf(n) \in 0..3 /\ Rank(n) \in 0..18
         /\ Rank(n) = RoomOf(n) + (IF Fits(n) THEN 10 ELSE 0) + (IF Fits(n) /\ Stored(n) THEN 5 ELSE 0)
<1>1. machine[n] \in Machines
  BY RoutingAssumption DEF RoutingTypeOK
<1>2. RoomOf(n) \in 0..3
  BY <1>1 DEF RoomOf, Machines, Rooms
<1>3. Rank(n) = RoomOf(n) + (IF Fits(n) THEN 10 ELSE 0) + (IF Fits(n) /\ Stored(n) THEN 5 ELSE 0)
  BY DEF Rank, RoomOf
<1> QED
  BY <1>2, <1>3

LEMMA AnsweredNodes ==
  ASSUME RoutingTypeOK
  PROVE  AnsweredHere \subseteq Nodes
<1>1. Here \in Nodes /\ Peers[Here] \in Seq(Nodes)
  BY RoutingAssumption DEF RoutingTypeOK, Requests, Here
<1> QED
  BY <1>1 DEF AnsweredHere, PeersHere

\* Some candidate is the best.
LEMMA SomeBest ==
  ASSUME RoutingTypeOK, Candidates # {}
  PROVE  BestThere # {}
<1>1. \A i \in Candidates : Order[i] \in Nodes
  BY CandidatesAnswered, AnsweredNodes
<1> DEFINE S == {18 - Rank(Order[i]) : i \in Candidates}
<1>2. \A i \in Candidates : Rank(Order[i]) \in 0..18
  BY <1>1, RankIs
<1>3. S \in SUBSET Nat /\ S # {}
  BY <1>2
<1>4. PICK m \in S : \A k \in S : m <= k
  BY <1>3, LeastNatural
<1>5. PICK i \in Candidates : m = 18 - Rank(Order[i])
  BY <1>4
<1>6. ASSUME NEW j \in Candidates PROVE Rank(Order[j]) <= Rank(Order[i])
  <2>1. 18 - Rank(Order[i]) <= 18 - Rank(Order[j])
    BY <1>4, <1>5
  <2> QED
    BY <2>1, <1>2
<1> QED
  BY <1>6 DEF BestThere

\* The first of those that qualify is taken.
LEMMA PlaceIsFirst ==
  ASSUME RoutingTypeOK, Candidates # {}
  PROVE  LET from == IF LoadedThere # {} THEN LoadedThere ELSE BestThere
         IN \E i \in from : Place = Order[i] /\ \A j \in from : i <= j
<1> DEFINE from == IF LoadedThere # {} THEN LoadedThere ELSE BestThere
<1>1. from \in SUBSET Nat /\ from # {}
  BY SomeBest, OrderIs DEF LoadedThere, BestThere, Candidates
<1>2. Place = Order[CHOOSE i \in from : \A j \in from : i <= j]
  BY DEF Place
<1> HIDE DEF from
<1>3. \E i \in from : \A j \in from : i <= j
  BY <1>1, LeastNatural
<1>4. \E i \in from : Place = Order[i] /\ \A j \in from : i <= j
  BY <1>2, <1>3
<1> QED
  BY <1>4 DEF from

FitThere == {n \in AnsweredHere : (\E o \in AnsweredHere : Stored(o)) /\ machine[n].known => machine[n].room >= Weight}

HaveThere == {n \in FitThere : Stored(n)}

ChoiceThere == IF FitThere = {} THEN AnsweredHere ELSE IF HaveThere # {} THEN HaveThere ELSE FitThere

\* The rank orders the nodes as the documentation does.
LEMMA RankAsDocumented ==
  ASSUME RoutingTypeOK, NEW n \in AnsweredHere
  PROVE  n \in {c \in ChoiceThere : \A o \in ChoiceThere : RoomOf(o) <= RoomOf(c)}
           <=> \A o \in AnsweredHere : Rank(o) <= Rank(n)
<1>1. SizeKnown <=> \E o \in AnsweredHere : Stored(o)
  BY CandidatesAnswered DEF SizeKnown
<1>2. \A o \in AnsweredHere : o \in FitThere <=> Fits(o)
  BY <1>1 DEF FitThere, Fits
<1>3. \A o \in AnsweredHere : o \in HaveThere <=> Fits(o) /\ Stored(o)
  BY <1>2 DEF HaveThere, FitThere
<1>4. \A o \in AnsweredHere :
        /\ RoomOf(o) \in 0..3
        /\ Rank(o) = RoomOf(o) + (IF o \in FitThere THEN 10 ELSE 0) + (IF o \in HaveThere THEN 5 ELSE 0)
  BY <1>2, <1>3, RankIs, AnsweredNodes
<1>5. HaveThere \subseteq FitThere /\ FitThere \subseteq AnsweredHere
  BY DEF HaveThere, FitThere
<1> DEFINE best == {c \in ChoiceThere : \A o \in ChoiceThere : RoomOf(o) <= RoomOf(c)}
<1>6. CASE FitThere = {}
  <2>1. ChoiceThere = AnsweredHere /\ \A o \in AnsweredHere : Rank(o) = RoomOf(o)
    BY <1>4, <1>5, <1>6 DEF ChoiceThere
  <2> QED
    BY <2>1
<1>7. CASE HaveThere # {}
  <2>1. ChoiceThere = HaveThere
    BY <1>5, <1>7 DEF ChoiceThere
  <2>2. PICK h \in HaveThere : TRUE
    BY <1>7
  <2>3. \A o \in AnsweredHere : IF o \in HaveThere THEN Rank(o) = RoomOf(o) + 15 ELSE Rank(o) < 15
    BY <1>4, <1>5
  <2>4. h \in AnsweredHere /\ Rank(h) >= 15
    BY <1>4, <1>5, <2>2, <2>3
  <2>5. ASSUME n \in best, NEW o \in AnsweredHere PROVE Rank(o) <= Rank(n)
    BY <2>5, <2>1, <2>3, <1>4, <1>5
  <2>6. ASSUME \A o \in AnsweredHere : Rank(o) <= Rank(n) PROVE n \in best
    <3>1. n \in HaveThere
      BY <2>3, <2>4, <2>6, <1>4
    <3>2. \A o \in HaveThere : RoomOf(o) <= RoomOf(n)
      BY <3>1, <2>3, <2>6, <1>4, <1>5
    <3> QED
      BY <3>1, <3>2, <2>1
  <2> QED
    BY <2>5, <2>6
<1>8. CASE FitThere # {} /\ HaveThere = {}
  <2>1. ChoiceThere = FitThere
    BY <1>8 DEF ChoiceThere
  <2>2. PICK h \in FitThere : TRUE
    BY <1>8
  <2>3. \A o \in AnsweredHere : IF o \in FitThere THEN Rank(o) = RoomOf(o) + 10 ELSE Rank(o) < 10
    BY <1>4, <1>8
  <2>4. h \in AnsweredHere /\ Rank(h) >= 10
    BY <1>4, <1>5, <2>2, <2>3
  <2>5. ASSUME n \in best, NEW o \in AnsweredHere PROVE Rank(o) <= Rank(n)
    BY <2>5, <2>1, <2>3, <1>4, <1>5
  <2>6. ASSUME \A o \in AnsweredHere : Rank(o) <= Rank(n) PROVE n \in best
    <3>1. n \in FitThere
      BY <2>3, <2>4, <2>6, <1>4
    <3>2. \A o \in FitThere : RoomOf(o) <= RoomOf(n)
      BY <3>1, <2>3, <2>6, <1>4, <1>5
    <3> QED
      BY <3>1, <3>2, <2>1
  <2> QED
    BY <2>5, <2>6
<1> QED
  BY <1>6, <1>7, <1>8

\* place does what the documentation says.
LEMMA PlaceAsDocumented ==
  ASSUME PlaceInv, request.pc = "polling"
  PROVE  LET loaded == {n \in AnsweredHere : request.polled[n] = "loaded"}
             best == {c \in ChoiceThere : \A o \in ChoiceThere : RoomOf(o) <= RoomOf(c)}
         IN /\ Place \in AnsweredHere
            /\ loaded # {} => Place \in loaded
            /\ loaded = {} => Place \in best /\ (Here \in best => Place = Here)
<1> DEFINE loaded == {n \in AnsweredHere : request.polled[n] = "loaded"}
           best == {c \in ChoiceThere : \A o \in ChoiceThere : RoomOf(o) <= RoomOf(c)}
           from == IF LoadedThere # {} THEN LoadedThere ELSE BestThere
<1> USE DEF PlaceInv
<1>1. 1 \in Candidates /\ Order[1] = Here
  BY OrderIs DEF PollsItself, Candidates
<1>2. PICK i \in from : Place = Order[i] /\ \A j \in from : i <= j
  BY <1>1, PlaceIsFirst
<1>3. i \in Candidates /\ Place \in AnsweredHere
  BY <1>2, CandidatesAnswered DEF LoadedThere, BestThere
<1>4. loaded # {} <=> LoadedThere # {}
  BY CandidatesAnswered DEF LoadedThere
<1>5. ASSUME loaded # {} PROVE Place \in loaded
  BY <1>2, <1>3, <1>4, <1>5 DEF LoadedThere
<1>6. ASSUME loaded = {} PROVE Place \in best /\ (Here \in best => Place = Here)
  <2>1. from = BestThere
    BY <1>4, <1>6
  <2>2. \A o \in AnsweredHere : Rank(o) <= Rank(Place)
    BY <1>2, <2>1, CandidatesAnswered DEF BestThere
  <2>3. Place \in best
    BY <1>3, <2>2, RankAsDocumented
  <2>4. ASSUME Here \in best PROVE Place = Here
    <3>1. Here \in AnsweredHere
      BY <1>1, CandidatesAnswered
    <3>2. \A o \in AnsweredHere : Rank(o) <= Rank(Here)
      BY <3>1, <2>4, RankAsDocumented
    <3>3. 1 \in BestThere
      BY <3>2, <1>1, CandidatesAnswered DEF BestThere
    <3>4. i <= 1 /\ i \in 1..Len(Order)
      BY <3>3, <2>1, <1>2, <1>3 DEF Candidates
    <3>5. i = 1
      BY <3>4, OrderIs
    <3> QED
      BY <3>5, <1>1, <1>2
  <2> QED
    BY <2>3, <2>4
<1> QED
  BY <1>3, <1>5, <1>6

LEMMA NoRequestTyped == NoRequest \in Requests /\ NoRequest.pc = "idle"
<1>1. (CHOOSE n \in Nodes : TRUE) \in Nodes
  BY RoutingAssumption
<1>2. Unasked \in [Nodes -> Stocks \cup {"unasked", "silent"}]
  BY DEF Unasked
<1> QED
  BY <1>1, <1>2 DEF NoRequest, Requests, Sizes

\* A request that goes on as r, whatever becomes of the stocks.
LEMMA RequestBecomes ==
  ASSUME PlaceInv, RouteInv', stock' \in [Nodes -> Stocks], machine' = machine,
         NEW r \in Requests, request' = r, r.pc = "polling" => r.polled[r.node] # "silent"
  PROVE  PlaceInv'
BY DEF PlaceInv, RoutingTypeOK, PollsItself, Here

LEMMA ArrivesTyped ==
  ASSUME PlaceInv, RouteInv', NEW n \in Nodes, ArriveAt(n)
  PROVE  PlaceInv'
<1>1. PICK name \in {"model", "pair", "provider"}, pin \in {"none", "local", "cloud"}, size \in Sizes :
        request' = [NoRequest EXCEPT !.pc = "resolve", !.node = n, !.name = name, !.pin = pin,
                                     !.size = size, !.asked = pin]
  BY DEF ArriveAt
<1>2. request' \in Requests /\ request'.pc = "resolve"
  BY <1>1, NoRequestTyped DEF Requests
<1>3. UNCHANGED <<machine, stock>>
  BY DEF ArriveAt
<1>4. PICK r \in Requests : r = request' /\ r.pc # "polling"
  BY <1>2
<1> QED
  BY <1>3, <1>4, RequestBecomes DEF PlaceInv, RoutingTypeOK

LEMMA EnterTyped ==
  ASSUME PlaceInv, RouteInv', stock' \in [Nodes -> Stocks], machine' = machine,
         NEW pc \in {"local", "load", "serving", "provider"}, Enter(pc)
  PROVE  PlaceInv'
<1>1. request \in Requests
  BY DEF PlaceInv, RoutingTypeOK
<1>2. request' \in Requests /\ request'.pc = pc
  BY <1>1 DEF Enter, Requests
<1>3. PICK r \in Requests : r = request' /\ r.pc # "polling"
  BY <1>2
<1> QED
  BY <1>3, RequestBecomes

LEMMA OverTyped ==
  ASSUME PlaceInv, RouteInv', stock' = stock, machine' = machine, Over
  PROVE  PlaceInv'
<1>1. PICK r \in Requests : r = request' /\ r.pc # "polling"
  BY NoRequestTyped DEF Over
<1> QED
  BY <1>1, RequestBecomes DEF PlaceInv, RoutingTypeOK

LEMMA PollsTyped ==
  ASSUME PlaceInv, RouteInv', LookHere \/ \E p \in Nodes : PollAnswer(p)
  PROVE  PlaceInv'
<1>1. /\ request \in Requests /\ stock \in [Nodes -> Stocks] /\ Here = request.node
      /\ UNCHANGED <<machine, stock>>
  BY DEF PlaceInv, RoutingTypeOK, Here, LookHere, PollAnswer
<1>2. CASE LookHere /\ request' = [request EXCEPT !.pc = "polling", !.polled[Here] = stock[Here]]
  <2>1. stock[Here] \in Stocks /\ stock[Here] # "silent" /\ Here \in Nodes
    BY <1>1 DEF Stocks, Requests
  <2>2. [request.polled EXCEPT ![Here] = stock[Here]] \in [Nodes -> Stocks \cup {"unasked", "silent"}]
    BY <2>1, <1>1 DEF Requests
  <2>3. request' = [request EXCEPT !.pc = "polling",
                                   !.polled = [request.polled EXCEPT ![Here] = stock[Here]]]
    BY <1>1, <1>2 DEF Requests
  <2>4. request' \in Requests /\ request'.polled[request'.node] # "silent"
    BY <2>1, <2>2, <2>3, <1>1 DEF Requests
  <2>5. PICK r \in Requests : r = request' /\ r.polled[r.node] # "silent"
    BY <2>4
  <2> QED
    BY <2>5, <1>1, RequestBecomes
<1>3. CASE LookHere /\ ~(request' = [request EXCEPT !.pc = "polling", !.polled[Here] = stock[Here]])
  BY <1>1, <1>3, EnterTyped DEF LookHere
<1>4. ASSUME NEW p \in Nodes, PollAnswer(p) PROVE PlaceInv'
  <2>1. PICK answer \in {stock[p], "silent"} : request' = [request EXCEPT !.polled[p] = answer]
    BY <1>4 DEF PollAnswer
  <2>2. answer \in Stocks \cup {"silent"}
    BY <1>1
  \* No node lists itself.
  <2>3. p # Here
    <3>1. PICK i \in 1..Len(Peers[Here]) : p = Peers[Here][i]
      BY <1>4 DEF PollAnswer, PeersHere
    <3> QED
      BY <3>1, <1>1, RoutingAssumption DEF Requests
  <2>4. [request.polled EXCEPT ![p] = answer] \in [Nodes -> Stocks \cup {"unasked", "silent"}]
    BY <2>2, <1>1 DEF Requests
  <2>5. request' = [request EXCEPT !.polled = [request.polled EXCEPT ![p] = answer]]
    BY <2>1, <1>1 DEF Requests
  <2>6. request' \in Requests /\ request'.polled[request'.node] # "silent"
    BY <2>3, <2>4, <2>5, <1>1, <1>4 DEF Requests, PollAnswer, PlaceInv, PollsItself
  <2>7. PICK r \in Requests : r = request' /\ r.polled[r.node] # "silent"
    BY <2>6
  <2> QED
    BY <2>7, <1>1, RequestBecomes
<1> QED
  BY <1>2, <1>3, <1>4

LEMMA RouteTyped ==
  ASSUME PlaceInv, RouteInv', Route
  PROVE  PlaceInv' /\ (request'.pc \in {"load", "resolve"} => request'.node = Place)
<1>1. request \in Requests /\ UNCHANGED <<machine, stock>> /\ request.pc = "polling"
  BY DEF PlaceInv, RoutingTypeOK, Route
<1>2. Unasked \in [Nodes -> Stocks \cup {"unasked", "silent"}]
  BY DEF Unasked
<1>3. PICK p \in Nodes : p = Place
  BY <1>1, PlaceAsDocumented, AnsweredNodes DEF PlaceInv
<1>4. CASE Place = Here /\ request' = [request EXCEPT !.pc = "load", !.polled = Unasked]
  <2>1. request' \in Requests /\ request'.pc = "load" /\ request'.node = Here
    BY <1>1, <1>2, <1>4 DEF Requests, Here
  <2>2. PICK r \in Requests : r = request' /\ r.pc # "polling"
    BY <2>1
  <2> QED
    BY <2>1, <2>2, <1>1, <1>4, RequestBecomes DEF PlaceInv, RoutingTypeOK
<1>5. CASE request' = Forwarded(Place)
  <2>1. request.hops = 0
    BY <1>1 DEF PlaceInv, RouteInv, SideKept
  <2>2. request' \in Requests /\ request'.pc = "resolve" /\ request'.node = p
    <3>1. PICK once \in 0..2 : once = 1
      OBVIOUS
    <3>2. request' = [request EXCEPT !.pc = "resolve", !.node = p, !.name = "model", !.pin = "none",
                                     !.hops = once, !.polled = Unasked]
      BY <1>1, <1>3, <1>5, <2>1, <3>1 DEF Forwarded, Requests
    <3> QED
      BY <3>2, <1>1, <1>2 DEF Requests
  <2>3. PICK r \in Requests : r = request' /\ r.pc # "polling"
    BY <2>2
  <2> QED
    BY <2>2, <2>3, <1>1, <1>3, RequestBecomes DEF PlaceInv, RoutingTypeOK
<1>6. CASE Over
  <2>1. request'.pc = "idle"
    BY <1>6, NoRequestTyped DEF Over
  <2> QED
    BY <2>1, <1>1, <1>6, OverTyped
<1> QED
  BY <1>4, <1>5, <1>6 DEF Route

LEMMA OthersTyped ==
  ASSUME PlaceInv, RouteInv', \E n \in Nodes : OtherRequests(n)
  PROVE  PlaceInv'
<1>1. PICK n \in Nodes, s \in Stocks : stock' = [stock EXCEPT ![n] = s]
  BY DEF OtherRequests, Stocks
<1>2. stock' \in [Nodes -> Stocks]
  BY <1>1 DEF PlaceInv, RoutingTypeOK
<1> QED
  BY <1>2 DEF OtherRequests, PlaceInv, RoutingTypeOK, PollsItself, Here

LEMMA PlaceStep ==
  ASSUME PlaceInv, [RoutingNext]_routingVars
  PROVE  /\ PlaceInv'
         /\ request.pc = "polling" /\ request'.pc \in {"load", "resolve"} => request'.node = Place
<1>1. RouteInv'
  BY StepKeepsPin DEF PlaceInv
<1>2. stock \in [Nodes -> Stocks] /\ request \in Requests
  BY DEF PlaceInv, RoutingTypeOK
<1>3. CASE Route
  BY <1>1, <1>3, RouteTyped
<1>4. CASE LookHere \/ \E p \in Nodes : PollAnswer(p)
  <2>1. PlaceInv'
    BY <1>1, <1>4, PollsTyped
  <2>2. request.pc = "polling" => request'.pc = "polling"
    BY <1>2, <1>4 DEF LookHere, PollAnswer, Requests
  <2> QED
    BY <2>1, <2>2
<1>5. CASE \E n \in Nodes : ArriveAt(n)
  BY <1>1, <1>5, ArrivesTyped DEF ArriveAt
<1>6. CASE ResolveSide \/ LoadHere \/ EndRequest \/ Refused
  <2>1. request.pc # "polling"
    BY <1>6 DEF ResolveSide, LoadHere, EndRequest, Refused
  <2>2. CASE ResolveSide
    BY <2>1, <2>2, <1>1, <1>2, EnterTyped DEF ResolveSide
  <2>3. CASE LoadHere
    <3>1. machine' = machine /\ stock' \in [Nodes -> Stocks]
      BY <2>3, <1>2 DEF LoadHere, Stocks
    <3>2. Enter("serving") \/ (stock' = stock /\ Over)
      BY <2>3 DEF LoadHere
    <3> QED
      BY <2>1, <3>1, <3>2, <1>1, EnterTyped, OverTyped
  <2>4. CASE EndRequest
    BY <2>1, <2>4, <1>1, OverTyped DEF EndRequest
  <2>5. CASE Refused
    BY <2>1, <2>5, <1>1, <1>2, EnterTyped, OverTyped DEF Refused
  <2> QED
    BY <1>6, <2>2, <2>3, <2>4, <2>5
<1>7. CASE \E n \in Nodes : OtherRequests(n)
  BY <1>1, <1>7, OthersTyped DEF OtherRequests
<1>8. CASE UNCHANGED routingVars
  BY <1>8 DEF routingVars, PlaceInv, RoutingTypeOK, RouteInv, RequestTypes, PinCarried, SideKept,
              PollsItself, Here
<1> QED
  BY <1>3, <1>4, <1>5, <1>6, <1>7, <1>8 DEF RoutingNext

\* A cold request goes where docs/aggregation.md:83-87 says, for any nodes
\* that list one another in any order, whatever they have and whoever of
\* them answers: place's rank orders them as the documentation does, and the
\* first of the best, this node if it is one, is taken.
THEOREM PlacesAsDocumented == RoutingSpec => PlacedAsDocumented
<1>1. RoutingInit => PlaceInv
  <2>1. RoutingInit => RouteInv
    BY DEF RoutingInit, RouteInv, RequestTypes, PinCarried, SideKept, NoRequest
  <2>2. RoutingInit => RoutingTypeOK /\ PollsItself
    BY NoRequestTyped DEF RoutingInit, RoutingTypeOK, PollsItself, Stocks
  <2> QED
    BY <2>1, <2>2 DEF PlaceInv
<1>2. PlaceInv /\ [RoutingNext]_routingVars => PlaceInv'
  BY PlaceStep
<1> DEFINE documented ==
      request.pc = "polling" /\ request'.pc \in {"load", "resolve"} =>
         LET answered == {n \in {Here} \cup PeersHere : request.polled[n] # "silent"}
             loaded == {n \in answered : request.polled[n] = "loaded"}
             size == \E n \in answered : Stored(n)
             fit == {n \in answered : size /\ machine[n].known => machine[n].room >= Weight}
             have == {n \in fit : Stored(n)}
             choice == IF fit = {} THEN answered ELSE IF have # {} THEN have ELSE fit
             room(n) == IF machine[n].known THEN machine[n].room ELSE 0
             best == {n \in choice : \A o \in choice : room(o) <= room(n)}
         IN /\ loaded # {} => request'.node \in loaded
            /\ loaded = {} => request'.node \in best /\ (Here \in best => request'.node = Here)
<1>3. PlaceInv /\ [RoutingNext]_routingVars => documented
  <2> SUFFICES ASSUME PlaceInv, [RoutingNext]_routingVars,
                      request.pc = "polling", request'.pc \in {"load", "resolve"}
               PROVE  documented
    OBVIOUS
  <2>1. request'.node = Place
    BY PlaceStep
  <2> QED
    BY <2>1, PlaceAsDocumented DEF AnsweredHere, FitThere, HaveThere, ChoiceThere, RoomOf
<1>4. PlacedAsDocumented <=> [][documented]_routingVars
  BY DEF PlacedAsDocumented
<1> HIDE DEF documented
<1>5. PlaceInv /\ [RoutingNext]_routingVars => [documented]_routingVars
  BY <1>3
<1> QED
  BY <1>1, <1>2, <1>4, <1>5, PTL DEF RoutingSpec

(***************************************************************************)
(* The backend a load spawns                                               *)
(***************************************************************************)

\* Whoever is past idle has seen every binary there is.
AllSeen == \A l \in Loads : ~Doing(l, {"idle"}) => installed \subseteq load[l].seen

\* The load that resolves has the mutex, and finds what it was given it for.
ResolversLocked == \A l \in Loads :
  /\ Doing(l, {"resolving", "reresolving"}) => resolving = l
  /\ Doing(l, {"resolving"}) => resolved = Unresolved
  /\ Doing(l, {"reresolving"}) => vanished

\* A load checks a binary only, and then a binary is what is resolved.
BinariesChecked == \A l \in Loads :
  Doing(l, {"check", "recheck", "reresolving"}) => resolved \in Binaries

\* What is resolved is there, or was missed.
MissedIsVanished == resolved \in installed \cup {Container, Unresolved} \/ vanished

RuntimeInv ==
  /\ RuntimeTypeOK /\ AllSeen /\ SpawnsWhatWasThere
  /\ ResolversLocked /\ BinariesChecked /\ MissedIsVanished

\* A step of l: where it goes, with what, and everybody sees what is there.
BecomesOf(l, pc, mine) ==
  /\ load'[l].pc = pc /\ load'[l].mine = mine
  /\ pc # "idle" => load'[l].seen = load[l].seen \cup installed'
  /\ \A k \in Loads : k # l => /\ load'[k].pc = load[k].pc /\ load'[k].mine = load[k].mine
                               /\ ~Doing(k, {"idle"}) => load'[k].seen = load[k].seen \cup installed'

LEMMA BecomeOf ==
  ASSUME RuntimeTypeOK, installed' \subseteq Binaries, NEW l \in Loads, NEW pc, NEW mine,
         pc \in {"idle", "resolve", "resolving", "check", "recheck", "reresolving", "orphan",
                 "using"},
         mine \in Binaries \cup {Container, Unresolved}, Become(l, pc, mine)
  PROVE  load' \in [Loads -> LoadStates] /\ BecomesOf(l, pc, mine)
  <1> DEFINE f == [load EXCEPT ![l].pc = pc, ![l].mine = mine]
  <1>1. /\ f \in [Loads -> LoadStates] /\ f[l].pc = pc /\ f[l].mine = mine
        /\ f[l].seen = load[l].seen /\ \A k \in Loads : k # l => f[k] = load[k]
    BY DEF RuntimeTypeOK, LoadStates
  <1>2. load' = Seeing(f)
    BY DEF Become
  <1> HIDE DEF f
  <1>3. \A k \in Loads : /\ load'[k] = [f[k] EXCEPT !.seen = IF f[k].pc = "idle" THEN {} ELSE @ \cup installed']
    BY <1>2 DEF Seeing
  <1>4. \A k \in Loads : /\ load'[k] \in LoadStates
                         /\ load'[k].pc = f[k].pc /\ load'[k].mine = f[k].mine
                         /\ f[k].pc # "idle" => load'[k].seen = f[k].seen \cup installed'
    <2> TAKE k \in Loads
    <2>1. f[k] \in LoadStates
      BY <1>1
    <2>2. CASE f[k].pc = "idle"
      BY <1>3, <2>1, <2>2 DEF LoadStates
    <2>3. CASE f[k].pc # "idle"
      <3>1. load'[k] = [f[k] EXCEPT !.seen = @ \cup installed']
        BY <1>3, <2>3
      <3>. QED BY <2>1, <3>1 DEF LoadStates
    <2>. QED BY <2>2, <2>3
  <1>5. load' \in [Loads -> LoadStates]
    BY <1>2, <1>4 DEF Seeing
  <1>6. BecomesOf(l, pc, mine)
    BY <1>1, <1>4 DEF BecomesOf, Doing
  <1>. QED BY <1>5, <1>6

LEMMA InitRuntime == RuntimeInit => RuntimeInv
  <1> SUFFICES ASSUME RuntimeInit PROVE RuntimeInv
    OBVIOUS
  <1>1. RuntimeTypeOK
    BY DEF RuntimeInit, RuntimeTypeOK, LoadStates, NewLoad
  <1>2. \A l \in Loads : load[l].pc = "idle"
    BY DEF RuntimeInit, NewLoad
  <1>3. MissedIsVanished
    BY DEF RuntimeInit, MissedIsVanished
  <1>. QED BY <1>1, <1>2, <1>3
         DEF RuntimeInv, AllSeen, SpawnsWhatWasThere, ResolversLocked, BinariesChecked, Doing

\* What is left to show of a step once BecomesOf says what it is.
LEMMA StepOfRuntime ==
  ASSUME RuntimeInv, NEW l \in Loads, NEW pc, NEW mine, BecomesOf(l, pc, mine),
         load' \in [Loads -> LoadStates], installed \subseteq installed',
         installed' \subseteq Binaries, resolving' \in Loads \cup {Unresolved},
         resolved' \in Binaries \cup {Container, Unresolved}, vanished' \in BOOLEAN,
         pc = "using" => mine \in load[l].seen \cup installed' \cup {Container},
         pc \in {"resolving", "reresolving"} => resolving \in {l, Unresolved} /\ resolving' = l,
         pc \notin {"resolving", "reresolving"} => resolving' \in {resolving, Unresolved},
         resolving' = Unresolved => resolving \in {l, Unresolved},
         pc = "resolving" => resolved' = Unresolved,
         pc = "reresolving" => vanished',
         pc \in {"check", "recheck", "reresolving"} => resolved' \in Binaries,
         (resolved' = resolved /\ vanished' = vanished)
           \/ (resolving = l /\ resolved' \in installed' \cup {Container}
               /\ (resolved \in Binaries => resolved' \in Binaries))
  PROVE  RuntimeInv'
  <1> USE RuntimeAssumption
  <1>1. RuntimeTypeOK'
    BY DEF RuntimeTypeOK
  <1>2. AllSeen' /\ SpawnsWhatWasThere'
    BY DEF RuntimeInv, AllSeen, SpawnsWhatWasThere, BecomesOf, Doing
  <1>3. \A k \in Loads : k # l /\ Doing(k, {"resolving", "reresolving"}) => resolving # l /\ resolving' = k
    BY DEF RuntimeInv, ResolversLocked
  <1>4. ResolversLocked'
    BY <1>3 DEF RuntimeInv, ResolversLocked, BecomesOf, Doing
  <1>5. BinariesChecked' /\ MissedIsVanished'
    BY DEF RuntimeInv, BinariesChecked, MissedIsVanished, BecomesOf, Doing, RuntimeTypeOK
  <1>. QED BY <1>1, <1>2, <1>4, <1>5 DEF RuntimeInv

\* The shapes a step of a load takes: it keeps what is resolved, or it has the
\* mutex and resolves.
LEMMA KeepingStep ==
  ASSUME RuntimeInv, NEW l \in Loads, NEW pc, NEW mine, Become(l, pc, mine),
         pc \in {"idle", "resolve", "check", "recheck", "orphan", "using"},
         mine \in Binaries \cup {Container, Unresolved},
         UNCHANGED <<resolved, installed, vanished>>,
         resolving' = resolving \/ (resolving = l /\ resolving' = Unresolved),
         pc = "using" => mine \in installed \cup {Container},
         pc \in {"check", "recheck"} => resolved \in Binaries
  PROVE  RuntimeInv'
  <1>1. RuntimeTypeOK /\ installed' \subseteq Binaries
    BY DEF RuntimeInv, RuntimeTypeOK
  <1>2. load' \in [Loads -> LoadStates] /\ BecomesOf(l, pc, mine)
    BY <1>1, BecomeOf
  <1>. QED BY <1>1, <1>2, StepOfRuntime, RuntimeAssumption DEF RuntimeTypeOK

LEMMA LockingStep ==
  ASSUME RuntimeInv, NEW l \in Loads, NEW pc, NEW mine, Become(l, pc, mine),
         pc \in {"resolving", "reresolving"},
         mine \in Binaries \cup {Container, Unresolved},
         UNCHANGED <<resolved, installed, vanished>>,
         resolving = Unresolved, resolving' = l,
         pc = "resolving" => resolved = Unresolved,
         pc = "reresolving" => resolved \in Binaries /\ vanished
  PROVE  RuntimeInv'
  <1>1. RuntimeTypeOK /\ installed' \subseteq Binaries
    BY DEF RuntimeInv, RuntimeTypeOK
  <1>2. load' \in [Loads -> LoadStates] /\ BecomesOf(l, pc, mine)
    BY <1>1, BecomeOf
  <1>. QED BY <1>1, <1>2, StepOfRuntime, RuntimeAssumption DEF RuntimeTypeOK

LEMMA ResolvingStep ==
  ASSUME RuntimeInv, NEW l \in Loads, NEW pc, NEW r, Become(l, pc, r), SetUp(r),
         r \in Binaries \cup {Container},
         pc \in {"using", "check"}, pc = "check" => r \in Binaries,
         resolving = l, resolving' = Unresolved,
         resolved \in Binaries => r \in Binaries
  PROVE  RuntimeInv'
  <1>1. /\ RuntimeTypeOK /\ installed \subseteq installed' /\ installed' \subseteq Binaries
        /\ r \in installed' \cup {Container} /\ resolved' = r /\ vanished' = FALSE
    BY DEF RuntimeInv, RuntimeTypeOK, SetUp
  <1>2. load' \in [Loads -> LoadStates] /\ BecomesOf(l, pc, r)
    BY <1>1, BecomeOf
  <1>. QED BY <1>1, <1>2, StepOfRuntime, RuntimeAssumption DEF RuntimeTypeOK

LEMMA LoadFits ==
  ASSUME RuntimeInv, NEW l \in Loads
  PROVE  /\ load[l].mine \in Binaries \cup {Container, Unresolved}
         /\ resolved \in Binaries \cup {Container, Unresolved}
         /\ Doing(l, {"resolving", "reresolving"}) => resolving = l
         /\ Doing(l, {"resolving"}) => resolved = Unresolved
         /\ Doing(l, {"reresolving"}) => vanished
         /\ Doing(l, {"check", "recheck", "reresolving"}) => resolved \in Binaries
         /\ resolved \in installed \cup {Container, Unresolved} \/ vanished
  BY DEF RuntimeInv, RuntimeTypeOK, LoadStates, ResolversLocked, BinariesChecked, MissedIsVanished

LoadStep(l) ==
  \/ AskRuntime(l) \/ LockToResolve(l) \/ Resolve(l) \/ CheckBinary(l) \/ LockToRecheck(l)
  \/ ResolveAgain(l) \/ Spawned(l) \/ Cancel(l) \/ OrphanEnds(l)

LEMMA LoadStepKeeps ==
  ASSUME RuntimeInv, NEW l \in Loads, LoadStep(l)
  PROVE  RuntimeInv'
  <1> USE RuntimeAssumption, LoadFits
  <1>1. CASE AskRuntime(l)
    BY <1>1, KeepingStep DEF AskRuntime, Got
  <1>2. CASE LockToResolve(l) /\ resolved = Unresolved
    BY <1>2, LockingStep DEF LockToResolve
  <1>3. CASE LockToResolve(l) /\ resolved # Unresolved
    BY <1>3, KeepingStep DEF LockToResolve, Got
  <1>4. ASSUME NEW r \in Binaries \cup {Container}, Resolve(l), SetUp(r), Become(l, Got(r), r)
        PROVE  RuntimeInv'
    BY <1>4, ResolvingStep DEF Resolve, Got, Doing
  <1>5. CASE (Resolve(l) \/ ResolveAgain(l)) /\ NoRuntime(l)
    BY <1>5, KeepingStep DEF Resolve, ResolveAgain, NoRuntime, Doing
  <1>6. CASE CheckBinary(l)
    BY <1>6, KeepingStep DEF CheckBinary, Doing
  <1>7. CASE LockToRecheck(l)
    BY <1>7, KeepingStep, LockingStep DEF LockToRecheck, Doing
  <1>8. ASSUME NEW r \in Binaries, ResolveAgain(l), SetUp(r), Become(l, "using", r)
        PROVE  RuntimeInv'
    BY <1>8, ResolvingStep DEF ResolveAgain, Doing
  <1>9. CASE Spawned(l)
    BY <1>9, KeepingStep DEF Spawned
  <1>10. CASE Cancel(l)
    BY <1>10, KeepingStep DEF Cancel
  <1>11. CASE OrphanEnds(l)
    <2>1. /\ installed \subseteq installed' /\ installed' \subseteq Binaries
          /\ UNCHANGED <<resolved, resolving, vanished>> /\ Become(l, "idle", Unresolved)
          /\ RuntimeTypeOK
      BY <1>11 DEF OrphanEnds, RuntimeInv, RuntimeTypeOK
    <2>2. load' \in [Loads -> LoadStates] /\ BecomesOf(l, "idle", Unresolved)
      BY <2>1, BecomeOf
    <2>. QED BY <2>1, <2>2, StepOfRuntime DEF RuntimeTypeOK
  <1>. QED BY <1>1, <1>2, <1>3, <1>4, <1>5, <1>6, <1>7, <1>8, <1>9, <1>10, <1>11
         DEF LoadStep, Resolve, ResolveAgain

LEMMA UninstallKeeps ==
  ASSUME RuntimeInv, NEW b \in Binaries, Uninstall(b)
  PROVE  RuntimeInv'
  <1>1. \A l \in Loads :
          /\ load'[l] \in LoadStates /\ load'[l].pc = load[l].pc /\ load'[l].mine = load[l].mine
          /\ load[l].pc # "idle" => load'[l].seen = load[l].seen \cup installed'
    <2> TAKE l \in Loads
    <2>1. /\ load[l] \in LoadStates /\ installed' \subseteq Binaries
          /\ load'[l] = [load[l] EXCEPT !.seen = IF load[l].pc = "idle" THEN {} ELSE @ \cup installed']
      BY DEF Uninstall, Seeing, RuntimeInv, RuntimeTypeOK
    <2>2. CASE load[l].pc = "idle"
      BY <2>1, <2>2 DEF LoadStates
    <2>3. CASE load[l].pc # "idle"
      <3>1. load'[l] = [load[l] EXCEPT !.seen = @ \cup installed']
        BY <2>1, <2>3
      <3>. QED BY <2>1, <3>1 DEF LoadStates
    <2>. QED BY <2>2, <2>3
  <1>2. RuntimeTypeOK'
    BY <1>1 DEF Uninstall, Seeing, RuntimeInv, RuntimeTypeOK
  <1>3. AllSeen' /\ SpawnsWhatWasThere'
    BY <1>1 DEF RuntimeInv, AllSeen, SpawnsWhatWasThere, Doing
  <1>4. ResolversLocked' /\ BinariesChecked' /\ MissedIsVanished'
    BY <1>1 DEF Uninstall, RuntimeInv, ResolversLocked, BinariesChecked, MissedIsVanished, Doing
  <1>. QED BY <1>2, <1>3, <1>4 DEF RuntimeInv

LEMMA RuntimeStepKeeps ==
  ASSUME RuntimeInv, [RuntimeNext]_runtimeVars
  PROVE  RuntimeInv'
  <1>1. CASE UNCHANGED runtimeVars
    BY <1>1 DEF runtimeVars, RuntimeInv, RuntimeTypeOK, AllSeen, SpawnsWhatWasThere,
       ResolversLocked, BinariesChecked, MissedIsVanished, Doing
  <1>. QED BY <1>1, LoadStepKeeps, UninstallKeeps DEF RuntimeNext, LoadStep

LEMMA RuntimeAlways == RuntimeSpec => []RuntimeInv
  <1>1. RuntimeInv /\ [RuntimeNext]_runtimeVars => RuntimeInv'
    BY RuntimeStepKeeps
  <1>. QED BY <1>1, InitRuntime, PTL DEF RuntimeSpec

\* However loads wait for, cancel and repeat resolutions, and whatever is
\* uninstalled meanwhile, none spawns a binary that was gone all along.
THEOREM LoadsSpawnWhatWasThere == RuntimeSpec => []SpawnsWhatWasThere
  <1>1. RuntimeInv => SpawnsWhatWasThere
    BY DEF RuntimeInv
  <1>. QED BY <1>1, RuntimeAlways, PTL

\* A resolution whose binary is there is never replaced.
THEOREM ResolutionsKept == RuntimeSpec => KeptWhileThere
  <1>1. RuntimeInv /\ [RuntimeNext]_runtimeVars =>
          [resolved' # resolved => resolved = Unresolved \/ vanished]_runtimeVars
    <2> SUFFICES ASSUME RuntimeInv, RuntimeNext, resolved' # resolved
                 PROVE  resolved = Unresolved \/ vanished
      OBVIOUS
    <2>1. PICK l \in Loads : Resolve(l) \/ ResolveAgain(l)
      BY DEF RuntimeNext, AskRuntime, LockToResolve, CheckBinary, LockToRecheck, Spawned,
         Cancel, OrphanEnds, Uninstall
    <2>. QED BY <2>1, LoadFits DEF Resolve, ResolveAgain
  <1>. QED BY <1>1, RuntimeAlways, PTL DEF RuntimeSpec, KeptWhileThere

(***************************************************************************)
(* The store: BlobStore, for every set of tasks, commands, removers,       *)
(* references and manifests and every grace period                         *)
(***************************************************************************)

Active(s) == sweep[s].at \in {"scan", "prune"}

\* What a writer secured is there unless a sweep raced with it, and also then
\* if it wrote it within the grace period.
WriterSafe(w) ==
  /\ writer[w].at # "idle" => writer[w].ref \in Refs
  /\ writer[w].at \in {"layers", "manifest", "ref", "copy"} => writer[w].man \in Manifests
  /\ Writing(w) /\ ~writer[w].raced => ~Sweeping /\ Secured(w) \subseteq present
  /\ ~writer[w].stale => \A d \in Secured(w) :
                           d \in present /\ age[d] < Grace /\ ~Doomed(d)

WritersSafe == \A w \in Writers : WriterSafe(w)

\* A sweep has yet to find what a tag needs, or has put it among the live.
Covers(s, r) ==
  /\ sweep[s].at = "scan" => \/ r \in sweep[s].unread
                             \/ tag[r] \in sweep[s].seen
                             \/ Content(tag[r]) \subseteq sweep[s].live
  /\ sweep[s].at = "prune" => Content(tag[r]) \cap (sweep[s].todo \cup sweep[s].doomed) = {}

SweepsCover ==
  \A s \in Sweepers, r \in Refs :
    Active(s) /\ Held(r) /\ r \notin sweep[s].fresh => Covers(s, r)

\* A tag that is not exposed is complete, and known to every sweep under way.
TagsSafe ==
  \A r \in Refs : Held(r) /\ r \notin exposed =>
    /\ Complete(r)
    /\ \A s \in Sweepers : Active(s) => r \notin sweep[s].fresh

\* Only a sweep that prunes is about to delete a file.
DoomedPrunes == \A s \in Sweepers : sweep[s].doomed # {} => sweep[s].at = "prune"

Inv == TypeOK /\ WritersSafe /\ SweepsCover /\ TagsSafe /\ DoomedPrunes

USE DEF Writers, Sweepers, Held, Sweeping, Active, Stages, WriterType, SweepType, Doomed

-----------------------------------------------------------------------------
LEMMA ContentType == \A m \in Manifests : Content(m) \subseteq Blobs
  BY DEF Blobs

LEMMA UpstreamType == \A r \in Refs : Upstream[r] \subseteq Manifests
  BY ContentAssumption

LEMMA ContentBlobs == \A m \in Manifests : /\ Layers[m] \subseteq Content(m)
                                          /\ Config[m] \in Content(m)
                                          /\ m \in Content(m)
  BY DEF Content

\* What stays true of the parts of Inv when their variables only change so far.
LEMMA SweepsCoverFrame ==
  ASSUME SweepsCover, DoomedPrunes, UNCHANGED <<tag, sweep>>
  PROVE  SweepsCover' /\ DoomedPrunes'
  BY DEF SweepsCover, DoomedPrunes, Covers, Content

LEMMA TagsSafeFrame ==
  ASSUME TagsSafe, UNCHANGED <<tag, sweep, exposed>>, present \subseteq present'
  PROVE  TagsSafe'
  BY DEF TagsSafe, Complete, Content

-----------------------------------------------------------------------------
LEMMA InitInv == Init => Inv
  <1>. SUFFICES ASSUME Init PROVE Inv
    OBVIOUS
  <1>1. TypeOK
    BY GraceAssumption DEF Init, TypeOK, IdleWriter, IdleSweep
  <1>2. WritersSafe
    BY DEF Init, WritersSafe, WriterSafe, IdleWriter, Writing, Secured
  <1>3. SweepsCover
    BY DEF Init, SweepsCover, IdleSweep
  <1>4. TagsSafe
    BY DEF Init, TagsSafe, IdleSweep
  <1>5. DoomedPrunes
    BY DEF Init, DoomedPrunes, IdleSweep
  <1>. QED BY <1>1, <1>2, <1>3, <1>4, <1>5 DEF Inv

-----------------------------------------------------------------------------
(* Pulls. *)

LEMMA SweepingType == Sweeping \in BOOLEAN
  OBVIOUS

LEMMA AskingType ==
  ASSUME TypeOK, NEW w \in Writers, NEW r \in Refs, NEW stage \in Stages, NEW x \in BOOLEAN,
         writer' = [writer EXCEPT ![w] = Asking(r, stage, x)]
  PROVE  writer' \in [Writers -> WriterType]
  BY DEF TypeOK, Asking

\* A step of w that touches no file leaves the other writers safe.
LEMMA OtherWriters ==
  ASSUME WritersSafe, NEW w \in Writers,
         \A v \in Writers \ {w} : writer'[v] = writer[v],
         UNCHANGED <<present, age, sweep>>
  PROVE  \A v \in Writers \ {w} : WriterSafe(v)'
  <1>1. \A v \in Writers \ {w} : Secured(v)' = Secured(v)
    BY DEF Secured
  <1>. QED BY <1>1 DEF WritersSafe, WriterSafe, Writing

\* A writer that has not begun to store, or has ended, secures nothing.
LEMMA BeginOrEnd ==
  ASSUME Inv, NEW w \in Writers, NEW x,
         writer' = [writer EXCEPT ![w] = x],
         x.at \in {"idle", "done"} \/ (x.at = "probe" /\ (Sweeping => x.raced)),
         x.at = "idle" \/ x.ref \in Refs,
         UNCHANGED <<present, age, sweep>>
  PROVE  WritersSafe'
  <1>1. writer'[w] = x /\ \A v \in Writers \ {w} : writer'[v] = writer[v]
    BY DEF Inv, TypeOK
  <1>2. Secured(w)' = {}
    BY <1>1 DEF Secured
  <1>3. WriterSafe(w)'
    BY <1>1, <1>2 DEF WriterSafe, Writing
  <1>. QED BY <1>1, <1>3, OtherWriters DEF Inv, WritersSafe

LEMMA FindStep ==
  ASSUME Inv, NEW w \in Writers, NEW r \in Refs, FindPresent(w, r) \/ FindMissing(w, r)
  PROVE  Inv'
  <1>1. PICK stage \in {"done", "probe"} :
          writer' = [writer EXCEPT ![w] = Asking(r, stage, Sweeping)]
    BY DEF FindPresent, FindMissing
  <1>2. TypeOK'
    BY <1>1, AskingType, SweepingType DEF Inv, TypeOK, FindPresent, FindMissing
  <1>3. WritersSafe'
    <2>. DEFINE x == Asking(r, stage, Sweeping)
    <2>1. x.at = stage /\ x.ref = r /\ x.raced = Sweeping
      BY DEF Asking
    <2>2. Sweeping => x.raced
      BY <2>1
    <2>3. UNCHANGED <<present, age, sweep>>
      BY DEF FindPresent, FindMissing
    <2>. HIDE DEF x
    <2>. QED BY <1>1, <2>1, <2>2, <2>3, BeginOrEnd DEF x
  <1>4. SweepsCover' /\ TagsSafe' /\ DoomedPrunes'
    BY SweepsCoverFrame, TagsSafeFrame DEF Inv, FindPresent, FindMissing
  <1>. QED BY <1>2, <1>3, <1>4 DEF Inv

LEMMA CachedStep == ASSUME Inv, NEW w \in Writers, ReportCached(w) PROVE Inv'
  <1>1. writer' = [writer EXCEPT ![w] = Asking(writer[w].ref, "done", writer[w].raced)]
    BY DEF Inv, TypeOK, ReportCached
  <1>2. writer[w].ref \in Refs /\ writer[w].raced \in BOOLEAN
    BY DEF Inv, TypeOK, WritersSafe, WriterSafe, ReportCached
  <1>3. TypeOK'
    <2>1. writer' \in [Writers -> WriterType]
      BY <1>1, <1>2, AskingType DEF Inv
    <2>. QED BY <2>1 DEF Inv, TypeOK, ReportCached
  <1>4. WritersSafe'
    BY <1>1, <1>2, BeginOrEnd DEF Asking, ReportCached
  <1>5. SweepsCover' /\ TagsSafe' /\ DoomedPrunes'
    BY SweepsCoverFrame, TagsSafeFrame DEF Inv, ReportCached
  <1>. QED BY <1>3, <1>4, <1>5 DEF Inv

LEMMA EndStep == ASSUME Inv, NEW w \in Writers, Fail(w) \/ Return(w) PROVE Inv'
  <1>1. writer' = [writer EXCEPT ![w] = IdleWriter]
    BY DEF Fail, Return
  <1>2. TypeOK'
    BY <1>1 DEF Inv, TypeOK, Fail, Return, IdleWriter
  <1>3. WritersSafe'
    BY <1>1, BeginOrEnd DEF Fail, Return, IdleWriter
  <1>4. SweepsCover' /\ TagsSafe' /\ DoomedPrunes'
    BY SweepsCoverFrame, TagsSafeFrame DEF Inv, Fail, Return
  <1>. QED BY <1>2, <1>3, <1>4 DEF Inv

LEMMA FetchStep == ASSUME Inv, NEW w \in Writers, FetchModelInfo(w) PROVE Inv'
  <1>1. writer[w].ref \in Refs /\ writer[w].at = "probe"
    BY DEF Inv, WritersSafe, WriterSafe, FetchModelInfo
  <1>2. PICK m \in Manifests :
          writer' = [writer EXCEPT ![w].at = "layers", ![w].man = m, ![w].left = Layers[m]]
    BY <1>1, UpstreamType DEF FetchModelInfo
  <1>3. TypeOK'
    BY <1>2, ContentAssumption DEF Inv, TypeOK, FetchModelInfo
  <1>4. WritersSafe'
    <2>1. Secured(w)' = {}
      BY <1>2 DEF Secured, Inv, TypeOK
    <2>2. \A v \in Writers \ {w} : writer'[v] = writer[v]
      BY <1>2 DEF Inv, TypeOK
    <2>3. /\ writer'[w].at = "layers" /\ writer'[w].man = m
          /\ writer'[w].ref = writer[w].ref /\ writer'[w].raced = writer[w].raced
      BY <1>2 DEF Inv, TypeOK
    <2>4. ~writer[w].raced => ~Sweeping
      BY <1>1 DEF Inv, WritersSafe, WriterSafe, Writing
    <2>5. WriterSafe(w)'
      BY <1>1, <2>1, <2>3, <2>4 DEF WriterSafe, Writing, FetchModelInfo
    <2>. QED BY <2>2, <2>5, OtherWriters DEF Inv, WritersSafe, FetchModelInfo
  <1>5. SweepsCover' /\ TagsSafe' /\ DoomedPrunes'
    BY SweepsCoverFrame, TagsSafeFrame DEF Inv, FetchModelInfo
  <1>. QED BY <1>3, <1>4, <1>5 DEF Inv

\* One blob more for w: what the others secured stays, at the age it had.
LEMMA StoreStep ==
  ASSUME Inv, NEW w \in Writers, NEW d \in Blobs, Store(d),
         \A v \in Writers \ {w} : writer'[v] = writer[v],
         Writing(w), writer'[w].at \in {"layers", "manifest", "ref", "copy"},
         writer[w].man \in Manifests,
         writer'[w].man = writer[w].man, writer'[w].ref = writer[w].ref,
         writer'[w].raced = writer[w].raced,
         ~writer'[w].stale => ~writer[w].stale /\ d \notin present /\ ~Doomed(d),
         Secured(w)' \subseteq Secured(w) \cup {d},
         UNCHANGED <<tag, sweep>>
  PROVE  WritersSafe'
  <1>1. /\ present' = present \cup {d}
        /\ \A e \in present : age'[e] = age[e]
        /\ d \notin present => age'[d] = 0
    BY DEF Store, Inv, TypeOK
  <1>2. \A v \in Writers \ {w} : Secured(v)' = Secured(v)
    BY DEF Secured
  <1>3. /\ Writing(w)' /\ ~writer'[w].raced => ~Sweeping' /\ Secured(w)' \subseteq present'
    BY <1>1 DEF Inv, WritersSafe, WriterSafe, Writing
  <1>4. ~writer'[w].stale => \A e \in Secured(w)' : e \in present' /\ age'[e] < Grace /\ ~Doomed(e)'
    BY <1>1, GraceAssumption DEF Inv, WritersSafe, WriterSafe
  <1>5. \A v \in Writers \ {w} :
          /\ Writing(v)' /\ ~writer'[v].raced => ~Sweeping' /\ Secured(v)' \subseteq present'
          /\ ~writer'[v].stale => \A e \in Secured(v)' : e \in present' /\ age'[e] < Grace /\ ~Doomed(e)'
    BY <1>1, <1>2 DEF Inv, WritersSafe, WriterSafe, Writing
  <1>6. \A v \in Writers :
          /\ writer'[v].at # "idle" => writer'[v].ref \in Refs
          /\ writer'[v].at \in {"layers", "manifest", "ref", "copy"} => writer'[v].man \in Manifests
    BY DEF Inv, WritersSafe, WriterSafe, Writing
  <1>. QED BY <1>3, <1>4, <1>5, <1>6 DEF WritersSafe, WriterSafe

LEMMA StoreFrame ==
  ASSUME Inv, NEW d \in Blobs, Store(d), UNCHANGED <<tag, sweep, exposed>>
  PROVE  /\ present' \subseteq Blobs /\ age' \in [Blobs -> 0..Grace]
         /\ SweepsCover' /\ TagsSafe' /\ DoomedPrunes'
  <1>1. present' \subseteq Blobs /\ age' \in [Blobs -> 0..Grace]
    BY GraceAssumption DEF Inv, TypeOK, Store
  <1>2. SweepsCover' /\ TagsSafe' /\ DoomedPrunes'
    BY SweepsCoverFrame, TagsSafeFrame DEF Inv, Store
  <1>. QED BY <1>1, <1>2

LEMMA DownloadStep ==
  ASSUME Inv, NEW w \in Writers, NEW d \in Blobs, DownloadLayer(w, d) PROVE Inv'
  <1>1. /\ writer'[w].at = "layers" /\ writer[w].at = "layers"
        /\ writer'[w].left = writer[w].left \ {d}
        /\ ~writer'[w].stale => ~writer[w].stale /\ d \notin present /\ ~Doomed(d)
        /\ writer'[w].raced = writer[w].raced
        /\ writer'[w].man = writer[w].man
        /\ writer'[w].ref = writer[w].ref
        /\ \A v \in Writers \ {w} : writer'[v] = writer[v]
    BY DEF Inv, TypeOK, DownloadLayer, Stale
  <1>2. Secured(w)' \subseteq Secured(w) \cup {d}
    BY <1>1 DEF Secured
  <1>3. writer[w].man \in Manifests
    BY <1>1 DEF Inv, WritersSafe, WriterSafe
  <1>4. WritersSafe'
    BY <1>1, <1>2, <1>3, StoreStep DEF DownloadLayer, Writing
  <1>5. TypeOK'
    BY StoreFrame DEF Inv, TypeOK, DownloadLayer, Stale
  <1>. QED BY <1>4, <1>5, StoreFrame DEF Inv, DownloadLayer

LEMMA ConfigStep == ASSUME Inv, NEW w \in Writers, WriteConfig(w) PROVE Inv'
  <1>. DEFINE d == Config[writer[w].man]
  <1>1. writer[w].man \in Manifests /\ d \in Blobs
    BY ContentAssumption DEF Inv, WritersSafe, WriterSafe, WriteConfig
  <1>2. /\ writer'[w].at = "manifest" /\ writer[w].at = "layers" /\ writer[w].left = {}
        /\ ~writer'[w].stale => ~writer[w].stale /\ d \notin present /\ ~Doomed(d)
        /\ writer'[w].raced = writer[w].raced
        /\ writer'[w].man = writer[w].man
        /\ writer'[w].ref = writer[w].ref
        /\ \A v \in Writers \ {w} : writer'[v] = writer[v]
    BY DEF Inv, TypeOK, WriteConfig, Stale
  <1>3. Secured(w)' \subseteq Secured(w) \cup {d}
    BY <1>2 DEF Secured
  <1>4. WritersSafe'
    BY <1>1, <1>2, <1>3, StoreStep DEF WriteConfig, Writing
  <1>5. TypeOK'
    <2>1. writer' \in [Writers -> WriterType]
      <3>1. writer \in [Writers -> WriterType] /\ Stale(w, d) \in BOOLEAN
        BY DEF Inv, TypeOK, Stale, WriterType
      <3>2. [writer[w] EXCEPT !.at = "manifest", !.stale = Stale(w, d)] \in WriterType
        BY <3>1 DEF WriterType, Stages
      <3>. HIDE DEF d
      <3>3. writer' = [writer EXCEPT ![w] = [writer[w] EXCEPT !.at = "manifest",
                                                             !.stale = Stale(w, d)]]
        BY <3>1 DEF WriteConfig, d
      <3>. QED BY <3>1, <3>2, <3>3
    <2>2. Store(d) /\ UNCHANGED <<tag, daemon, sweep, exposed>>
      BY DEF WriteConfig
    <2>3. present' \subseteq Blobs /\ age' \in [Blobs -> 0..Grace]
      BY <1>1, <2>2, StoreFrame
    <2>. QED BY <2>1, <2>2, <2>3 DEF Inv, TypeOK
  <1>. QED BY <1>1, <1>4, <1>5, StoreFrame DEF Inv, WriteConfig

LEMMA ManifestStep == ASSUME Inv, NEW w \in Writers, WriteManifest(w) PROVE Inv'
  <1>. DEFINE d == writer[w].man
  <1>1. d \in Manifests /\ d \in Blobs
    BY ContentBlobs, ContentType DEF Inv, WritersSafe, WriterSafe, WriteManifest
  <1>2. /\ writer'[w].at = "ref" /\ writer[w].at = "manifest"
        /\ ~writer'[w].stale => ~writer[w].stale /\ d \notin present /\ ~Doomed(d)
        /\ writer'[w].raced = writer[w].raced
        /\ writer'[w].man = writer[w].man
        /\ writer'[w].ref = writer[w].ref
        /\ \A v \in Writers \ {w} : writer'[v] = writer[v]
    BY DEF Inv, TypeOK, WriteManifest, Stale
  <1>3. Secured(w)' \subseteq Secured(w) \cup {d}
    BY <1>2 DEF Secured, Content
  <1>4. WritersSafe'
    BY <1>1, <1>2, <1>3, StoreStep DEF WriteManifest, Writing
  <1>5. TypeOK'
    BY <1>1, StoreFrame DEF Inv, TypeOK, WriteManifest, Stale
  <1>. QED BY <1>1, <1>4, <1>5, StoreFrame DEF Inv, WriteManifest

LEMMA RefStep == ASSUME Inv, NEW w \in Writers, WriteManifestRef(w) PROVE Inv'
  <1>1. PICK r \in Refs, m \in Manifests :
          writer[w].ref = r /\ writer[w].man = m /\ writer[w].raced \in BOOLEAN
    BY DEF Inv, TypeOK, WritersSafe, WriterSafe, WriteManifestRef
  <1>2. writer' = [writer EXCEPT ![w] = Asking(r, "done", writer[w].raced)]
    BY <1>1 DEF Inv, TypeOK, WriteManifestRef
  <1>3. tag' = [tag EXCEPT ![r] = m] /\ UNCHANGED <<present, age, daemon>>
    BY <1>1 DEF WriteManifestRef, Tag
  <1>4. exposed' = IF Races(w) THEN exposed \cup {r} ELSE exposed \ {r}
    BY <1>1 DEF WriteManifestRef, Tag
  <1>5. \A s \in Sweepers :
          /\ sweep'[s].at = sweep[s].at /\ sweep'[s].unread = sweep[s].unread
          /\ sweep'[s].seen = sweep[s].seen /\ sweep'[s].live = sweep[s].live
          /\ sweep'[s].todo = sweep[s].todo /\ sweep'[s].doomed = sweep[s].doomed
          /\ Active(s) => sweep'[s].fresh = sweep[s].fresh \cup {r}
    BY <1>1 DEF WriteManifestRef, Tag, Inv, TypeOK
  <1>6. TypeOK'
    <2>1. writer' \in [Writers -> WriterType]
      BY <1>1, <1>2, AskingType DEF Inv
    <2>2. sweep' \in [Sweepers -> SweepType]
      <3>1. \A x \in SweepType : [x EXCEPT !.fresh = @ \cup {r}] \in SweepType
        OBVIOUS
      <3>. HIDE DEF SweepType
      <3>. QED BY <1>1, <3>1 DEF WriteManifestRef, Tag, Inv, TypeOK
    <2>3. tag' \in [Refs -> Manifests \cup {None}] /\ exposed' \subseteq Refs
      BY <1>1, <1>3, <1>4 DEF Inv, TypeOK
    <2>. QED BY <2>1, <2>2, <2>3, <1>3 DEF Inv, TypeOK
  <1>7. WritersSafe'
    <2>1. writer'[w].at = "done" /\ writer'[w].ref = r
      BY <1>2 DEF Asking, Inv, TypeOK
    <2>2. \A v \in Writers \ {w} : writer'[v] = writer[v]
      BY <1>2 DEF Inv, TypeOK
    <2>3. \A v \in Writers \ {w} : Secured(v)' = Secured(v)
      BY <2>2 DEF Secured
    <2>4. Sweeping' = Sweeping /\ \A d \in Blobs : Doomed(d)' = Doomed(d)
      BY <1>5
    <2>5. WriterSafe(w)'
      BY <2>1, <1>1 DEF WriterSafe, Writing, Secured
    <2>6. \A v \in Writers \ {w} : WriterSafe(v)'
      <3>. SUFFICES ASSUME NEW v \in Writers \ {w} PROVE WriterSafe(v)'
        OBVIOUS
      <3>1. WriterSafe(v) /\ Secured(v) \subseteq Blobs
        BY DEF Inv, WritersSafe, Secured
      <3>. HIDE DEF Doomed, Sweeping
      <3>. QED BY <1>3, <2>2, <2>3, <2>4, <3>1 DEF WriterSafe, Writing
    <2>. QED BY <2>5, <2>6 DEF WritersSafe
  <1>8. SweepsCover'
    BY <1>1, <1>3, <1>5 DEF Inv, TypeOK, SweepsCover, Covers, Content
  <1>9. TagsSafe'
    <2>1. ASSUME NEW q \in Refs, q # r, Held(q)', q \notin exposed'
          PROVE  Complete(q)' /\ \A s \in Sweepers : Active(s)' => q \notin sweep'[s].fresh
      BY <2>1, <1>1, <1>3, <1>4, <1>5 DEF Inv, TypeOK, TagsSafe, Complete, Content
    <2>2. ASSUME r \notin exposed'
          PROVE  Complete(r)' /\ \A s \in Sweepers : ~Active(s)'
      <3>1. ~Races(w)
        BY <2>2, <1>4
      <3>2. Content(m) \subseteq present
        <4>1. Content(m) \subseteq Secured(w)
          BY <1>1, ContentType DEF Secured, WriteManifestRef
        <4>2. Secured(w) \subseteq present
          BY <3>1 DEF Races, Inv, WritersSafe, WriterSafe, Writing, WriteManifestRef
        <4>. QED BY <4>1, <4>2
      <3>3. tag'[r] = m /\ m # None
        BY <1>1, <1>3, ContentAssumption DEF Inv, TypeOK
      <3>4. Complete(r)'
        BY <3>2, <3>3, <1>3 DEF Complete, Content
      <3>5. ~Sweeping
        BY <3>1 DEF Races
      <3>. QED BY <3>4, <3>5, <1>5
    <2>3. ASSUME NEW q \in Refs, Held(q)', q \notin exposed'
          PROVE  Complete(q)' /\ \A s \in Sweepers : Active(s)' => q \notin sweep'[s].fresh
      <3>1. CASE q = r
        BY <3>1, <2>2, <2>3
      <3>2. CASE q # r
        BY <3>2, <2>1, <2>3
      <3>. QED BY <3>1, <3>2
    <2>. QED BY <2>3 DEF TagsSafe
  <1>10. DoomedPrunes'
    BY <1>5 DEF Inv, DoomedPrunes
  <1>. QED BY <1>6, <1>7, <1>8, <1>9, <1>10 DEF Inv

LEMMA CopyStep ==
  ASSUME Inv, NEW w \in Writers, NEW r \in Refs, NEW q \in Refs, CopyFind(w, r, q)
  PROVE  Inv'
  <1>1. tag[r] \in Manifests
    BY DEF Inv, TypeOK, CopyFind
  <1>2. (Sweeping \/ r \in exposed) \in BOOLEAN
    OBVIOUS
  <1>3. TypeOK'
    BY <1>1, <1>2 DEF Inv, TypeOK, CopyFind
  <1>4. /\ writer'[w].at = "copy" /\ writer'[w].ref = q /\ writer'[w].man = tag[r]
        /\ writer'[w].stale
        /\ ~writer'[w].raced => ~Sweeping /\ r \notin exposed
        /\ \A v \in Writers \ {w} : writer'[v] = writer[v]
    BY DEF Inv, TypeOK, CopyFind
  <1>5. Secured(w)' \subseteq Content(tag[r])
    BY <1>4 DEF Secured, Content
  <1>6. r \notin exposed => Content(tag[r]) \subseteq present
    BY DEF Inv, TagsSafe, Complete, CopyFind
  <1>7. WriterSafe(w)'
    BY <1>1, <1>4, <1>5, <1>6 DEF WriterSafe, Writing, CopyFind
  <1>8. WritersSafe'
    BY <1>4, <1>7, OtherWriters DEF Inv, WritersSafe, CopyFind
  <1>9. SweepsCover' /\ TagsSafe' /\ DoomedPrunes'
    BY SweepsCoverFrame, TagsSafeFrame DEF Inv, CopyFind
  <1>. QED BY <1>3, <1>8, <1>9 DEF Inv

-----------------------------------------------------------------------------
(* Removals. *)

LEMMA WritersSafeFrame ==
  ASSUME WritersSafe, UNCHANGED <<writer, present, age>>, Sweeping' => Sweeping,
         \A d \in Blobs : Doomed(d)' => Doomed(d)
  PROVE  WritersSafe'
  <1>1. \A w \in Writers : Secured(w)' = Secured(w) /\ Secured(w) \subseteq Blobs
    BY DEF Secured
  <1>. HIDE DEF Doomed, Sweeping
  <1>. QED BY <1>1 DEF WritersSafe, WriterSafe, Writing

LEMMA UntagStep ==
  ASSUME Inv, NEW r \in Refs, Untag(r), UNCHANGED <<present, age, daemon, writer>>,
         \A s \in Sweepers : IF Active(s)' THEN sweep'[s] = sweep[s]
                                            ELSE sweep'[s].doomed = {}
  PROVE  /\ tag' \in [Refs -> Manifests \cup {None}] /\ exposed' \subseteq Refs
         /\ WritersSafe' /\ SweepsCover' /\ TagsSafe' /\ DoomedPrunes'
  <1>1. \A q \in Refs : Held(q)' =>
          Held(q) /\ q # r /\ tag'[q] = tag[q] /\ (q \notin exposed' => q \notin exposed)
    BY DEF Inv, TypeOK, Untag
  <1>2. tag' \in [Refs -> Manifests \cup {None}] /\ exposed' \subseteq Refs
    BY DEF Inv, TypeOK, Untag
  <1>3. WritersSafe'
    BY WritersSafeFrame DEF Inv
  <1>4. SweepsCover'
    BY <1>1 DEF Inv, SweepsCover, Covers, Content
  <1>5. TagsSafe'
    BY <1>1 DEF Inv, TagsSafe, Complete, Content
  <1>6. DoomedPrunes'
    BY DEF Inv, DoomedPrunes
  <1>. QED BY <1>2, <1>3, <1>4, <1>5, <1>6

LEMMA DeleteStep == ASSUME Inv, NEW r \in Refs, Delete(r) PROVE Inv'
  <1>1. Untag(r) /\ UNCHANGED <<present, age, daemon, writer, sweep>>
    BY DEF Delete
  <1>2. \A s \in Sweepers : IF Active(s)' THEN sweep'[s] = sweep[s]
                                          ELSE sweep'[s].doomed = {}
    BY <1>1 DEF Inv, DoomedPrunes, TypeOK
  <1>3. TypeOK'
    BY <1>1, <1>2, UntagStep DEF Inv, TypeOK
  <1>. QED BY <1>1, <1>2, <1>3, UntagStep DEF Inv

LEMMA RemoveStep ==
  ASSUME Inv, NEW s \in Removers, NEW r \in Refs, Remove(s, r) PROVE Inv'
  <1>1. /\ Untag(r) /\ UNCHANGED <<present, age, daemon, writer>>
        /\ sweep' = [sweep EXCEPT ![s].at = "rm"] /\ sweep[s].at \in {"idle", "rm"}
    BY DEF Remove
  <1>2. \A z \in Sweepers : IF Active(z)' THEN sweep'[z] = sweep[z]
                                          ELSE sweep'[z].doomed = {}
    BY <1>1 DEF Inv, DoomedPrunes, TypeOK
  <1>3. TypeOK'
    BY <1>1, <1>2, UntagStep DEF Inv, TypeOK
  <1>. QED BY <1>1, <1>2, <1>3, UntagStep DEF Inv

-----------------------------------------------------------------------------
(* Sweeps. *)

\* A sweep begins: it has all to read, and every writer under way has raced.
LEMMA ScanStep ==
  ASSUME Inv, NEW s \in Sweepers, Scanning(s), UNCHANGED <<present, age, tag, exposed>>
  PROVE  /\ WritersSafe' /\ SweepsCover' /\ TagsSafe' /\ DoomedPrunes'
         /\ daemon' \in {"down", "booting", "up"} => TypeOK'
  <1>1. /\ sweep'[s].at = "scan" /\ sweep'[s].unread = Refs /\ sweep'[s].fresh = {}
        /\ sweep'[s].doomed = {}
        /\ \A z \in Sweepers \ {s} : sweep'[z] = sweep[z]
    BY DEF Scanning, IdleSweep, Inv, TypeOK
  <1>2. \A w \in Writers :
          /\ writer'[w].at = writer[w].at /\ writer'[w].ref = writer[w].ref
          /\ writer'[w].man = writer[w].man /\ writer'[w].left = writer[w].left
          /\ writer'[w].stale = writer[w].stale
          /\ Writing(w) => writer'[w].raced
    BY DEF Scanning, Inv, TypeOK
  <1>3. \A w \in Writers : Secured(w)' = Secured(w)
    BY <1>2 DEF Secured
  <1>4. WritersSafe'
    <2>1. \A d \in Blobs : Doomed(d)' => Doomed(d)
      BY <1>1
    <2>2. \A w \in Writers : Secured(w) \subseteq Blobs
      BY DEF Secured
    <2>. HIDE DEF Doomed
    <2>. QED BY <1>2, <1>3, <2>1, <2>2 DEF Inv, WritersSafe, WriterSafe, Writing
  <1>5. SweepsCover' /\ DoomedPrunes'
    BY <1>1 DEF Inv, SweepsCover, Covers, DoomedPrunes, Content
  <1>6. TagsSafe'
    BY <1>1 DEF Inv, TagsSafe, Complete, Content
  <1>7. ASSUME daemon' \in {"down", "booting", "up"} PROVE TypeOK'
    <2>1. sweep' \in [Sweepers -> SweepType]
      BY DEF Scanning, IdleSweep, Inv, TypeOK
    <2>2. \A x \in WriterType : [x EXCEPT !.raced = TRUE] \in WriterType
      OBVIOUS
    <2>3. writer' \in [Writers -> WriterType]
      <3>. HIDE DEF WriterType
      <3>. QED BY <2>2 DEF Scanning, Inv, TypeOK
    <2>. QED BY <1>7, <2>1, <2>3 DEF Inv, TypeOK
  <1>. QED BY <1>4, <1>5, <1>6, <1>7

LEMMA StartSweepStep == ASSUME Inv, NEW s \in Removers, StartSweep(s) PROVE Inv'
  <1>1. daemon' \in {"down", "booting", "up"}
    BY DEF Inv, TypeOK, StartSweep
  <1>. QED BY <1>1, ScanStep DEF Inv, StartSweep

LEMMA StartStep == ASSUME Inv, Start PROVE Inv'
  BY ScanStep DEF Inv, Start

\* A sweep that is under way reads on; what it knows of the fresh tags is the same.
LEMMA ScanOn ==
  ASSUME Inv, NEW s \in Sweepers, sweep[s].at = "scan",
         UNCHANGED <<present, age, tag, daemon, writer, exposed>>,
         \A z \in Sweepers \ {s} : sweep'[z] = sweep[z],
         sweep'[s].fresh = sweep[s].fresh, sweep'[s].doomed = sweep[s].doomed,
         \A r \in Refs : Held(r) /\ Covers(s, r) => Covers(s, r)'
  PROVE  WritersSafe' /\ SweepsCover' /\ TagsSafe' /\ DoomedPrunes'
  <1>1. WritersSafe'
    BY WritersSafeFrame DEF Inv
  <1>2. SweepsCover' /\ DoomedPrunes'
    BY DEF Inv, SweepsCover, Covers, DoomedPrunes, Content
  <1>3. TagsSafe'
    BY DEF Inv, TagsSafe, Complete, Content
  <1>. QED BY <1>1, <1>2, <1>3

LEMMA ReadRefStep ==
  ASSUME Inv, NEW s \in Sweepers, NEW r \in Refs, ReadRef(s, r) PROVE Inv'
  <1> DEFINE seen == IF Held(r) THEN sweep[s].seen \cup {tag[r]} ELSE sweep[s].seen
             read == [sweep[s] EXCEPT !.unread = @ \ {r}, !.seen = seen]
  <1>5. /\ sweep \in [Sweepers -> SweepType] /\ sweep[s].at = "scan"
        /\ sweep' = [sweep EXCEPT ![s] = read]
    BY DEF Inv, TypeOK, ReadRef
  <1>1. /\ sweep[s].at = "scan" /\ sweep'[s].at = "scan"
        /\ sweep'[s].unread = sweep[s].unread \ {r}
        /\ sweep'[s].seen = IF Held(r) THEN sweep[s].seen \cup {tag[r]} ELSE sweep[s].seen
        /\ sweep'[s].live = sweep[s].live /\ sweep'[s].fresh = sweep[s].fresh
        /\ sweep'[s].doomed = sweep[s].doomed
        /\ \A z \in Sweepers \ {s} : sweep'[z] = sweep[z]
    BY <1>5 DEF SweepType
  <1>2. UNCHANGED <<present, age, tag, daemon, writer, exposed>>
    BY DEF ReadRef
  <1>3. TypeOK'
    <2>1. seen \in SUBSET Manifests
      BY <1>5, ContentAssumption DEF Inv, TypeOK, SweepType, Held
    <2> HIDE DEF seen
    <2>2. read \in SweepType
      BY <1>5, <2>1 DEF SweepType
    <2> HIDE DEF read
    <2>3. sweep' \in [Sweepers -> SweepType]
      BY <1>5, <2>2
    <2>. QED BY <1>2, <2>3 DEF Inv, TypeOK
  <1>4. \A q \in Refs : Held(q) /\ Covers(s, q) => Covers(s, q)'
    BY <1>1, <1>2 DEF Covers, Content
  <1>. QED BY <1>1, <1>2, <1>3, <1>4, ScanOn DEF Inv

\* Fewer sweeps are under way, and nothing else has changed.
LEMMA SweepOver ==
  ASSUME Inv, NEW s \in Sweepers, sweep' = [sweep EXCEPT ![s] = IdleSweep],
         UNCHANGED <<present, age, tag, exposed>>
  PROVE  /\ writer' = writer => WritersSafe'
         /\ SweepsCover' /\ TagsSafe' /\ DoomedPrunes'
         /\ sweep' \in [Sweepers -> SweepType]
         /\ Sweeping' => Sweeping
         /\ \A d \in Blobs : Doomed(d)' => Doomed(d)
  <1>1. /\ ~Active(s)' /\ sweep'[s].doomed = {}
        /\ \A z \in Sweepers \ {s} : sweep'[z] = sweep[z]
    BY DEF Inv, TypeOK, IdleSweep
  <1>2. (Sweeping' => Sweeping) /\ \A d \in Blobs : Doomed(d)' => Doomed(d)
    BY <1>1
  <1>3. writer' = writer => WritersSafe'
    BY <1>2, WritersSafeFrame DEF Inv
  <1>4. SweepsCover' /\ TagsSafe' /\ DoomedPrunes'
    BY <1>1 DEF Inv, SweepsCover, Covers, TagsSafe, DoomedPrunes, Complete, Content
  <1>5. sweep' \in [Sweepers -> SweepType]
    BY DEF Inv, TypeOK, IdleSweep
  <1>. QED BY <1>2, <1>3, <1>4, <1>5

LEMMA EndSweepStep == ASSUME Inv, NEW s \in Sweepers, EndSweep(s) PROVE Inv'
  <1>1. /\ sweep' = [sweep EXCEPT ![s] = IdleSweep]
        /\ UNCHANGED <<present, age, tag, daemon, writer, exposed>>
    BY DEF EndSweep
  <1>2. TypeOK'
    BY <1>1, SweepOver DEF Inv, TypeOK
  <1>. QED BY <1>1, <1>2, SweepOver DEF Inv

LEMMA ReadManifestStep ==
  ASSUME Inv, NEW s \in Sweepers, NEW m \in Manifests, ReadManifest(s, m) PROVE Inv'
  <1>1. CASE m \in present
    <2>1. /\ sweep[s].at = "scan" /\ sweep'[s].at = "scan"
          /\ sweep'[s].unread = sweep[s].unread
          /\ sweep'[s].seen = sweep[s].seen \ {m}
          /\ sweep'[s].live = sweep[s].live \cup Content(m)
          /\ sweep'[s].fresh = sweep[s].fresh /\ sweep'[s].doomed = sweep[s].doomed
          /\ \A z \in Sweepers \ {s} : sweep'[z] = sweep[z]
      BY <1>1 DEF Inv, TypeOK, ReadManifest
    <2>2. UNCHANGED <<present, age, tag, daemon, writer, exposed>>
      BY DEF ReadManifest
    <2>3. TypeOK'
      <3>1. sweep[s].live \cup Content(m) \in SUBSET Blobs
        BY ContentType DEF Inv, TypeOK, SweepType
      <3>2. sweep' \in [Sweepers -> SweepType]
        <4>1. sweep \in [Sweepers -> SweepType]
          BY DEF Inv, TypeOK
        <4> DEFINE live == sweep[s].live \cup Content(m)
                   read == [sweep[s] EXCEPT !.seen = @ \ {m}, !.live = live]
        <4>2. sweep' = [sweep EXCEPT ![s] = read]
          BY <1>1, <4>1 DEF ReadManifest
        <4> HIDE DEF live
        <4>3. read \in SweepType
          BY <3>1, <4>1 DEF SweepType, live
        <4> HIDE DEF read
        <4>. QED BY <4>1, <4>2, <4>3
      <3>. QED BY <2>2, <3>2 DEF Inv, TypeOK
    <2>4. \A q \in Refs : Covers(s, q) => Covers(s, q)'
      BY <2>1, <2>2 DEF Covers, Content
    <2>. QED BY <2>1, <2>2, <2>3, <2>4, ScanOn DEF Inv
  <1>2. CASE m \notin present
    <2>1. EndSweep(s)
      BY <1>2 DEF ReadManifest, EndSweep
    <2>. QED BY <2>1, EndSweepStep
  <1>. QED BY <1>1, <1>2

LEMMA StartPruneStep == ASSUME Inv, NEW s \in Sweepers, StartPrune(s) PROVE Inv'
  <1>1. /\ sweep[s].at = "scan" /\ sweep[s].unread = {} /\ sweep[s].seen = {}
        /\ sweep'[s].at = "prune" /\ sweep'[s].todo = Blobs \ sweep[s].live
        /\ sweep'[s].fresh = sweep[s].fresh
        /\ sweep'[s].doomed = sweep[s].doomed /\ sweep[s].doomed = {}
        /\ \A z \in Sweepers \ {s} : sweep'[z] = sweep[z]
    BY DEF Inv, TypeOK, DoomedPrunes, StartPrune
  <1>2. UNCHANGED <<present, age, tag, daemon, writer, exposed>>
    BY DEF StartPrune
  <1>3. TypeOK'
    <2>1. \A x \in SweepType, todo \in SUBSET Blobs :
            [x EXCEPT !.at = "prune", !.live = {}, !.todo = todo] \in SweepType
      OBVIOUS
    <2>2. sweep' \in [Sweepers -> SweepType]
      <3>. HIDE DEF SweepType
      <3>. QED BY <2>1 DEF Inv, TypeOK, StartPrune
    <2>. QED BY <1>2, <2>2 DEF Inv, TypeOK
  <1>4. \A q \in Refs : Covers(s, q) => Covers(s, q)'
    BY <1>1, <1>2 DEF Covers, Content
  <1>. QED BY <1>1, <1>2, <1>3, <1>4, ScanOn DEF Inv

LEMMA CondemnStep ==
  ASSUME Inv, NEW s \in Sweepers, NEW d \in Blobs, Condemn(s, d) PROVE Inv'
  <1>1. /\ sweep[s].at = "prune" /\ sweep'[s].at = "prune"
        /\ d \in sweep[s].todo /\ sweep'[s].todo = sweep[s].todo \ {d}
        /\ sweep'[s].doomed = {d} /\ sweep'[s].fresh = sweep[s].fresh
        /\ \A z \in Sweepers \ {s} : sweep'[z] = sweep[z]
    BY DEF Inv, TypeOK, Condemn
  <1>2. UNCHANGED <<present, age, tag, daemon, writer, exposed>> /\ age[d] >= Grace
    BY DEF Condemn, IsOlderThan
  <1>3. TypeOK'
    <2>1. \A x \in SweepType : [x EXCEPT !.todo = @ \ {d}, !.doomed = {d}] \in SweepType
      OBVIOUS
    <2>2. sweep' \in [Sweepers -> SweepType]
      <3>. HIDE DEF SweepType
      <3>. QED BY <2>1 DEF Inv, TypeOK, Condemn
    <2>. QED BY <1>2, <2>2 DEF Inv, TypeOK
  <1>4. WritersSafe'
    <2>1. \A w \in Writers : Secured(w)' = Secured(w)
      BY <1>2 DEF Secured
    <2>2. Sweeping' => Sweeping
      BY <1>1
    <2>3. ASSUME NEW w \in Writers, ~writer'[w].stale, NEW e \in Secured(w)'
          PROVE  e \in present' /\ age'[e] < Grace /\ ~Doomed(e)'
      <3>1. e \in present /\ age[e] < Grace /\ ~Doomed(e) /\ e \in Blobs
        BY <1>2, <2>1, <2>3 DEF Inv, WritersSafe, WriterSafe, Secured
      <3>2. age[e] \in Nat /\ age[d] \in Nat /\ Grace \in Nat
        BY <3>1, GraceAssumption DEF Inv, TypeOK
      <3>3. e # d
        BY <1>2, <3>1, <3>2
      <3>. QED BY <1>1, <1>2, <3>1, <3>3
    <2>. QED BY <1>2, <2>1, <2>2, <2>3 DEF Inv, WritersSafe, WriterSafe, Writing
  <1>5. SweepsCover' /\ DoomedPrunes'
    BY <1>1, <1>2 DEF Inv, SweepsCover, DoomedPrunes, Covers, Content
  <1>6. TagsSafe'
    BY <1>1, <1>2 DEF Inv, TagsSafe, Complete, Content
  <1>. QED BY <1>3, <1>4, <1>5, <1>6 DEF Inv

\* No tag that the sweep had to spare needs what it deletes.
LEMMA PruneNeedless ==
  ASSUME Inv, NEW s \in Sweepers, NEW d \in Blobs, Prune(s, d),
         NEW r \in Refs, Held(r), r \notin sweep[s].fresh
  PROVE  d \notin Content(tag[r])
  <1>1. Active(s) /\ sweep[s].at = "prune" /\ d \in sweep[s].doomed
    BY DEF Prune, Inv, DoomedPrunes
  <1>2. Content(tag[r]) \cap (sweep[s].todo \cup sweep[s].doomed) = {}
    BY <1>1 DEF Inv, SweepsCover, Covers
  <1>. QED BY <1>1, <1>2

LEMMA PruneStep ==
  ASSUME Inv, NEW s \in Sweepers, NEW d \in Blobs, Prune(s, d) PROVE Inv'
  <1>1. /\ sweep[s].at = "prune" /\ sweep'[s].at = "prune"
        /\ d \in sweep[s].doomed /\ sweep'[s].doomed = {}
        /\ sweep'[s].todo = sweep[s].todo /\ sweep'[s].fresh = sweep[s].fresh
        /\ \A z \in Sweepers \ {s} : sweep'[z] = sweep[z]
    BY DEF Inv, TypeOK, DoomedPrunes, Prune
  <1>2. /\ UNCHANGED <<tag, daemon, writer, exposed>>
        /\ present' = present \ {d}
        /\ \A e \in Blobs \ {d} : age'[e] = age[e]
    BY DEF Inv, TypeOK, Prune
  <1>3. TypeOK'
    <2>1. \A x \in SweepType : [x EXCEPT !.doomed = {}] \in SweepType
      OBVIOUS
    <2>2. sweep' \in [Sweepers -> SweepType]
      <3>. HIDE DEF SweepType
      <3>. QED BY <2>1 DEF Inv, TypeOK, Prune
    <2>3. present' \subseteq Blobs /\ age' \in [Blobs -> 0..Grace]
      BY GraceAssumption DEF Inv, TypeOK, Prune
    <2>. QED BY <1>2, <2>2, <2>3 DEF Inv, TypeOK
  <1>4. WritersSafe'
    <2>1. \A w \in Writers : Secured(w)' = Secured(w)
      BY <1>2 DEF Secured
    <2>2. \A w \in Writers : Writing(w)' => writer'[w].raced
      BY <1>1, <1>2 DEF Inv, WritersSafe, WriterSafe, Writing
    <2>3. ASSUME NEW w \in Writers, ~writer'[w].stale, NEW e \in Secured(w)'
          PROVE  e \in present' /\ age'[e] < Grace /\ ~Doomed(e)'
      <3>1. e \in present /\ age[e] < Grace /\ ~Doomed(e) /\ e \in Blobs
        BY <1>2, <2>1, <2>3 DEF Inv, WritersSafe, WriterSafe, Secured
      <3>2. e # d
        BY <1>1, <3>1
      <3>. QED BY <1>1, <1>2, <3>1, <3>2
    <2>. QED BY <1>2, <2>2, <2>3 DEF Inv, WritersSafe, WriterSafe
  <1>5. SweepsCover' /\ DoomedPrunes'
    BY <1>1, <1>2 DEF Inv, SweepsCover, DoomedPrunes, Covers, Content
  <1>6. TagsSafe'
    <2>1. ASSUME NEW r \in Refs, Held(r), r \notin exposed
          PROVE  d \notin Content(tag[r])
      BY <1>1, <2>1, PruneNeedless DEF Inv, TagsSafe
    <2>. QED BY <1>1, <1>2, <2>1 DEF Inv, TagsSafe, Complete, Content
  <1>. QED BY <1>3, <1>4, <1>5, <1>6 DEF Inv

-----------------------------------------------------------------------------
(* The daemon, and time. *)

LEMMA ListenStep == ASSUME Inv, Listen PROVE Inv'
  <1>1. TypeOK'
    BY DEF Inv, TypeOK, Listen
  <1>2. WritersSafe' /\ SweepsCover' /\ TagsSafe' /\ DoomedPrunes'
    BY WritersSafeFrame, SweepsCoverFrame, TagsSafeFrame DEF Inv, Listen
  <1>. QED BY <1>1, <1>2 DEF Inv

LEMMA CrashStep == ASSUME Inv, Crash PROVE Inv'
  <1>1. /\ sweep' = [sweep EXCEPT ![Boot] = IdleSweep]
        /\ UNCHANGED <<present, age, tag, exposed>>
    BY DEF Crash
  <1>2. /\ SweepsCover' /\ TagsSafe' /\ DoomedPrunes' /\ sweep' \in [Sweepers -> SweepType]
        /\ Sweeping' => Sweeping
        /\ \A d \in Blobs : Doomed(d)' => Doomed(d)
    BY <1>1, SweepOver
  <1>3. \A w \in Writers : writer'[w] = IdleWriter \/ writer'[w] = writer[w]
    BY DEF Crash
  <1>4. TypeOK'
    <2>1. IdleWriter \in WriterType
      BY DEF IdleWriter
    <2>2. writer' \in [Writers -> WriterType]
      <3>. HIDE DEF WriterType
      <3>. QED BY <2>1 DEF Inv, TypeOK, Crash
    <2>. QED BY <1>1, <1>2, <2>2 DEF Inv, TypeOK, Crash
  <1>5. WritersSafe'
    <2>1. ASSUME NEW w \in Writers, writer'[w] = IdleWriter
          PROVE  WriterSafe(w)'
      BY <2>1 DEF IdleWriter, WriterSafe, Writing, Secured
    <2>2. ASSUME NEW w \in Writers, writer'[w] = writer[w]
          PROVE  WriterSafe(w)'
      <3>1. Secured(w)' = Secured(w) /\ Secured(w) \subseteq Blobs
        BY <2>2 DEF Secured
      <3>. HIDE DEF Doomed, Sweeping
      <3>. QED BY <1>1, <1>2, <2>2, <3>1 DEF Inv, WritersSafe, WriterSafe, Writing
    <2>. QED BY <1>3, <2>1, <2>2 DEF WritersSafe
  <1>. QED BY <1>2, <1>4, <1>5 DEF Inv

LEMMA TickStep == ASSUME Inv, Tick PROVE Inv'
  <1>. DEFINE Old(w) == \E d \in Secured(w) : Aged(d) >= Grace
  <1>1. UNCHANGED <<present, tag, daemon, sweep, exposed>>
    BY DEF Tick
  <1>2. \A w \in Writers :
          /\ writer'[w].at = writer[w].at /\ writer'[w].ref = writer[w].ref
          /\ writer'[w].man = writer[w].man /\ writer'[w].left = writer[w].left
          /\ writer'[w].raced = writer[w].raced
          /\ ~writer'[w].stale => ~writer[w].stale /\ ~Old(w)
    BY DEF Inv, TypeOK, Tick
  <1>3. \A w \in Writers : Secured(w)' = Secured(w)
    BY <1>2 DEF Secured
  <1>4. \A d \in Blobs : Aged(d) \in 0..Grace
    BY GraceAssumption DEF Inv, TypeOK, Aged
  <1>5. TypeOK'
    <2>1. age' \in [Blobs -> 0..Grace]
      BY <1>4 DEF Tick
    <2>2. \A x \in WriterType, y \in BOOLEAN : [x EXCEPT !.stale = @ \/ y] \in WriterType
      <3>1. \A x \in WriterType, y \in BOOLEAN : x.stale \/ y \in BOOLEAN
        OBVIOUS
      <3>. QED BY <3>1
    <2>3. writer' \in [Writers -> WriterType]
      <3>1. \A w \in Writers : Old(w) \in BOOLEAN
        OBVIOUS
      <3>2. writer' = [w \in Writers |-> [writer[w] EXCEPT !.stale = @ \/ Old(w)]]
        BY DEF Tick
      <3>. HIDE DEF WriterType, Old
      <3>. QED BY <2>2, <3>1, <3>2 DEF Inv, TypeOK
    <2>. QED BY <1>1, <2>1, <2>3 DEF Inv, TypeOK
  <1>6. WritersSafe'
    <2>1. ASSUME NEW w \in Writers, ~writer'[w].stale, NEW d \in Secured(w)'
          PROVE  d \in present' /\ age'[d] < Grace
      <3>1. d \in Secured(w) /\ d \in Blobs
        BY <1>3 DEF Secured
      <3>2. ~(Aged(d) >= Grace) /\ d \in present
        BY <1>2, <2>1, <3>1 DEF Inv, WritersSafe, WriterSafe
      <3>3. age'[d] = Aged(d) /\ Aged(d) \in Nat /\ Grace \in Nat
        BY <1>4, <3>1, GraceAssumption DEF Tick
      <3>. QED BY <1>1, <3>2, <3>3
    <2>. QED BY <1>1, <1>2, <1>3, <2>1 DEF Inv, WritersSafe, WriterSafe, Writing
  <1>7. SweepsCover' /\ TagsSafe' /\ DoomedPrunes'
    BY <1>1, SweepsCoverFrame, TagsSafeFrame DEF Inv
  <1>. QED BY <1>5, <1>6, <1>7 DEF Inv

-----------------------------------------------------------------------------
LEMMA StepInv == Inv /\ [Next]_vars => Inv'
  <1>. SUFFICES ASSUME Inv, [Next]_vars PROVE Inv'
    OBVIOUS
  <1>1. CASE UNCHANGED vars
    <2>1. TypeOK' /\ WritersSafe'
      BY <1>1, WritersSafeFrame DEF vars, Inv, TypeOK
    <2>2. SweepsCover' /\ TagsSafe' /\ DoomedPrunes'
      BY <1>1, SweepsCoverFrame, TagsSafeFrame DEF vars, Inv
    <2>. QED BY <2>1, <2>2 DEF Inv
  <1>2. ASSUME NEW w \in Writers, Pull(w) PROVE Inv'
    BY <1>2, FindStep, CachedStep, FetchStep, DownloadStep, ConfigStep, ManifestStep,
       RefStep, EndStep DEF Pull
  <1>3. ASSUME NEW w \in Writers, Copy(w) PROVE Inv'
    BY <1>3, CopyStep DEF Copy
  <1>4. ASSUME NEW r \in Refs, Delete(r) PROVE Inv'
    BY <1>4, DeleteStep
  <1>5. ASSUME NEW s \in Removers, StartSweep(s) \/ \E r \in Refs : Remove(s, r) PROVE Inv'
    BY <1>5, StartSweepStep, RemoveStep
  <1>6. ASSUME NEW s \in Sweepers, Sweep(s) PROVE Inv'
    BY <1>6, ReadRefStep, ReadManifestStep, StartPruneStep, CondemnStep,
       PruneStep, EndSweepStep DEF Sweep
  <1>7. CASE Start \/ Listen \/ Crash \/ Tick
    BY <1>7, StartStep, ListenStep, CrashStep, TickStep
  <1>. QED BY <1>1, <1>2, <1>3, <1>4, <1>5, <1>6, <1>7 DEF Next

\* The invariant all the theorems below rest on.
THEOREM StoreInvariant == Spec => []Inv
  BY InitInv, StepInv, PTL DEF Spec

\* Every variable of the store keeps its type.
THEOREM StoreTypeCorrect == Spec => []TypeOK
  <1>1. Inv => TypeOK
    BY DEF Inv
  <1>. QED BY <1>1, StoreInvariant, PTL

\* A tag that was not written in a race with a sweep has all its blobs: what
\* prune_blobs_with_account and the order of the writes of a pull are for.
THEOREM UnexposedTagsComplete == Spec => []OnlyRacesBreakTags
  <1>1. Inv => OnlyRacesBreakTags
    BY DEF Inv, TagsSafe, OnlyRacesBreakTags
  <1>. QED BY <1>1, StoreInvariant, PTL

\* A sweep deletes no blob of a tag that was there when it began.
THEOREM SweepsSpare == Spec => SweepSparesTags
  <1>1. ASSUME Inv, NEW s \in Sweepers, NEW d \in Blobs, Prune(s, d) PROVE Spared(s)
    <2>1. ASSUME NEW r \in Refs \ sweep[s].fresh, Held(r) PROVE d \notin Content(tag[r])
      BY <1>1, <2>1, PruneNeedless
    <2>2. present' = present \ {d}
      BY <1>1 DEF Prune
    <2>. QED BY <2>1, <2>2 DEF Spared
  <1>2. Inv => [\A s \in Sweepers, d \in Blobs : Prune(s, d) => Spared(s)]_vars
    BY <1>1
  <1>. QED BY <1>2, StoreInvariant, PTL DEF SweepSparesTags
=============================================================================
