--------------------------------- MODULE Routes --------------------------------
(***************************************************************************)
(* The way back: the tables in which the repeaters and the gateway of       *)
(* libraries/MySensors note through which neighbour a device was last heard *)
(* of (sendRoute and process of MySensor.cpp), and the messages that follow *)
(* them, or the parents.  How a device chooses its parent is the module     *)
(* Mesh; here it takes, at any time, any that is not below it.  Messages    *)
(* are read in any order and get lost anywhere.  An operator named ...Fault *)
(* is a slip that a property must catch, and no part of RoutesNext.         *)
(***************************************************************************)
EXTENDS Integers, FiniteSets

CONSTANTS
  Devices,        \* nodes other than the gateway; all have an id
  Repeaters,      \* the devices in repeaterMode
  Talkers,        \* the devices that send to devices too, not to the gateway only
  FirstParents,   \* the parents at the beginning
  MaxUnderWay,    \* bound: messages under way
  MaxMoves        \* bound: changes of parents

GATEWAY_ADDRESS == 0
BROADCAST_ADDRESS == 255       \* also what a table holds where nothing was noted
Stations == Devices \cup {GATEWAY_ADDRESS}
Relays == Repeaters \cup {GATEWAY_ADDRESS}

(* Parents that lead to the gateway, from wherever one starts.              *)
WithoutLoops(parents) ==
  \A S \in SUBSET Devices : S # {} => \E n \in S : parents[n] \notin S

ASSUME RoutesAssumption ==
  /\ Devices \subseteq 1..(BROADCAST_ADDRESS - 1) /\ Repeaters \cup Talkers \subseteq Devices
  /\ FirstParents \subseteq [Stations -> Relays]
  /\ \A p \in FirstParents : p[GATEWAY_ADDRESS] = GATEWAY_ADDRESS /\ WithoutLoops(p)
  /\ {MaxUnderWay, MaxMoves} \subseteq Nat

VARIABLES
  parent,     \* nc.parentNodeId
  routes,     \* EEPROM_ROUTES_ADDRESS of each station
  underWay,   \* messages that were sent and not read; to is the next station
  moves,      \* changes of parents so far
  heard       \* history: devices of which the gateway read a fresh message, and
              \* no station noted anything by one that is not since

routeVars == <<parent, routes, underWay, moves, heard>>

(* A message is fresh as long as it goes up from parent to parent: no one   *)
(* on the way of its sender changed since it was sent, no station had a     *)
(* route for it, and none noted another one of its sender that was not.     *)
Message(sender, dest) ==
  [sender |-> sender, dest |-> dest, last |-> sender, to |-> sender, fresh |-> TRUE]

NoRoutes == [d \in Devices |-> BROADCAST_ADDRESS]

RoutesInit ==
  /\ parent \in FirstParents
  /\ routes = [s \in Stations |-> NoRoutes]
  /\ underWay = {} /\ moves = 0 /\ heard = {}

(* The devices whose messages to the gateway pass n.                        *)
Below(n) ==
  {d \in Devices : \A S \in SUBSET Devices :
     d \in S /\ (\A m \in S : parent[m] \in S \cup {GATEWAY_ADDRESS}) => n \in S}

Aged(messages, senders) ==
  {[m EXCEPT !.fresh = @ /\ m.sender \notin senders] : m \in messages}

-------------------------------------------------------------------------------
LearnsFault(n, m) ==   \* "if it not already exist"
  IF m.sender \in Devices \ {n} /\ routes[n][m.sender] = BROADCAST_ADDRESS
  THEN [routes EXCEPT ![n][m.sender] = m.last] ELSE routes

(* hw_writeConfig of the route.  Entries for the station itself and for the *)
(* gateway are left out: nothing reads them.                                *)
Learns(n, m) ==
  IF m.sender \in Devices \ {n} THEN [routes EXCEPT ![n][m.sender] = m.last] ELSE routes

Sends(n, to, m) == {[m EXCEPT !.last = n, !.to = to]}

ToParent(n, m, others) ==
  /\ m.dest = GATEWAY_ADDRESS \/ n \notin Relays
  /\ routes' = IF n \in Relays THEN Learns(n, m) ELSE routes
  /\ underWay' = others \cup Sends(n, parent[n], m)

Downstream(n, m, others) ==
  /\ n \in Relays /\ m.dest # GATEWAY_ADDRESS
  /\ routes[n][m.dest] \in Devices
  /\ UNCHANGED routes
  /\ underWay' = others \cup Sends(n, routes[n][m.dest], [m EXCEPT !.fresh = FALSE])

(* Without a route the gateway gives up and a repeater asks its parent.     *)
WithoutRoute(n, m, others) ==
  /\ n \in Relays /\ m.dest # GATEWAY_ADDRESS
  /\ routes[n][m.dest] \notin Devices
  /\ IF n = GATEWAY_ADDRESS
     THEN UNCHANGED routes /\ underWay' = others
     ELSE routes' = Learns(n, m) /\ underWay' = others \cup Sends(n, parent[n], m)

sendRoute(n, m, others) ==
  ToParent(n, m, others) \/ Downstream(n, m, others) \/ WithoutRoute(n, m, others)

SendMessage(n, dest) ==
  /\ Cardinality(underWay) < MaxUnderWay
  /\ sendRoute(n, Message(n, dest), underWay)
  /\ UNCHANGED <<parent, moves, heard>>

-------------------------------------------------------------------------------
(* process() of a message.  What stations note by one that is not fresh may *)
(* turn routes of its sender away from its way: the history says so.        *)
Misleads(m) == ~m.fresh /\ routes' # routes
Others(m) == Aged(underWay \ {m}, IF Misleads(m) THEN {m.sender} ELSE {})

RelayMessage(m) ==
  /\ m.to # m.dest /\ m.to \in Relays
  /\ sendRoute(m.to, m, Others(m))
  /\ heard' = IF Misleads(m) THEN heard \ {m.sender} ELSE heard
  /\ UNCHANGED <<parent, moves>>

ReadMessage(m) ==
  /\ m.to = m.dest
  /\ routes' = IF m.dest \in Relays /\ m.last # parent[m.dest] THEN Learns(m.dest, m) ELSE routes
  /\ underWay' = Others(m)
  /\ heard' = IF Misleads(m) THEN heard \ {m.sender}
              ELSE IF m.fresh /\ m.dest = GATEWAY_ADDRESS THEN heard \cup {m.sender} ELSE heard
  /\ UNCHANGED <<parent, moves>>

(* In the air, or "read and drop" by a device that is no repeater.          *)
LoseRouted(m) ==
  /\ underWay' = underWay \ {m}
  /\ UNCHANGED <<parent, routes, moves, heard>>

-------------------------------------------------------------------------------
(* A device takes another parent, and tells nobody (Mesh).                  *)
TakesParent(n, p) ==
  /\ p \notin Below(n) \cup {parent[n]}
  /\ moves < MaxMoves /\ moves' = moves + 1
  /\ parent' = [parent EXCEPT ![n] = p]
  /\ underWay' = Aged(underWay, Below(n))
  /\ heard' = heard \ Below(n)
  /\ UNCHANGED routes

(* The tables of repeaters are kept in EEPROM, that of the gateway in RAM.  *)
GatewayForgets ==
  /\ routes' = [routes EXCEPT ![GATEWAY_ADDRESS] = NoRoutes]
  /\ heard' = {}
  /\ UNCHANGED <<parent, underWay, moves>>

RoutesNext ==
  \/ \E n \in Devices : SendMessage(n, GATEWAY_ADDRESS)
  \/ \E n \in Talkers \cup {GATEWAY_ADDRESS}, dest \in Devices : n # dest /\ SendMessage(n, dest)
  \/ \E m \in underWay : RelayMessage(m) \/ ReadMessage(m) \/ LoseRouted(m)
  \/ \E n \in Devices, p \in Relays : TakesParent(n, p)
  \/ GatewayForgets

RoutesSpec == RoutesInit /\ [][RoutesNext]_routeVars

-------------------------------------------------------------------------------
(* Once the gateway has heard of a device, what it sends back goes down the *)
(* way that messages of the device come up, whatever stations noted before, *)
(* and whatever else they pass on: until a parent on this way changes, or a *)
(* station notes a message of the device that is older or has left its way, *)
(* down a route to another device that has moved.                           *)
HeardAreReached ==
  \A n \in Devices : \A d \in heard \cap Below(n) : routes[parent[n]][d] = n
================================================================================
