------------------------------ MODULE LibraryProofs ----------------------------
(***************************************************************************)
(* About the libraries that the gateway is built on, each by itself:         *)
(*   - Routes: the gateway reaches the devices it has heard of, for any      *)
(*     devices, repeaters and first parents, and any number of messages      *)
(*     under way and of changes of parents;                                  *)
(*   - Clock: the chip keeps the time, whichever NTP tells.  Its loops over  *)
(*     years and months are recursive functions: that there is such a        *)
(*     function follows from an explicit one, and what it yields by           *)
(*     induction over the days that are left;                                *)
(*   - WiredInput and WiredOutput: frames come in and go out whole, for any  *)
(*     sizes of the memories, the frames and their pbufs;                    *)
(*   - NodeFirmware: a node only ever runs whole images, for any images, any *)
(*     number of retries, exchanges under way and faults.                    *)
(* The proofs about the SD card library are in SdCardProofs.                 *)
(***************************************************************************)
EXTENDS Routes, Clock, WiredInput, WiredOutput, NodeFirmware, WellFoundedInduction, TLAPS

Tree(p) == p \in [Stations -> Relays] /\ p[GATEWAY_ADDRESS] = GATEWAY_ADDRESS /\ WithoutLoops(p)

(* Where ways up go on until they reach the gateway.                        *)
Closed(p, S) == \A m \in S : p[m] \in S \cup {GATEWAY_ADDRESS}
BelowIn(p, n) == {d \in Devices : \A S \in SUBSET Devices : d \in S /\ Closed(p, S) => n \in S}

LEMMA BelowIsBelowIn ==
  /\ \A n : Below(n) = BelowIn(parent, n)
  /\ \A n : Below(n)' = BelowIn(parent', n)
BY DEF Below, BelowIn, Closed

LEMMA NoGateway ==
  /\ GATEWAY_ADDRESS \notin Devices /\ BROADCAST_ADDRESS \notin Stations
  /\ Devices \subseteq Stations /\ Relays \subseteq Stations
BY RoutesAssumption DEF GATEWAY_ADDRESS, BROADCAST_ADDRESS, Stations, Relays

-------------------------------------------------------------------------------
(* The ways up.                                                             *)

LEMMA BelowItself == \A p, n : n \in Devices => n \in BelowIn(p, n)
BY DEF BelowIn

(* The way of x goes on at its parent, unless it has come to a.             *)
LEMMA WayUp ==
  ASSUME NEW p, Tree(p), NEW a, NEW x \in BelowIn(p, a), x # a
  PROVE  p[x] \in Devices /\ p[x] \in BelowIn(p, a)
<1>1. x \in Devices /\ p[x] \in Stations
  BY NoGateway DEF BelowIn, Tree
<1>2. p[x] # GATEWAY_ADDRESS
  <2>1. ASSUME p[x] = GATEWAY_ADDRESS PROVE FALSE
    <3>1. {x} \in SUBSET Devices /\ x \in {x} /\ Closed(p, {x})
      BY <1>1, <2>1 DEF Closed
    <3>2. a \in {x}
      BY <3>1 DEF BelowIn
    <3>3. QED
      BY <3>2
  <2>2. QED
    BY <2>1
<1>3. p[x] \in Devices
  BY <1>1, <1>2 DEF Stations
<1>4. ASSUME NEW S \in SUBSET Devices, p[x] \in S, Closed(p, S) PROVE a \in S
  <2>1. S \cup {x} \in SUBSET Devices /\ x \in S \cup {x} /\ Closed(p, S \cup {x})
    BY <1>1, <1>4 DEF Closed
  <2>2. a \in S \cup {x}
    BY <2>1 DEF BelowIn
  <2>3. QED
    BY <2>2
<1>5. QED
  BY <1>3, <1>4 DEF BelowIn

LEMMA WayDown ==
  ASSUME NEW p, NEW a, NEW x \in Devices, p[x] \in BelowIn(p, a)
  PROVE  x \in BelowIn(p, a)
<1>1. ASSUME NEW S \in SUBSET Devices, x \in S, Closed(p, S) PROVE a \in S
  <2>1. p[x] \in S
    BY <1>1, NoGateway DEF Closed, BelowIn
  <2>2. QED
    BY <1>1, <2>1 DEF BelowIn
<1>2. QED
  BY <1>1 DEF BelowIn

LEMMA BelowParent ==
  ASSUME NEW p, NEW x \in Devices, p[x] \in Devices
  PROVE  x \in BelowIn(p, p[x])
BY BelowItself, WayDown

LEMMA BelowBelow ==
  ASSUME NEW p, NEW a, NEW b, NEW x \in BelowIn(p, a), a \in BelowIn(p, b)
  PROVE  x \in BelowIn(p, b)
BY DEF BelowIn

(* Two stations on the way of a device are on one way.                      *)
LEMMA OneWay ==
  ASSUME NEW p, Tree(p), NEW a \in Devices, NEW b \in Devices,
         NEW d \in Devices, d \in BelowIn(p, a), d \in BelowIn(p, b)
  PROVE  a \in BelowIn(p, b) \/ b \in BelowIn(p, a)
<1> SUFFICES ASSUME a \notin BelowIn(p, b), b \notin BelowIn(p, a) PROVE FALSE
  OBVIOUS
<1> DEFINE Both == {x \in Devices : x \in BelowIn(p, a) /\ x \in BelowIn(p, b)}
<1>1. ASSUME NEW x \in Both PROVE p[x] \in Both
  <2>1. x # a /\ x # b
    OBVIOUS
  <2>2. QED
    BY <2>1, WayUp
<1>2. Both \in SUBSET Devices /\ d \in Both /\ Closed(p, Both)
  BY <1>1 DEF Closed
<1>3. a \in Both
  BY <1>2 DEF BelowIn
<1>4. QED
  BY <1>3

(* No parent is below its child.                                            *)
LEMMA NoLoop ==
  ASSUME NEW p, Tree(p), NEW n \in Devices
  PROVE  p[n] \notin BelowIn(p, n)
<1> SUFFICES ASSUME p[n] \in BelowIn(p, n) PROVE FALSE
  OBVIOUS
<1> DEFINE Loop == {x \in Devices : x \in BelowIn(p, n) /\ n \in BelowIn(p, x)}
<1>1. n \in Loop /\ Loop \in SUBSET Devices
  BY BelowItself
<1>2. ASSUME NEW x \in Loop PROVE p[x] \in Loop
  <2>1. p[x] \in Devices /\ p[x] \in BelowIn(p, n)
    BY WayUp DEF BelowIn
  <2>2. x \in BelowIn(p, p[x])
    BY <2>1, BelowParent
  <2>3. n \in BelowIn(p, p[x])
    BY <2>2, BelowBelow
  <2>4. QED
    BY <2>1, <2>3
<1>3. \E x \in Loop : p[x] \notin Loop
  BY <1>1 DEF Tree, WithoutLoops
<1>4. QED
  BY <1>2, <1>3

LEMMA NotBothBelow ==
  ASSUME NEW p, Tree(p), NEW a \in Devices, NEW b \in Devices, a \in BelowIn(p, b), b \in BelowIn(p, a)
  PROVE  a = b
<1> SUFFICES ASSUME a # b PROVE FALSE
  OBVIOUS
<1>1. p[a] \in BelowIn(p, b)
  BY WayUp
<1>2. p[a] \in BelowIn(p, a)
  BY <1>1, BelowBelow
<1>3. QED
  BY <1>2, NoLoop

(* A station hears of a device from one of its children only.               *)
LEMMA OneChild ==
  ASSUME NEW p, Tree(p), NEW x \in Devices, NEW y \in Devices, p[x] = p[y],
         NEW d \in Devices, d \in BelowIn(p, x), d \in BelowIn(p, y)
  PROVE  x = y
<1> SUFFICES ASSUME x # y PROVE FALSE
  OBVIOUS
<1>1. ~(x \in BelowIn(p, y))
  BY WayUp, NoLoop
<1>2. ~(y \in BelowIn(p, x))
  BY WayUp, NoLoop
<1>3. QED
  BY <1>1, <1>2, OneWay

(* Who was on the way up to n before, or is now, is not who moves with it.   *)
LEMMA OtherWaysStay ==
  ASSUME NEW p, Tree(p), NEW n \in Devices, NEW q, NEW d \in Devices, d \notin BelowIn(p, n)
  PROVE  \A x : d \in BelowIn([p EXCEPT ![n] = q], x) <=> d \in BelowIn(p, x)
<1> DEFINE r == [p EXCEPT ![n] = q]
<1>1. \A m \in Devices \ {n} : r[m] = p[m]
  BY NoGateway DEF Tree
<1>2. PICK W \in SUBSET Devices : d \in W /\ Closed(p, W) /\ n \notin W
  BY DEF BelowIn
<1> HIDE DEF r
<1>3. Closed(r, W)
  BY <1>1, <1>2 DEF Closed
<1>4. ASSUME NEW x, d \in BelowIn(r, x) PROVE d \in BelowIn(p, x)
  <2>1. ASSUME NEW S \in SUBSET Devices, d \in S, Closed(p, S) PROVE x \in S
    <3>1. Closed(r, S \cap W) /\ d \in S \cap W
      BY <1>1, <1>2, <2>1 DEF Closed
    <3>2. QED
      BY <1>4, <3>1 DEF BelowIn
  <2>2. QED
    BY <2>1 DEF BelowIn
<1>5. ASSUME NEW x, d \in BelowIn(p, x) PROVE d \in BelowIn(r, x)
  <2>1. ASSUME NEW S \in SUBSET Devices, d \in S, Closed(r, S) PROVE x \in S
    <3>1. Closed(p, S \cap W) /\ d \in S \cap W
      BY <1>1, <1>2, <2>1 DEF Closed
    <3>2. QED
      BY <1>5, <3>1 DEF BelowIn
  <2>2. QED
    BY <2>1 DEF BelowIn
<1>6. QED
  BY <1>4, <1>5 DEF r

(* A parent that is not below its child makes no loop.                      *)
LEMMA StillATree ==
  ASSUME NEW p, Tree(p), NEW n \in Devices, NEW q \in Relays, q \notin BelowIn(p, n)
  PROVE  Tree([p EXCEPT ![n] = q])
<1> DEFINE r == [p EXCEPT ![n] = q]
<1>1. r \in [Stations -> Relays] /\ r[GATEWAY_ADDRESS] = GATEWAY_ADDRESS
  BY NoGateway DEF Tree, Stations
<1>2. r[n] = q /\ \A m \in Devices \ {n} : r[m] = p[m]
  BY NoGateway DEF Tree
<1> HIDE DEF r
<1>3. ASSUME NEW S \in SUBSET Devices, S # {}, \A x \in S : r[x] \in S PROVE FALSE
  <2>1. CASE n \notin S
    BY <1>2, <1>3, <2>1 DEF Tree, WithoutLoops
  <2>2. CASE n \in S
    <3> DEFINE T == S \ BelowIn(p, n)
    <3>1. T \in SUBSET Devices /\ q \in T /\ n \notin T
      BY <1>2, <1>3, <2>2, BelowItself
    <3>2. ASSUME NEW x \in T PROVE p[x] \in T
      <4>1. p[x] \in S
        BY <1>2, <1>3, <3>1
      <4>2. p[x] \notin BelowIn(p, n)
        BY WayDown
      <4>3. QED
        BY <4>1, <4>2
    <3>3. QED
      BY <3>1, <3>2 DEF Tree, WithoutLoops
  <2>3. QED
    BY <2>1, <2>2
<1>4. WithoutLoops(r)
  BY <1>3 DEF WithoutLoops
<1>5. QED
  BY <1>1, <1>4 DEF Tree, r

-------------------------------------------------------------------------------
(* The invariant.                                                           *)

Tables == [Stations -> [Devices -> Stations \cup {BROADCAST_ADDRESS}]]
Messages == [sender : Stations, dest : Stations, last : Stations, to : Stations, fresh : BOOLEAN]

RoutesTyped ==
  /\ Tree(parent) /\ routes \in Tables /\ heard \subseteq Devices
  /\ underWay \subseteq Messages
  /\ \A m \in underWay : m.dest = GATEWAY_ADDRESS => m.sender \in Devices

(* The stations that a message from d to the gateway has come past, from    *)
(* the device to the child it was sent by, have routes for this way.        *)
Noted(table, d, last) ==
  \A n \in Devices : d \in Below(n) /\ n \in Below(last) /\ n # last => table[parent[n]][d] = n

OnItsWay(m) ==
  m.fresh /\ m.sender \in Devices =>
    /\ m.last \in Devices /\ m.sender \in Below(m.last) /\ m.to = parent[m.last]
    /\ Noted(routes, m.sender, m.last)

FreshMessagesAreOnTheirWay == \A m \in underWay : OnItsWay(m)

RoutesInv == RoutesTyped /\ FreshMessagesAreOnTheirWay /\ HeardAreReached

(* Messages that wait, or grow old.                                         *)
LEMMA AgedMessages ==
  ASSUME NEW messages \in SUBSET underWay, NEW senders, NEW m \in Aged(messages, senders)
  PROVE  \E o \in underWay : /\ m = [o EXCEPT !.fresh = o.fresh /\ o.sender \notin senders]
BY DEF Aged

LEMMA AgedTyped ==
  ASSUME RoutesTyped, NEW messages \in SUBSET underWay, NEW senders
  PROVE  /\ Aged(messages, senders) \subseteq Messages
         /\ \A m \in Aged(messages, senders) : m.dest = GATEWAY_ADDRESS => m.sender \in Devices
         /\ \A m \in Aged(messages, senders) : m.fresh =>
              /\ m.sender \notin senders
              /\ \E o \in underWay : /\ o.fresh /\ o.sender = m.sender /\ o.last = m.last /\ o.to = m.to
<1> SUFFICES ASSUME NEW m \in Aged(messages, senders)
             PROVE  /\ m \in Messages
                    /\ m.dest = GATEWAY_ADDRESS => m.sender \in Devices
                    /\ m.fresh =>
                         /\ m.sender \notin senders
                         /\ \E o \in underWay : /\ o.fresh /\ o.sender = m.sender /\ o.last = m.last
                                               /\ o.to = m.to
  OBVIOUS
<1>1. PICK o \in underWay : m = [o EXCEPT !.fresh = o.fresh /\ o.sender \notin senders]
  BY AgedMessages
<1>2. o \in Messages /\ (o.dest = GATEWAY_ADDRESS => o.sender \in Devices)
  BY DEF RoutesTyped
<1>3. /\ m.sender = o.sender /\ m.dest = o.dest /\ m.last = o.last /\ m.to = o.to
      /\ m.fresh = (o.fresh /\ o.sender \notin senders) /\ m \in Messages
  BY <1>1, <1>2 DEF Messages
<1>4. QED
  BY <1>2, <1>3

-------------------------------------------------------------------------------
(* The first invariants after the station that a message came to through l   *)
(* has noted it.                                                            *)
LEMMA NotedOnTheWay ==
  ASSUME RoutesTyped, NEW l \in Devices, NEW d \in Devices, d \in Below(l),
         NEW last, Noted(routes, d, last), NEW table, table = [routes EXCEPT ![parent[l]][d] = l]
  PROVE  Noted(table, d, last)
<1>1. ASSUME NEW n \in Devices, d \in Below(n), n \in Below(last), n # last
      PROVE  table[parent[n]][d] = n
  <2>1. parent[n] \in Stations /\ parent[l] \in Stations
    BY NoGateway DEF RoutesTyped, Tree
  <2>2. CASE parent[n] = parent[l]
    <3>1. n = l
      BY <1>1, <2>2, OneChild, BelowIsBelowIn DEF RoutesTyped
    <3>2. QED
      BY <2>1, <2>2, <3>1 DEF RoutesTyped, Tables
  <2>3. CASE parent[n] # parent[l]
    BY <1>1, <2>1, <2>3 DEF RoutesTyped, Tables, Noted
  <2>4. QED
    BY <2>2, <2>3
<1>2. QED
  BY <1>1 DEF Noted

(* Other devices do not notice.                                             *)
LEMMA NotedByOthers ==
  ASSUME RoutesTyped, NEW s \in Stations, NEW e \in Devices, NEW l,
         NEW d \in Devices, d # e, NEW last, Noted(routes, d, last),
         NEW table, table = [routes EXCEPT ![s][e] = l]
  PROVE  Noted(table, d, last)
<1>1. \A x \in Stations : table[x][d] = routes[x][d]
  BY DEF RoutesTyped, Tables
<1>2. \A n \in Devices : parent[n] \in Stations
  BY NoGateway DEF RoutesTyped, Tree
<1>3. QED
  BY <1>1, <1>2 DEF Noted

(* One station further, the child is noted too.                             *)
LEMMA NotedHigher ==
  ASSUME RoutesTyped, NEW l \in Devices, NEW d \in Devices, d \in Below(l), parent[l] \in Devices,
         Noted(routes, d, l), NEW table, table = [routes EXCEPT ![parent[l]][d] = l]
  PROVE  d \in Below(parent[l]) /\ Noted(table, d, parent[l])
<1>1. Tree(parent)
  BY DEF RoutesTyped
<1>2. l \in Below(parent[l]) /\ d \in Below(parent[l])
  BY BelowParent, BelowBelow, BelowIsBelowIn
<1>3. Noted(table, d, l)
  BY NotedOnTheWay
<1>4. ASSUME NEW n \in Devices, d \in Below(n), n \in Below(parent[l]), n # parent[l]
      PROVE  table[parent[n]][d] = n
  <2>1. CASE n = l
    BY <2>1, NoGateway DEF RoutesTyped, Tables
  <2>2. CASE n # l
    <3>1. l \notin Below(n)
      <4>1. ASSUME l \in Below(n) PROVE FALSE
        <5>1. parent[l] \in Below(n)
          BY <1>1, <2>2, <4>1, WayUp, BelowIsBelowIn
        <5>2. QED
          BY <1>1, <1>4, <5>1, NotBothBelow, BelowIsBelowIn
      <4>2. QED
        BY <4>1
    <3>2. n \in Below(l)
      BY <1>1, <1>4, <3>1, OneWay, BelowIsBelowIn
    <3>3. QED
      BY <1>3, <1>4, <2>2, <3>2 DEF Noted
  <2>3. QED
    BY <2>1, <2>2
<1>5. QED
  BY <1>2, <1>4 DEF Noted

(* At the gateway, the whole way is noted.                                  *)
LEMMA NotedByAll ==
  ASSUME RoutesTyped, NEW l \in Devices, NEW d \in Devices, d \in Below(l),
         parent[l] = GATEWAY_ADDRESS,
         Noted(routes, d, l), NEW table, table = [routes EXCEPT ![parent[l]][d] = l]
  PROVE  \A n \in Devices : d \in Below(n) => table[parent[n]][d] = n
<1> SUFFICES ASSUME NEW n \in Devices, d \in Below(n) PROVE table[parent[n]][d] = n
  OBVIOUS
<1>1. Tree(parent) /\ Noted(table, d, l)
  BY NotedOnTheWay DEF RoutesTyped
<1>2. CASE n = l
  BY <1>2, NoGateway DEF RoutesTyped, Tables, Stations
<1>3. CASE n # l
  <2>1. l \notin Below(n)
    BY <1>1, <1>3, WayUp, NoGateway, BelowIsBelowIn
  <2>2. n \in Below(l)
    BY <1>1, <2>1, OneWay, BelowIsBelowIn
  <2>3. QED
    BY <1>1, <1>3, <2>2 DEF Noted
<1>4. QED
  BY <1>2, <1>3

(* What was reached stays reached when its way is noted again.              *)
LEMMA ReachedStays ==
  ASSUME RoutesTyped, HeardAreReached, NEW l \in Devices, NEW d \in Devices, d \in Below(l)
  PROVE  \A n \in Devices : \A e \in heard \cap Below(n) :
           [routes EXCEPT ![parent[l]][d] = l][parent[n]][e] = n
<1> SUFFICES ASSUME NEW n \in Devices, NEW e \in heard \cap Below(n)
             PROVE  [routes EXCEPT ![parent[l]][d] = l][parent[n]][e] = n
  OBVIOUS
<1>1. Tree(parent) /\ parent[n] \in Stations /\ parent[l] \in Stations /\ e \in Devices
  BY NoGateway DEF RoutesTyped, Tree
<1>2. routes[parent[n]][e] = n
  BY DEF HeardAreReached
<1>3. CASE e = d /\ parent[n] = parent[l]
  <2>1. n = l
    BY <1>1, <1>3, OneChild, BelowIsBelowIn
  <2>2. QED
    BY <1>1, <1>3, <2>1 DEF RoutesTyped, Tables
<1>4. CASE ~(e = d /\ parent[n] = parent[l])
  BY <1>1, <1>2, <1>4 DEF RoutesTyped, Tables
<1>5. QED
  BY <1>3, <1>4

-------------------------------------------------------------------------------
(* A station notes a message that has come to it, or notes nothing: the      *)
(* other messages are still on their way, and what was reached is reached.   *)
LEMMA NotesStep ==
  ASSUME RoutesInv, NEW m \in underWay, UNCHANGED parent, routes' \in {routes, Learns(m.to, m)}
  PROVE  /\ routes' \in Tables /\ Tree(parent)' /\ Others(m) \subseteq Messages
         /\ \A o \in Others(m) : o.dest = GATEWAY_ADDRESS => o.sender \in Devices
         /\ \A o \in Others(m) : OnItsWay(o)'
         /\ \A n \in Devices : \A e \in (IF Misleads(m) THEN heard \ {m.sender} ELSE heard) \cap Below(n) :
               routes'[parent[n]][e] = n
<1> USE DEF RoutesInv
<1>1. m \in Messages /\ m.to \in Stations /\ m.last \in Stations
  BY DEF RoutesTyped, Messages
<1>2. routes' \in Tables /\ Tree(parent)'
  BY <1>1 DEF RoutesTyped, Learns, Tables
<1> DEFINE gone == IF Misleads(m) THEN {m.sender} ELSE {}
<1>3. /\ Others(m) \subseteq Messages
      /\ \A o \in Others(m) : o.dest = GATEWAY_ADDRESS => o.sender \in Devices
      /\ \A o \in Others(m) : o.fresh =>
           /\ o.sender \notin gone
           /\ \E p \in underWay : /\ p.fresh /\ p.sender = o.sender /\ p.last = o.last /\ p.to = o.to
  BY AgedTyped DEF Others
<1>4. \A n : Below(n)' = Below(n)
  BY BelowIsBelowIn
<1>5. ASSUME \A d \in Devices \ gone, last \in Devices : d \in Below(last) /\ Noted(routes, d, last) => Noted(routes', d, last)
      PROVE  \A o \in Others(m) : OnItsWay(o)'
  <2> SUFFICES ASSUME NEW o \in Others(m), o.fresh, o.sender \in Devices PROVE OnItsWay(o)'
    BY DEF OnItsWay
  <2>1. PICK p \in underWay : p.fresh /\ p.sender = o.sender /\ p.last = o.last /\ p.to = o.to
    BY <1>3
  <2>2. /\ o.last \in Devices /\ o.sender \in Below(o.last) /\ o.to = parent[o.last]
        /\ Noted(routes, o.sender, o.last)
    BY <2>1 DEF FreshMessagesAreOnTheirWay, OnItsWay
  <2>3. Noted(routes', o.sender, o.last)
    BY <1>3, <1>5, <2>2
  <2>4. QED
    BY <1>4, <2>2, <2>3 DEF OnItsWay, Noted
<1>6. CASE routes' = routes
  <2>1. \A o \in Others(m) : OnItsWay(o)'
    BY <1>5, <1>6
  <2>2. QED
    BY <1>2, <1>3, <1>6, <2>1 DEF HeardAreReached
<1>7. CASE routes' # routes
  <2>1. /\ m.sender \in Devices \ {m.to}
        /\ routes' = [routes EXCEPT ![m.to][m.sender] = m.last]
    BY <1>7 DEF Learns
  <2>2. CASE m.fresh
    <3>1. m.last \in Devices /\ m.sender \in Below(m.last) /\ m.to = parent[m.last] /\ ~Misleads(m)
      BY <2>1, <2>2 DEF FreshMessagesAreOnTheirWay, OnItsWay, Misleads
    <3>2. ASSUME NEW d \in Devices, NEW last \in Devices, d \in Below(last), Noted(routes, d, last)
          PROVE  Noted(routes', d, last)
      <4>1. CASE d = m.sender
        BY <2>1, <3>1, <3>2, <4>1, NotedOnTheWay
      <4>2. CASE d # m.sender
        BY <1>1, <2>1, <3>2, <4>2, NotedByOthers
      <4>3. QED
        BY <4>1, <4>2
    <3>3. \A n \in Devices : \A e \in heard \cap Below(n) : routes'[parent[n]][e] = n
      <4>1. routes' = [routes EXCEPT ![parent[m.last]][m.sender] = m.last]
        BY <2>1, <3>1
      <4>2. m.last \in Devices /\ m.sender \in Devices /\ m.sender \in Below(m.last)
        BY <2>1, <3>1
      <4>3. RoutesTyped /\ HeardAreReached
        OBVIOUS
      <4>4. \A n \in Devices : \A e \in heard \cap Below(n) :
              [routes EXCEPT ![parent[m.last]][m.sender] = m.last][parent[n]][e] = n
        BY <4>2, <4>3, ReachedStays
      <4>5. QED
        BY <4>1, <4>4
    <3>4. \A o \in Others(m) : OnItsWay(o)'
      BY <1>5, <3>2
    <3>5. QED
      BY <1>2, <1>3, <3>1, <3>3, <3>4
  <2>3. CASE ~m.fresh
    <3>1. Misleads(m)
      BY <1>7, <2>3 DEF Misleads
    <3>2. ASSUME NEW d \in Devices \ gone, NEW last \in Devices, d \in Below(last), Noted(routes, d, last)
          PROVE  Noted(routes', d, last)
      <4>1. d # m.sender
        BY <3>1
      <4>2. QED
        BY <1>1, <2>1, <3>2, <4>1, NotedByOthers
    <3>3. \A n \in Devices : \A e \in (heard \ {m.sender}) \cap Below(n) : routes'[parent[n]][e] = n
      BY <1>1, <2>1 DEF RoutesTyped, Tables, HeardAreReached
    <3>4. \A o \in Others(m) : OnItsWay(o)'
      BY <1>5, <3>2
    <3>5. QED
      BY <1>2, <1>3, <3>1, <3>3, <3>4
  <2>4. QED
    BY <1>1, <2>2, <2>3
<1>8. QED
  BY <1>6, <1>7

(* A fresh message never comes to its sender, and comes to a station that    *)
(* notes it from a child of this station.                                   *)
LEMMA FreshComesFromChild ==
  ASSUME RoutesInv, NEW m \in underWay, m.fresh, m.sender \in Devices
  PROVE  /\ m.last \in Devices /\ m.sender \in Below(m.last) /\ m.to = parent[m.last]
         /\ Noted(routes, m.sender, m.last)
         /\ m.to \in Relays /\ m.last # parent[m.to]
         /\ Learns(m.to, m) = [routes EXCEPT ![parent[m.last]][m.sender] = m.last]
<1>1. /\ m.last \in Devices /\ m.sender \in Below(m.last) /\ m.to = parent[m.last]
      /\ Noted(routes, m.sender, m.last) /\ Tree(parent)
  BY DEF RoutesInv, RoutesTyped, FreshMessagesAreOnTheirWay, OnItsWay
<1>2. m.to \in Relays
  BY <1>1, NoGateway DEF Tree
<1>3. m.last # parent[m.to]
  <2>1. CASE m.to = GATEWAY_ADDRESS
    BY <1>1, <2>1, NoGateway DEF Tree
  <2>2. CASE m.to # GATEWAY_ADDRESS
    <3>1. m.to \in Devices
      BY <1>2, <2>2, NoGateway DEF Stations
    <3>2. m.last \in BelowIn(parent, m.to)
      BY <1>1, <3>1, BelowParent
    <3>3. QED
      BY <1>1, <3>1, <3>2, NoLoop
  <2>3. QED
    BY <2>1, <2>2
<1>4. m.sender # m.to
  BY <1>1, NoLoop, BelowIsBelowIn
<1>5. QED
  BY <1>1, <1>2, <1>3, <1>4 DEF Learns

(* A message that goes up from where it has come to.                        *)
LEMMA GoesUp ==
  ASSUME RoutesInv, NEW m \in underWay, UNCHANGED parent, m.to \in Devices,
         NEW up, up = [m EXCEPT !.last = m.to, !.to = parent[m.to]], routes' = Learns(m.to, m)
  PROVE  up \in Messages /\ up.dest = m.dest /\ up.sender = m.sender /\ OnItsWay(up)'
<1>1. m \in Messages /\ parent[m.to] \in Stations
  BY NoGateway DEF RoutesInv, RoutesTyped, Tree
<1>2. /\ up \in Messages /\ up.dest = m.dest /\ up.sender = m.sender /\ up.fresh = m.fresh
      /\ up.last = m.to /\ up.to = parent[m.to]
  BY <1>1, NoGateway DEF Messages
<1>3. ASSUME m.fresh, m.sender \in Devices PROVE OnItsWay(up)'
  <2>1. /\ m.last \in Devices /\ m.sender \in Below(m.last) /\ m.to = parent[m.last]
        /\ Noted(routes, m.sender, m.last)
        /\ routes' = [routes EXCEPT ![parent[m.last]][m.sender] = m.last]
    BY <1>3, FreshComesFromChild
  <2>2. m.sender \in Below(m.to) /\ Noted(routes', m.sender, m.to)
    BY <1>3, <2>1, NotedHigher DEF RoutesInv
  <2>3. \A n : Below(n)' = Below(n)
    BY BelowIsBelowIn
  <2>4. QED
    BY <1>2, <2>2, <2>3 DEF OnItsWay, Noted
<1>4. ASSUME ~(m.fresh /\ m.sender \in Devices) PROVE OnItsWay(up)'
  BY <1>2, <1>4 DEF OnItsWay
<1>5. QED
  BY <1>2, <1>3, <1>4

LEMMA RelayStep ==
  ASSUME RoutesInv, NEW m \in underWay, RelayMessage(m)
  PROVE  RoutesInv'
<1> DEFINE n == m.to
           stillHeard == IF Misleads(m) THEN heard \ {m.sender} ELSE heard
<1>1. /\ n # m.dest /\ n \in Relays /\ sendRoute(n, m, Others(m))
      /\ heard' = stillHeard /\ UNCHANGED parent
  BY DEF RelayMessage
<1>2. routes' \in {routes, Learns(n, m)}
  BY <1>1 DEF sendRoute, ToParent, Downstream, WithoutRoute
<1>3. /\ routes' \in Tables /\ Tree(parent)' /\ Others(m) \subseteq Messages
      /\ \A o \in Others(m) : o.dest = GATEWAY_ADDRESS => o.sender \in Devices
      /\ \A o \in Others(m) : OnItsWay(o)'
      /\ \A x \in Devices : \A e \in stillHeard \cap Below(x) : routes'[parent[x]][e] = x
  BY <1>1, <1>2, NotesStep
<1>4. HeardAreReached' /\ heard' \subseteq Devices
  BY <1>1, <1>3, BelowIsBelowIn DEF HeardAreReached, RoutesInv, RoutesTyped
<1>5. m \in Messages /\ (m.dest = GATEWAY_ADDRESS => m.sender \in Devices)
  BY DEF RoutesInv, RoutesTyped
<1>6. ASSUME NEW o, underWay' = Others(m) \cup {o}, o \in Messages, OnItsWay(o)',
             o.dest = GATEWAY_ADDRESS => o.sender \in Devices
      PROVE  RoutesInv'
  BY <1>3, <1>4, <1>6 DEF RoutesInv, RoutesTyped, FreshMessagesAreOnTheirWay
<1>7. ASSUME n # GATEWAY_ADDRESS, routes' = Learns(n, m), underWay' = Others(m) \cup Sends(n, parent[n], m)
      PROVE  RoutesInv'
  <2>1. n \in Devices
    BY <1>1, <1>7, NoGateway DEF Stations
  <2>2. PICK up : up = [m EXCEPT !.last = n, !.to = parent[n]]
    OBVIOUS
  <2>3. up \in Messages /\ up.dest = m.dest /\ up.sender = m.sender /\ OnItsWay(up)'
    BY <1>1, <1>7, <2>1, <2>2, GoesUp
  <2>4. underWay' = Others(m) \cup {up}
    BY <1>7, <2>2 DEF Sends
  <2>5. QED
    BY <1>5, <1>6, <2>3, <2>4
<1>8. CASE ToParent(n, m, Others(m))
  BY <1>1, <1>7, <1>8 DEF ToParent
<1>9. CASE WithoutRoute(n, m, Others(m))
  <2>1. CASE n = GATEWAY_ADDRESS
    <3>1. underWay' = Others(m)
      BY <1>9, <2>1 DEF WithoutRoute
    <3>2. QED
      BY <1>3, <1>4, <3>1 DEF RoutesInv, RoutesTyped, FreshMessagesAreOnTheirWay
  <2>2. CASE n # GATEWAY_ADDRESS
    BY <1>7, <1>9, <2>2 DEF WithoutRoute
  <2>3. QED
    BY <2>1, <2>2
<1>10. CASE Downstream(n, m, Others(m))
  <2>1. PICK left : left = [m EXCEPT !.fresh = FALSE]
    OBVIOUS
  <2>2. PICK down : down = [left EXCEPT !.last = n, !.to = routes[n][m.dest]]
    OBVIOUS
  <2>3. underWay' = Others(m) \cup {down} /\ routes[n][m.dest] \in Stations /\ n \in Stations
    BY <1>1, <1>10, <2>1, <2>2, NoGateway DEF Downstream, Sends
  <2>4. left \in Messages /\ left.fresh = FALSE /\ left.dest = m.dest /\ left.sender = m.sender
    BY <1>5, <2>1 DEF Messages
  <2>5. down \in Messages /\ down.fresh = FALSE /\ down.dest = m.dest /\ down.sender = m.sender
    BY <2>2, <2>3, <2>4 DEF Messages
  <2>6. OnItsWay(down)'
    BY <2>5 DEF OnItsWay
  <2>7. QED
    BY <1>5, <1>6, <2>3, <2>5, <2>6
<1>11. QED
  BY <1>1, <1>8, <1>9, <1>10 DEF sendRoute

LEMMA ReadStep ==
  ASSUME RoutesInv, NEW m \in underWay, ReadMessage(m)
  PROVE  RoutesInv'
<1> DEFINE stillHeard == IF Misleads(m) THEN heard \ {m.sender} ELSE heard
<1>1. /\ m.to = m.dest /\ underWay' = Others(m) /\ UNCHANGED parent
      /\ routes' = IF m.dest \in Relays /\ m.last # parent[m.dest] THEN Learns(m.dest, m) ELSE routes
      /\ heard' = IF Misleads(m) THEN heard \ {m.sender}
                  ELSE IF m.fresh /\ m.dest = GATEWAY_ADDRESS THEN heard \cup {m.sender} ELSE heard
  BY DEF ReadMessage
<1>2. routes' \in {routes, Learns(m.to, m)}
  BY <1>1
<1>3. /\ routes' \in Tables /\ Tree(parent)' /\ Others(m) \subseteq Messages
      /\ \A o \in Others(m) : o.dest = GATEWAY_ADDRESS => o.sender \in Devices
      /\ \A o \in Others(m) : OnItsWay(o)'
      /\ \A x \in Devices : \A e \in stillHeard \cap Below(x) : routes'[parent[x]][e] = x
  BY <1>1, <1>2, NotesStep
<1>4. HeardAreReached' /\ heard' \subseteq Devices
  <2>1. CASE heard' = stillHeard
    BY <1>1, <1>3, <2>1, BelowIsBelowIn DEF HeardAreReached, RoutesInv, RoutesTyped
  <2>2. CASE ~Misleads(m) /\ m.fresh /\ m.dest = GATEWAY_ADDRESS /\ heard' = heard \cup {m.sender}
    <3>1. m.sender \in Devices
      BY <2>2 DEF RoutesInv, RoutesTyped
    <3>2. /\ m.last \in Devices /\ m.sender \in Below(m.last) /\ parent[m.last] = GATEWAY_ADDRESS
          /\ Noted(routes, m.sender, m.last)
          /\ routes' = [routes EXCEPT ![parent[m.last]][m.sender] = m.last]
      BY <1>1, <2>2, <3>1, FreshComesFromChild
    <3>3. \A x \in Devices : m.sender \in Below(x) => routes'[parent[x]][m.sender] = x
      BY <3>1, <3>2, NotedByAll DEF RoutesInv
    <3>4. \A x \in Devices : \A e \in heard' \cap Below(x) : routes'[parent[x]][e] = x
      BY <1>3, <2>2, <3>3
    <3>5. QED
      BY <1>1, <2>2, <3>1, <3>4, BelowIsBelowIn DEF HeardAreReached, RoutesInv, RoutesTyped
  <2>3. QED
    BY <1>1, <2>1, <2>2
<1>5. QED
  BY <1>1, <1>3, <1>4 DEF RoutesInv, RoutesTyped, FreshMessagesAreOnTheirWay

-------------------------------------------------------------------------------
LEMMA SendStep ==
  ASSUME RoutesInv, NEW n \in Devices \cup {GATEWAY_ADDRESS}, NEW dest \in Stations, SendMessage(n, dest),
         n = GATEWAY_ADDRESS => dest \in Devices
  PROVE  RoutesInv'
<1>1. PICK new : new = Message(n, dest)
  OBVIOUS
<1>2. /\ new \in Messages /\ new.sender = n /\ new.dest = dest /\ n \in Stations
      /\ new.last = n /\ new.to = n /\ new.fresh = TRUE
  BY <1>1 DEF Message, Messages, Stations
<1>3. sendRoute(n, new, underWay) /\ UNCHANGED <<parent, heard>>
  BY <1>1 DEF SendMessage
<1>4. UNCHANGED routes
  BY <1>2, <1>3 DEF sendRoute, ToParent, Downstream, WithoutRoute, Learns
<1>5. Tree(parent) /\ parent[n] \in Stations
  BY <1>2, NoGateway DEF RoutesInv, RoutesTyped, Tree
<1>6. \A x : Below(x)' = Below(x)
  BY <1>3, BelowIsBelowIn
<1>7. CASE underWay' = underWay
  BY <1>3, <1>4, <1>6, <1>7 DEF RoutesInv, RoutesTyped, FreshMessagesAreOnTheirWay, OnItsWay, Noted,
     HeardAreReached
<1>8. ASSUME NEW o, underWay' = underWay \cup {o}, o \in Messages, OnItsWay(o)',
             o.dest = GATEWAY_ADDRESS => o.sender \in Devices
      PROVE  RoutesInv'
  <2>1. \A m \in underWay : OnItsWay(m)'
    BY <1>3, <1>4, <1>6 DEF RoutesInv, FreshMessagesAreOnTheirWay, OnItsWay, Noted
  <2>2. HeardAreReached'
    BY <1>3, <1>4, <1>6 DEF RoutesInv, HeardAreReached
  <2>3. QED
    BY <1>3, <1>4, <1>8, <2>1, <2>2 DEF RoutesInv, RoutesTyped, FreshMessagesAreOnTheirWay
<1>9. CASE n \in Devices /\ underWay' = underWay \cup Sends(n, parent[n], new)
  <2>1. PICK up : up = [new EXCEPT !.last = n, !.to = parent[n]]
    OBVIOUS
  <2>2. /\ up \in Messages /\ up.sender = n /\ up.last = n /\ up.to = parent[n]
    BY <1>2, <1>5, <2>1 DEF Messages
  <2>3. n \in Below(n) /\ Noted(routes, n, n)
    BY <1>5, <1>9, BelowItself, NotBothBelow, BelowIsBelowIn DEF Noted
  <2>4. OnItsWay(up)'
    BY <1>3, <1>4, <1>6, <1>9, <2>2, <2>3 DEF OnItsWay, Noted
  <2>5. QED
    BY <1>8, <1>9, <2>1, <2>2, <2>4 DEF Sends
<1>10. CASE Downstream(n, new, underWay)
  <2>1. PICK left : left = [new EXCEPT !.fresh = FALSE]
    OBVIOUS
  <2>2. PICK down : down = [left EXCEPT !.last = n, !.to = routes[n][dest]]
    OBVIOUS
  <2>3. underWay' = underWay \cup {down} /\ routes[n][dest] \in Stations /\ dest # GATEWAY_ADDRESS
    BY <1>2, <1>10, <2>1, <2>2, NoGateway DEF Downstream, Sends
  <2>4. left \in Messages /\ left.fresh = FALSE /\ left.dest = dest
    BY <1>2, <2>1 DEF Messages
  <2>5. down \in Messages /\ down.fresh = FALSE /\ down.dest = dest
    BY <1>2, <2>2, <2>3, <2>4 DEF Messages
  <2>6. OnItsWay(down)'
    BY <2>5 DEF OnItsWay
  <2>7. QED
    BY <1>8, <2>3, <2>5, <2>6
<1>11. CASE ToParent(n, new, underWay) \/ WithoutRoute(n, new, underWay)
  <2>1. n \in Devices \/ (n = GATEWAY_ADDRESS /\ GATEWAY_ADDRESS \in Relays)
    BY DEF Relays
  <2>2. QED
    BY <1>2, <1>7, <1>9, <1>11, <2>1, NoGateway DEF ToParent, WithoutRoute
<1>12. QED
  BY <1>3, <1>10, <1>11 DEF sendRoute

(* What moves, moves with all that is below it, and is forgotten.           *)
LEMMA MoveStep ==
  ASSUME RoutesInv, NEW n \in Devices, NEW q \in Relays, TakesParent(n, q)
  PROVE  RoutesInv'
<1>1. /\ q \notin Below(n) /\ parent' = [parent EXCEPT ![n] = q] /\ UNCHANGED routes
      /\ underWay' = Aged(underWay, Below(n)) /\ heard' = heard \ Below(n) /\ Tree(parent)
  BY DEF TakesParent, RoutesInv, RoutesTyped
<1>2. Tree(parent)'
  BY <1>1, StillATree, BelowIsBelowIn
<1>3. /\ underWay' \subseteq Messages
      /\ \A m \in underWay' : m.dest = GATEWAY_ADDRESS => m.sender \in Devices
      /\ \A m \in underWay' : m.fresh =>
           /\ m.sender \notin Below(n)
           /\ \E o \in underWay : /\ o.fresh /\ o.sender = m.sender /\ o.last = m.last /\ o.to = m.to
  BY <1>1, AgedTyped DEF RoutesInv
<1>4. \A d \in Devices \ Below(n) : \A x : d \in Below(x)' <=> d \in Below(x)
  BY <1>1, OtherWaysStay, BelowIsBelowIn
<1>5. \A x \in Devices : \A d \in Devices \ Below(n) : d \in Below(x) => x \notin Below(n)
  BY BelowBelow, BelowIsBelowIn
<1>6. \A x \in Devices \ Below(n) : parent'[x] = parent[x]
  BY <1>1, BelowItself, NoGateway, BelowIsBelowIn DEF Tree
<1>7. HeardAreReached'
  BY <1>1, <1>4, <1>5, <1>6 DEF RoutesInv, RoutesTyped, HeardAreReached
<1>8. ASSUME NEW m \in underWay', m.fresh, m.sender \in Devices PROVE OnItsWay(m)'
  <2>1. PICK o \in underWay : o.fresh /\ o.sender = m.sender /\ o.last = m.last /\ o.to = m.to
    BY <1>3, <1>8
  <2>2. /\ m.last \in Devices /\ m.sender \in Below(m.last) /\ m.to = parent[m.last]
        /\ Noted(routes, m.sender, m.last) /\ m.sender \notin Below(n)
    BY <1>3, <1>8, <2>1 DEF RoutesInv, FreshMessagesAreOnTheirWay, OnItsWay
  <2>3. m.last \notin Below(n) /\ m.sender \in Below(m.last)' /\ m.to = parent'[m.last]
    BY <1>4, <1>5, <1>6, <1>8, <2>2
  <2>4. ASSUME NEW x \in Devices, m.sender \in Below(x)', x \in Below(m.last)', x # m.last
        PROVE  routes'[parent'[x]][m.sender] = x
    <3>1. m.sender \in Below(x) /\ x \notin Below(n)
      BY <1>4, <1>5, <1>8, <2>2, <2>4
    <3>2. x \in Below(m.last)
      BY <1>4, <2>4, <3>1
    <3>3. QED
      BY <1>1, <1>6, <2>2, <2>4, <3>1, <3>2 DEF Noted
  <2>5. QED
    BY <2>2, <2>3, <2>4 DEF OnItsWay, Noted
<1>9. FreshMessagesAreOnTheirWay'
  BY <1>8 DEF FreshMessagesAreOnTheirWay, OnItsWay
<1>10. QED
  BY <1>1, <1>2, <1>3, <1>7, <1>9 DEF RoutesInv, RoutesTyped

(* The gateway forgets what it has noted, and whom it has heard of.         *)
LEMMA ForgetStep == RoutesInv /\ GatewayForgets => RoutesInv'
<1> SUFFICES ASSUME RoutesInv, GatewayForgets PROVE RoutesInv'
  OBVIOUS
<1>1. /\ routes' = [routes EXCEPT ![GATEWAY_ADDRESS] = NoRoutes] /\ heard' = {}
      /\ UNCHANGED <<parent, underWay>> /\ Tree(parent) /\ routes \in Tables
  BY DEF GatewayForgets, RoutesInv, RoutesTyped
<1>2. \A x : Below(x)' = Below(x)
  BY <1>1, BelowIsBelowIn
<1>3. routes' \in Tables
  BY <1>1 DEF Tables, NoRoutes
<1>4. ASSUME NEW m \in underWay, m.fresh, m.sender \in Devices PROVE OnItsWay(m)'
  <2>1. /\ m.last \in Devices /\ m.sender \in Below(m.last) /\ m.to = parent[m.last]
        /\ Noted(routes, m.sender, m.last)
    BY <1>4 DEF RoutesInv, FreshMessagesAreOnTheirWay, OnItsWay
  <2>2. ASSUME NEW x \in Devices, m.sender \in Below(x), x \in Below(m.last), x # m.last
        PROVE  routes'[parent[x]][m.sender] = x
    <3>1. parent[x] \in Devices
      BY <1>1, <2>1, <2>2, WayUp, BelowIsBelowIn
    <3>2. routes'[parent[x]] = routes[parent[x]]
      BY <1>1, <3>1, NoGateway DEF Tables
    <3>3. QED
      BY <2>1, <2>2, <3>2 DEF Noted
  <2>3. QED
    BY <1>1, <1>2, <2>1, <2>2 DEF OnItsWay, Noted
<1>5. FreshMessagesAreOnTheirWay'
  BY <1>1, <1>4 DEF FreshMessagesAreOnTheirWay, OnItsWay
<1>6. QED
  BY <1>1, <1>3, <1>5 DEF RoutesInv, RoutesTyped, HeardAreReached

-------------------------------------------------------------------------------
LEMMA RoutesInitially == RoutesInit => RoutesInv
<1> SUFFICES ASSUME RoutesInit PROVE RoutesInv
  OBVIOUS
<1>1. Tree(parent)
  BY RoutesAssumption DEF RoutesInit, Tree
<1>2. routes \in Tables
  BY DEF RoutesInit, Tables, NoRoutes
<1>3. QED
  BY <1>1, <1>2 DEF RoutesInit, RoutesInv, RoutesTyped, FreshMessagesAreOnTheirWay, HeardAreReached

LEMMA RoutesStep == RoutesInv /\ [RoutesNext]_routeVars => RoutesInv'
<1> SUFFICES ASSUME RoutesInv, [RoutesNext]_routeVars PROVE RoutesInv'
  OBVIOUS
<1>1. ASSUME NEW n \in Devices, SendMessage(n, GATEWAY_ADDRESS) PROVE RoutesInv'
  BY <1>1, SendStep, NoGateway DEF Stations
<1>2. ASSUME NEW n \in Talkers \cup {GATEWAY_ADDRESS}, NEW dest \in Devices, SendMessage(n, dest)
      PROVE  RoutesInv'
  BY <1>2, SendStep, RoutesAssumption DEF Stations
<1>3. ASSUME NEW m \in underWay, LoseRouted(m) PROVE RoutesInv'
  <2>1. underWay' \subseteq underWay /\ UNCHANGED <<parent, routes, heard>>
    BY <1>3 DEF LoseRouted
  <2>2. \A x : Below(x)' = Below(x)
    BY <2>1, BelowIsBelowIn
  <2>3. QED
    BY <2>1, <2>2 DEF RoutesInv, RoutesTyped, FreshMessagesAreOnTheirWay, OnItsWay, Noted, HeardAreReached
<1>4. CASE UNCHANGED routeVars
  <2>1. UNCHANGED <<underWay, parent, routes, heard>>
    BY <1>4 DEF routeVars
  <2>2. \A x : Below(x)' = Below(x)
    BY <2>1, BelowIsBelowIn
  <2>3. QED
    BY <2>1, <2>2 DEF RoutesInv, RoutesTyped, FreshMessagesAreOnTheirWay, OnItsWay, Noted, HeardAreReached
<1>5. ASSUME NEW m \in underWay, RelayMessage(m) \/ ReadMessage(m) PROVE RoutesInv'
  BY <1>5, RelayStep, ReadStep
<1>6. ASSUME NEW n \in Devices, NEW p \in Relays, TakesParent(n, p) PROVE RoutesInv'
  BY <1>6, MoveStep
<1>7. CASE GatewayForgets
  BY <1>7, ForgetStep
<1>8. QED
  BY <1>1, <1>2, <1>3, <1>4, <1>5, <1>6, <1>7 DEF RoutesNext

(* Once the gateway has heard of a device, its way back is the way that the  *)
(* messages of the device come up: for any number of devices and repeaters,  *)
(* messages read in any order and lost anywhere, and devices that take other *)
(* parents, until one on the way of this device does, or a station notes a   *)
(* message of the device that is older or was sent down.                     *)
THEOREM WayBackIsTheWayUp == RoutesSpec => []HeardAreReached
<1>1. RoutesInv => HeardAreReached
  BY DEF RoutesInv
<1>2. QED
  BY <1>1, RoutesInitially, RoutesStep, PTL DEF RoutesSpec

-------------------------------------------------------------------------------
(* The clock. *)
(* The months before a month have as many days as their lengths add up to.   *)
DaysBefore == <<0, 31, 59, 90, 120, 151, 181, 212, 243, 273, 304, 334>>
LEMMA UntilValues == \A m \in 1..12 : Until[m] = DaysBefore[m]
<1> DEFINE Adds(f) == f = [m \in 1..12 |-> IF m = 1 THEN 0 ELSE f[m - 1] + daysInMonth[m - 1]]
<1>1. \E f : Adds(f)
  <2> DEFINE f == [m \in 1..12 |-> DaysBefore[m]]
  <2>1. ASSUME NEW m \in 1..12
        PROVE  f[m] = IF m = 1 THEN 0 ELSE f[m - 1] + daysInMonth[m - 1]
    <3>1. m = 1 \/ m = 2 \/ m = 3 \/ m = 4 \/ m = 5 \/ m = 6 \/ m = 7 \/ m = 8 \/ m = 9
          \/ m = 10 \/ m = 11 \/ m = 12
      OBVIOUS
    <3>2. DaysBefore[m] = IF m = 1 THEN 0 ELSE DaysBefore[m - 1] + daysInMonth[m - 1]
      BY <3>1 DEF DaysBefore, daysInMonth
    <3>3. m # 1 => m - 1 \in 1..12
      OBVIOUS
    <3>4. QED
      BY <3>2, <3>3
  <2>2. f = [m \in 1..12 |-> f[m]]
    OBVIOUS
  <2> HIDE DEF f
  <2>3. Adds(f)
    BY <2>1, <2>2
  <2>4. QED
    BY <2>3
<1>2. Adds(Until)
  BY <1>1 DEF Until
<1>3. \A m \in 1..12 : Until[m] = IF m = 1 THEN 0 ELSE Until[m - 1] + daysInMonth[m - 1]
  BY <1>2
<1> HIDE DEF Adds
<1>4. Until[1] = 0 /\ Until[2] = 31 /\ Until[3] = 59
  BY <1>3 DEF daysInMonth
<1>5. Until[4] = 90 /\ Until[5] = 120 /\ Until[6] = 151
  BY <1>3, <1>4 DEF daysInMonth
<1>6. Until[7] = 181 /\ Until[8] = 212 /\ Until[9] = 243
  BY <1>3, <1>5 DEF daysInMonth
<1>7. Until[10] = 273 /\ Until[11] = 304 /\ Until[12] = 334
  BY <1>3, <1>6 DEF daysInMonth
<1>8. QED
  BY <1>4, <1>5, <1>6, <1>7 DEF DaysBefore

-------------------------------------------------------------------------------
(* The days before the first one of a year, and the year of a day.           *)
FirstDay(y) == (365 * y) + ((y + 3) \div 4)
YearOf(day) ==
  (4 * (day \div 1461)) +
     (IF day % 1461 < 366 THEN 0 ELSE IF day % 1461 < 731 THEN 1
      ELSE IF day % 1461 < 1096 THEN 2 ELSE 3)

LEMMA YearBounds ==
  ASSUME NEW day \in Nat
  PROVE  YearOf(day) \in Nat /\ FirstDay(YearOf(day)) <= day /\ day < FirstDay(YearOf(day) + 1)
BY SMT DEF FirstDay, YearOf

LEMMA OneYear ==
  ASSUME NEW day \in Nat, NEW y \in Nat, FirstDay(y) <= day, day < FirstDay(y + 1)
  PROVE  YearOf(day) = y
BY SMT DEF FirstDay, YearOf

LEMMA NextYear ==
  ASSUME NEW y \in Nat
  PROVE  FirstDay(y) \in Nat /\ FirstDay(y + 1) = FirstDay(y) + YearDays(y) /\ YearDays(y) \in {365, 366}
BY SMT DEF FirstDay, YearDays

(* How Offset unfolds: there is a function that takes off year after year. *)
YearLoop(f) ==
  f = [p \in Nat \X Nat |-> IF p[2] < YearDays(p[1]) THEN p
                            ELSE f[<<p[1] + 1, p[2] - YearDays(p[1])>>]]

LEMMA OffsetUnfolds ==
  ASSUME NEW y \in Nat, NEW days \in Nat
  PROVE  Offset[<<y, days>>] = IF days < YearDays(y) THEN <<y, days>>
                               ELSE Offset[<<y + 1, days - YearDays(y)>>]
<1> DEFINE Place(day) == <<YearOf(day), day - FirstDay(YearOf(day))>>
           f == [p \in Nat \X Nat |-> Place(FirstDay(p[1]) + p[2])]
<1>1. \E g : YearLoop(g)
  <2>0. ASSUME NEW a \in Nat, NEW b \in Nat
        PROVE  f[<<a, b>>] = Place(FirstDay(a) + b)
    OBVIOUS
  <2>3. f = [p \in Nat \X Nat |-> f[p]]
    OBVIOUS
  <2> HIDE DEF f
  <2>1. ASSUME NEW a \in Nat, NEW b \in Nat
        PROVE  f[<<a, b>>] = IF b < YearDays(a) THEN <<a, b>> ELSE f[<<a + 1, b - YearDays(a)>>]
    <3>1. /\ FirstDay(a) \in Nat /\ FirstDay(a + 1) = FirstDay(a) + YearDays(a)
          /\ YearDays(a) \in Nat
      BY NextYear
    <3>2. CASE b < YearDays(a)
      <4>1. YearOf(FirstDay(a) + b) = a
        BY <3>1, <3>2, OneYear
      <4>2. QED
        BY <2>0, <3>1, <3>2, <4>1
    <3>3. CASE ~(b < YearDays(a))
      <4>1. b - YearDays(a) \in Nat /\ a + 1 \in Nat
        BY <3>1, <3>3
      <4>2. FirstDay(a + 1) + (b - YearDays(a)) = FirstDay(a) + b
        BY <3>1
      <4>3. PICK c \in Nat, n \in Nat : c = b - YearDays(a) /\ n = a + 1
        BY <4>1
      <4>4. FirstDay(n) + c = FirstDay(a) + b
        BY <4>2, <4>3
      <4> HIDE DEF Place
      <4>5. f[<<n, c>>] = Place(FirstDay(n) + c) /\ f[<<a, b>>] = Place(FirstDay(a) + b)
        BY <2>0, Zenon
      <4>6. Place(FirstDay(n) + c) = Place(FirstDay(a) + b)
        BY <4>4, Zenon
      <4>7. f[<<n, c>>] = f[<<a, b>>]
        BY <4>5, <4>6, Zenon
      <4>8. QED
        BY <3>3, <4>3, <4>7
    <3>4. QED
      BY <3>2, <3>3
  <2>2. ASSUME NEW p \in Nat \X Nat
        PROVE  f[p] = IF p[2] < YearDays(p[1]) THEN p ELSE f[<<p[1] + 1, p[2] - YearDays(p[1])>>]
    <3>1. PICK a \in Nat, b \in Nat : p = <<a, b>>
      OBVIOUS
    <3>2. QED
      BY <2>1, <3>1
  <2>4. YearLoop(f)
    BY <2>2, <2>3 DEF YearLoop
  <2>5. QED
    BY <2>4
<1>2. YearLoop(Offset)
  BY <1>1 DEF Offset, YearLoop
<1>3. QED
  BY <1>2 DEF YearLoop

(* Whatever the day, Offset finds its year and its place in it.              *)
LEMMA OffsetIsRight ==
  ASSUME NEW day \in Nat
  PROVE  LET year == Offset[<<0, day>>] IN
         /\ year = <<year[1], year[2]>> /\ year[1] \in Nat /\ year[2] \in Nat
         /\ year[2] < YearDays(year[1]) /\ FirstDay(year[1]) + year[2] = day
<1> DEFINE Right(y, days) ==
      \E z \in Nat, rest \in Nat : /\ Offset[<<y, days>>] = <<z, rest>> /\ rest < YearDays(z)
                                   /\ FirstDay(z) + rest = FirstDay(y) + days
           Wrong == {days \in Nat : \E y \in Nat : ~Right(y, days)}
           Less == {p \in Nat \X Nat : p[1] < p[2]}
<1>1. IsWellFoundedOn(Less, Nat)
  <2>1. OpToRel(<, Nat) = Less
    BY Zenon DEF OpToRel
  <2>2. QED
    BY <2>1, NatLessThanWellFounded, Zenon
<1>2. Wrong = {}
  <2> SUFFICES ASSUME Wrong # {} PROVE FALSE
    OBVIOUS
  <2>1. Wrong \subseteq Nat
    OBVIOUS
  <2>2. PICK days \in Wrong : \A other \in Wrong : ~(<<other, days>> \in Less)
    <3> HIDE DEF Wrong, Less
    <3>1. QED
      BY <1>1, <2>1, WFMin, Zenon
  <2>3. days \in Nat
    BY <2>1, <2>2
  <2>4. PICK y \in Nat : ~Right(y, days)
    BY <2>2
  <2>5. /\ YearDays(y) \in {365, 366} /\ FirstDay(y) \in Nat
        /\ FirstDay(y + 1) = FirstDay(y) + YearDays(y)
    BY NextYear
  <2>6. CASE days < YearDays(y)
    <3>1. Offset[<<y, days>>] = <<y, days>>
      BY <2>3, <2>6, OffsetUnfolds
    <3>2. QED
      BY <2>3, <2>4, <2>6, <3>1
  <2>7. CASE ~(days < YearDays(y))
    <3> DEFINE rest == days - YearDays(y)
    <3>1. rest \in Nat /\ rest < days /\ y + 1 \in Nat
      BY <2>3, <2>5, <2>7
    <3>2. Offset[<<y, days>>] = Offset[<<y + 1, rest>>]
      BY <2>3, <2>7, OffsetUnfolds
    <3>3. FirstDay(y + 1) + rest = FirstDay(y) + days
      BY <2>3, <2>5
    <3>4. <<rest, days>> \in Less
      BY <2>3, <3>1
    <3> HIDE DEF rest
    <3>5. Right(y + 1, rest)
      BY <2>2, <3>1, <3>4
    <3>6. Right(y, days)
      BY <3>2, <3>3, <3>5
    <3>7. QED
      BY <2>4, <3>6
  <2>8. QED
    BY <2>6, <2>7
<1>3. Right(0, day)
  BY <1>2
<1>4. FirstDay(0) = 0
  BY SMT DEF FirstDay
<1> HIDE DEF Right
<1>5. PICK z \in Nat, rest \in Nat : /\ Offset[<<0, day>>] = <<z, rest>> /\ rest < YearDays(z)
                                    /\ FirstDay(z) + rest = FirstDay(0) + day
  BY <1>3 DEF Right
<1>6. QED
  BY <1>4, <1>5

-------------------------------------------------------------------------------
(* The days of a year before its month m, and the month of such a day.       *)
Before(y, m) == Until[m] + (IF m > 2 /\ y % 4 = 0 THEN 1 ELSE 0)
MonthOf(y, day) ==
  IF day < Before(y, 2) THEN 1 ELSE IF day < Before(y, 3) THEN 2
  ELSE IF day < Before(y, 4) THEN 3 ELSE IF day < Before(y, 5) THEN 4
  ELSE IF day < Before(y, 6) THEN 5 ELSE IF day < Before(y, 7) THEN 6
  ELSE IF day < Before(y, 8) THEN 7 ELSE IF day < Before(y, 9) THEN 8
  ELSE IF day < Before(y, 10) THEN 9 ELSE IF day < Before(y, 11) THEN 10
  ELSE IF day < Before(y, 12) THEN 11 ELSE 12

LEMMA BeforeValues ==
  ASSUME NEW y \in Nat
  PROVE  \E leap \in {0, 1} :
           /\ YearDays(y) = 365 + leap
           /\ Before(y, 1) = 0 /\ Before(y, 2) = 31 /\ Before(y, 3) = 59 + leap
           /\ Before(y, 4) = 90 + leap /\ Before(y, 5) = 120 + leap
           /\ Before(y, 6) = 151 + leap /\ Before(y, 7) = 181 + leap
           /\ Before(y, 8) = 212 + leap /\ Before(y, 9) = 243 + leap
           /\ Before(y, 10) = 273 + leap /\ Before(y, 11) = 304 + leap
           /\ Before(y, 12) = 334 + leap
           /\ MonthDays(y, 1) = 31 /\ MonthDays(y, 2) = 28 + leap /\ MonthDays(y, 3) = 31
           /\ MonthDays(y, 4) = 30 /\ MonthDays(y, 5) = 31 /\ MonthDays(y, 6) = 30
           /\ MonthDays(y, 7) = 31 /\ MonthDays(y, 8) = 31 /\ MonthDays(y, 9) = 30
           /\ MonthDays(y, 10) = 31 /\ MonthDays(y, 11) = 30 /\ MonthDays(y, 12) = 31
<1> DEFINE leap == IF y % 4 = 0 THEN 1 ELSE 0
<1>1. leap \in {0, 1} /\ YearDays(y) = 365 + leap
  BY DEF YearDays
<1>2. /\ Until[1] = 0 /\ Until[2] = 31 /\ Until[3] = 59 /\ Until[4] = 90 /\ Until[5] = 120
      /\ Until[6] = 151 /\ Until[7] = 181 /\ Until[8] = 212 /\ Until[9] = 243 /\ Until[10] = 273
      /\ Until[11] = 304 /\ Until[12] = 334
  BY UntilValues DEF DaysBefore
<1>3. /\ Before(y, 1) = 0 /\ Before(y, 2) = 31 /\ Before(y, 3) = 59 + leap
      /\ Before(y, 4) = 90 + leap /\ Before(y, 5) = 120 + leap
      /\ Before(y, 6) = 151 + leap /\ Before(y, 7) = 181 + leap
      /\ Before(y, 8) = 212 + leap /\ Before(y, 9) = 243 + leap
      /\ Before(y, 10) = 273 + leap /\ Before(y, 11) = 304 + leap
      /\ Before(y, 12) = 334 + leap
  BY <1>2 DEF Before
<1>4. /\ MonthDays(y, 1) = 31 /\ MonthDays(y, 2) = 28 + leap /\ MonthDays(y, 3) = 31
      /\ MonthDays(y, 4) = 30 /\ MonthDays(y, 5) = 31 /\ MonthDays(y, 6) = 30
      /\ MonthDays(y, 7) = 31 /\ MonthDays(y, 8) = 31 /\ MonthDays(y, 9) = 30
      /\ MonthDays(y, 10) = 31 /\ MonthDays(y, 11) = 30 /\ MonthDays(y, 12) = 31
  BY DEF MonthDays, daysInMonth
<1> HIDE DEF leap
<1>5. QED
  BY <1>1, <1>3, <1>4

(* The twelve of them. *)
LEMMA Months ==
  ASSUME NEW m \in 1..12
  PROVE  m = 1 \/ m = 2 \/ m = 3 \/ m = 4 \/ m = 5 \/ m = 6 \/ m = 7 \/ m = 8 \/ m = 9
         \/ m = 10 \/ m = 11 \/ m = 12
OBVIOUS

LEMMA MonthBounds ==
  ASSUME NEW y \in Nat, NEW m \in 1..12
  PROVE  /\ Before(y, m) \in Nat /\ MonthDays(y, m) \in Nat \ {0}
         /\ m # 12 => Before(y, m + 1) = Before(y, m) + MonthDays(y, m)
         /\ m = 12 => YearDays(y) = Before(y, m) + MonthDays(y, m)
<1>1. PICK leap \in {0, 1} :
           /\ YearDays(y) = 365 + leap
           /\ Before(y, 1) = 0 /\ Before(y, 2) = 31 /\ Before(y, 3) = 59 + leap
           /\ Before(y, 4) = 90 + leap /\ Before(y, 5) = 120 + leap
           /\ Before(y, 6) = 151 + leap /\ Before(y, 7) = 181 + leap
           /\ Before(y, 8) = 212 + leap /\ Before(y, 9) = 243 + leap
           /\ Before(y, 10) = 273 + leap /\ Before(y, 11) = 304 + leap
           /\ Before(y, 12) = 334 + leap
           /\ MonthDays(y, 1) = 31 /\ MonthDays(y, 2) = 28 + leap /\ MonthDays(y, 3) = 31
           /\ MonthDays(y, 4) = 30 /\ MonthDays(y, 5) = 31 /\ MonthDays(y, 6) = 30
           /\ MonthDays(y, 7) = 31 /\ MonthDays(y, 8) = 31 /\ MonthDays(y, 9) = 30
           /\ MonthDays(y, 10) = 31 /\ MonthDays(y, 11) = 30 /\ MonthDays(y, 12) = 31
  BY BeforeValues
<1>2. QED
  BY <1>1, Months

LEMMA OneMonth ==
  ASSUME NEW y \in Nat, NEW m \in 1..12, NEW day \in Nat, Before(y, m) <= day,
         m # 12 => day < Before(y, m + 1)
  PROVE  MonthOf(y, day) = m
<1>1. PICK leap \in {0, 1} :
           /\ Before(y, 1) = 0 /\ Before(y, 2) = 31 /\ Before(y, 3) = 59 + leap
           /\ Before(y, 4) = 90 + leap /\ Before(y, 5) = 120 + leap
           /\ Before(y, 6) = 151 + leap /\ Before(y, 7) = 181 + leap
           /\ Before(y, 8) = 212 + leap /\ Before(y, 9) = 243 + leap
           /\ Before(y, 10) = 273 + leap /\ Before(y, 11) = 304 + leap
           /\ Before(y, 12) = 334 + leap
  BY BeforeValues
<1>2. QED
  BY <1>1, Months DEF MonthOf

(* How Month unfolds, as Offset does. *)
Triples == Nat \X (1..12) \X Nat
MonthLoop(f) ==
  f = [p \in Triples |-> IF p[2] = 12 \/ p[3] < MonthDays(p[1], p[2]) THEN <<p[2], p[3] + 1>>
                         ELSE f[<<p[1], p[2] + 1, p[3] - MonthDays(p[1], p[2])>>]]

LEMMA MonthUnfolds ==
  ASSUME NEW y \in Nat, NEW m \in 1..12, NEW days \in Nat
  PROVE  Month[<<y, m, days>>] = IF m = 12 \/ days < MonthDays(y, m) THEN <<m, days + 1>>
                                 ELSE Month[<<y, m + 1, days - MonthDays(y, m)>>]
<1> DEFINE Place(a, day) == <<MonthOf(a, day), day - Before(a, MonthOf(a, day)) + 1>>
           f == [p \in Triples |-> Place(p[1], Before(p[1], p[2]) + p[3])]
<1>1. \E g : MonthLoop(g)
  <2>0. ASSUME NEW a \in Nat, NEW b \in 1..12, NEW c \in Nat
        PROVE  f[<<a, b, c>>] = Place(a, Before(a, b) + c)
    <3> HIDE DEF Place
    <3>1. QED
      BY DEF Triples
  <2>3. f = [p \in Triples |-> f[p]]
    OBVIOUS
  <2> HIDE DEF f
  <2>1. ASSUME NEW a \in Nat, NEW b \in 1..12, NEW c \in Nat
        PROVE  f[<<a, b, c>>] = IF b = 12 \/ c < MonthDays(a, b) THEN <<b, c + 1>>
                                ELSE f[<<a, b + 1, c - MonthDays(a, b)>>]
    <3>1. /\ Before(a, b) \in Nat /\ MonthDays(a, b) \in Nat
          /\ b # 12 => Before(a, b + 1) = Before(a, b) + MonthDays(a, b)
      BY MonthBounds
    <3>2. CASE b = 12 \/ c < MonthDays(a, b)
      <4>1. MonthOf(a, Before(a, b) + c) = b
        BY <3>1, <3>2, OneMonth
      <4>2. Before(a, b) + c - Before(a, b) + 1 = c + 1
        BY <3>1
      <4>3. Place(a, Before(a, b) + c) = <<b, Before(a, b) + c - Before(a, b) + 1>>
        BY <3>1, <4>1
      <4>4. f[<<a, b, c>>] = Place(a, Before(a, b) + c)
        BY <2>0
      <4>5. QED
        BY <3>2, <4>2, <4>3, <4>4
    <3>3. CASE ~(b = 12 \/ c < MonthDays(a, b))
      <4>1. PICK d \in Nat, n \in 1..12 : d = c - MonthDays(a, b) /\ n = b + 1
        BY <3>1, <3>3
      <4>2. Before(a, n) + d = Before(a, b) + c
        BY <3>1, <3>3, <4>1
      <4> HIDE DEF Place
      <4>3. f[<<a, n, d>>] = Place(a, Before(a, n) + d) /\ f[<<a, b, c>>] = Place(a, Before(a, b) + c)
        BY <2>0, Zenon
      <4>4. Place(a, Before(a, n) + d) = Place(a, Before(a, b) + c)
        BY <4>2, Zenon
      <4>5. f[<<a, n, d>>] = f[<<a, b, c>>]
        BY <4>3, <4>4, Zenon
      <4>6. QED
        BY <3>3, <4>1, <4>5
    <3>4. QED
      BY <3>2, <3>3
  <2>2. ASSUME NEW p \in Triples
        PROVE  f[p] = IF p[2] = 12 \/ p[3] < MonthDays(p[1], p[2]) THEN <<p[2], p[3] + 1>>
                      ELSE f[<<p[1], p[2] + 1, p[3] - MonthDays(p[1], p[2])>>]
    <3>1. PICK a \in Nat, b \in 1..12, c \in Nat : p = <<a, b, c>>
      BY DEF Triples
    <3>2. QED
      BY <2>1, <3>1
  <2>4. MonthLoop(f)
    BY <2>2, <2>3 DEF MonthLoop
  <2>5. QED
    BY <2>4
<1>2. MonthLoop(Month)
  BY <1>1 DEF Month, MonthLoop, Triples
<1>3. <<y, m, days>> \in Triples
  BY DEF Triples
<1>4. QED
  BY <1>2, <1>3 DEF MonthLoop

(* Whatever the day of a year, Month finds its month and its place in it.    *)
LEMMA MonthIsRight ==
  ASSUME NEW y \in Nat, NEW day \in Nat, day < YearDays(y)
  PROVE  \E m \in 1..12, d \in Nat \ {0} :
           Month[<<y, 1, day>>] = <<m, d>> /\ d <= MonthDays(y, m) /\ Before(y, m) + d = day + 1
<1> DEFINE Right(m, days) ==
      \E n \in 1..12, d \in Nat \ {0} :
        /\ Month[<<y, m, days>>] = <<n, d>> /\ d <= MonthDays(y, n)
        /\ Before(y, n) + d = Before(y, m) + days + 1
<1>1. ASSUME NEW m \in 1..12, NEW days \in Nat, Before(y, m) + days < YearDays(y),
             m # 12 => \A rest \in Nat : Before(y, m + 1) + rest < YearDays(y) => Right(m + 1, rest)
      PROVE  Right(m, days)
  <2>1. /\ Before(y, m) \in Nat /\ MonthDays(y, m) \in Nat
        /\ m # 12 => Before(y, m + 1) = Before(y, m) + MonthDays(y, m)
        /\ m = 12 => YearDays(y) = Before(y, m) + MonthDays(y, m)
    BY MonthBounds
  <2>2. CASE m = 12 \/ days < MonthDays(y, m)
    <3>1. Month[<<y, m, days>>] = <<m, days + 1>>
      BY <2>2, MonthUnfolds
    <3>2. days + 1 \in Nat \ {0} /\ days + 1 <= MonthDays(y, m)
          /\ Before(y, m) + (days + 1) = Before(y, m) + days + 1
      BY <1>1, <2>1, <2>2
    <3>3. QED
      BY <3>1, <3>2
  <2>3. CASE ~(m = 12 \/ days < MonthDays(y, m))
    <3>1. PICK rest \in Nat : rest = days - MonthDays(y, m)
      BY <2>1, <2>3
    <3>2. Before(y, m + 1) + rest = Before(y, m) + days
      BY <2>1, <2>3, <3>1
    <3>3. Month[<<y, m, days>>] = Month[<<y, m + 1, rest>>]
      BY <2>3, <3>1, MonthUnfolds
    <3>4. Right(m + 1, rest)
      BY <1>1, <2>3, <3>2
    <3>5. PICK n \in 1..12, d \in Nat \ {0} :
            /\ Month[<<y, m + 1, rest>>] = <<n, d>> /\ d <= MonthDays(y, n)
            /\ Before(y, n) + d = Before(y, m + 1) + rest + 1
      BY <3>4
    <3>6. Before(y, n) + d = Before(y, m) + days + 1
      BY <3>2, <3>5
    <3>7. QED
      BY <3>3, <3>5, <3>6
  <2>4. QED
    BY <2>2, <2>3
<1> DEFINE RightFrom(m) == \A days \in Nat : Before(y, m) + days < YearDays(y) => Right(m, days)
<1> HIDE DEF Right
<1> DEFINE Months12 == {m \in 1..12 : RightFrom(m)}
<1>2. /\ Months12 \subseteq 1..12
      /\ \A m, n \in 1..12 : n = m + 1 /\ n \in Months12 => m \in Months12
  BY <1>1
<1>3. 12 \in Months12
  BY <1>1
<1> HIDE DEF Months12
<1>4. 11 \in Months12 /\ 10 \in Months12 /\ 9 \in Months12 /\ 8 \in Months12
  <2>1. 11 \in 1..12 /\ 12 \in 1..12 /\ 12 = 11 + 1 /\ 10 \in 1..12 /\ 11 = 10 + 1
        /\ 9 \in 1..12 /\ 10 = 9 + 1 /\ 8 \in 1..12 /\ 9 = 8 + 1
    OBVIOUS
  <2>2. 11 \in Months12
    BY <1>2, <1>3, <2>1, Zenon
  <2>3. 10 \in Months12
    BY <1>2, <2>1, <2>2, Zenon
  <2>4. 9 \in Months12
    BY <1>2, <2>1, <2>3, Zenon
  <2>5. QED
    BY <1>2, <2>1, <2>2, <2>3, <2>4, Zenon
<1>5. 7 \in Months12 /\ 6 \in Months12 /\ 5 \in Months12 /\ 4 \in Months12
  BY <1>2, <1>4
<1>6. 3 \in Months12 /\ 2 \in Months12 /\ 1 \in Months12
  BY <1>2, <1>5
<1>7. Before(y, 1) = 0
  BY BeforeValues
<1>8. Right(1, day)
  BY <1>6, <1>7 DEF Months12
<1>9. QED
  BY <1>7, <1>8 DEF Right

-------------------------------------------------------------------------------
(* The dates that there are, and the days up to one.                         *)
Dates == [ss: 0..59, mm: 0..59, hh: 0..23, d: Nat \ {0}, m: 1..12, y: Nat]
IsDate(dt) == dt \in Dates /\ dt.d <= MonthDays(dt.y, dt.m)

LEMMA DaysOf ==
  ASSUME NEW y \in Nat, NEW m \in 1..12, NEW d \in Nat \ {0}
  PROVE  date2days(y, m, d) = FirstDay(y) + Before(y, m) + d - 1 /\ date2days(y, m, d) \in Nat
<1>1. Until[m] \in Nat
  BY UntilValues, Months DEF DaysBefore
<1>2. FirstDay(y) \in Nat /\ Before(y, m) \in Nat
  BY NextYear, MonthBounds
<1>3. date2days(y, m, d) = FirstDay(y) + Before(y, m) + d - 1
  BY <1>1 DEF date2days, FirstDay, Before
<1>4. QED
  BY <1>2, <1>3

(* Every time has a date, and the date has that time.                        *)
LEMMA ThereAndBack ==
  ASSUME NEW t \in Nat
  PROVE  IsDate(MyDateTime(t)) /\ get(MyDateTime(t)) = t
<1> DEFINE day == t \div 86400
<1>1. day \in Nat /\ t % 60 \in 0..59 /\ (t \div 60) % 60 \in 0..59 /\ (t \div 3600) % 24 \in 0..23
  OBVIOUS
<1>2. t = ((((day * 24) + ((t \div 3600) % 24)) * 60 + ((t \div 60) % 60)) * 60) + (t % 60)
  <2>1. t = (60 * (t \div 60)) + (t % 60)
    OBVIOUS
  <2>2. t \div 60 = (60 * (t \div 3600)) + ((t \div 60) % 60)
    OBVIOUS
  <2>3. t \div 3600 = (24 * day) + ((t \div 3600) % 24)
    OBVIOUS
  <2>4. QED
    BY <2>1, <2>2, <2>3
<1> HIDE DEF day
<1>3. PICK y \in Nat, rest \in Nat :
        Offset[<<0, day>>] = <<y, rest>> /\ rest < YearDays(y) /\ FirstDay(y) + rest = day
  BY <1>1, OffsetIsRight
<1>4. PICK m \in 1..12, d \in Nat \ {0} :
        Month[<<y, 1, rest>>] = <<m, d>> /\ d <= MonthDays(y, m) /\ Before(y, m) + d = rest + 1
  BY <1>3, MonthIsRight
<1>5. MyDateTime(t) = [ss |-> t % 60, mm |-> (t \div 60) % 60, hh |-> (t \div 3600) % 24,
                       d |-> d, m |-> m, y |-> y]
  BY <1>3, <1>4 DEF MyDateTime, day
<1>6. IsDate(MyDateTime(t))
  BY <1>1, <1>4, <1>5 DEF IsDate, Dates
<1>7. date2days(y, m, d) = day
  <2>1. date2days(y, m, d) = FirstDay(y) + Before(y, m) + d - 1
    BY DaysOf
  <2>2. FirstDay(y) \in Nat /\ Before(y, m) \in Nat
    BY NextYear, MonthBounds
  <2>3. QED
    BY <1>3, <1>4, <2>1, <2>2
<1>8. get(MyDateTime(t)) = t
  <2>1. PICK hh \in 0..23 : hh = (t \div 3600) % 24
    BY SMT
  <2>2. PICK mm \in 0..59 : mm = (t \div 60) % 60
    BY SMT
  <2>3. PICK ss \in 0..59 : ss = t % 60
    BY SMT
  <2>4. get(MyDateTime(t)) = time2long(day, hh, mm, ss)
    BY <1>5, <1>7, <2>1, <2>2, <2>3 DEF get
  <2>5. t = time2long(day, hh, mm, ss)
    BY <1>1, <1>2, <2>1, <2>2, <2>3 DEF time2long
  <2>6. QED
    BY <2>4, <2>5
<1>9. QED
  BY <1>6, <1>8

(* A chip's registers hold a date's fields in BCD, and reading undoes it.    *)
LEMMA BcdAndBack ==
  ASSUME NEW v \in Nat
  PROVE  bin2bcd(v) \in Nat /\ bcd2bin(bin2bcd(v)) = v
         /\ (v < 60 => bin2bcd(v) % 128 = bin2bcd(v))
         /\ (v < 24 => bin2bcd(v) % 64 = bin2bcd(v) /\ bin2bcd(v) \div 64 = 0)
         /\ (v < 24 => v \div 64 = 0)
BY SMT DEF bin2bcd, bcd2bin

LEMMA EncodedFields ==
  ASSUME NEW dt \in Dates
  PROVE  Encoded(dt) = [ss |-> bin2bcd(dt.ss), mm |-> bin2bcd(dt.mm), hh |-> bin2bcd(dt.hh),
                        d |-> bin2bcd(dt.d), m |-> bin2bcd(dt.m), y |-> bin2bcd(dt.y)]
BY DEF Encoded, Dates

LEMMA EncodedAndBack ==
  ASSUME NEW dt \in Dates
  PROVE  Decoded(Encoded(dt)) = dt
<1>1. /\ bcd2bin(bin2bcd(dt.ss)) = dt.ss /\ bcd2bin(bin2bcd(dt.mm)) = dt.mm
      /\ bcd2bin(bin2bcd(dt.hh)) = dt.hh /\ bcd2bin(bin2bcd(dt.d)) = dt.d
      /\ bcd2bin(bin2bcd(dt.m)) = dt.m /\ bcd2bin(bin2bcd(dt.y)) = dt.y
  <2>1. /\ dt.ss \in Nat /\ dt.mm \in Nat /\ dt.hh \in Nat /\ dt.d \in Nat
        /\ dt.m \in Nat /\ dt.y \in Nat
    BY DEF Dates
  <2>2. \A v \in Nat : bcd2bin(bin2bcd(v)) = v
    BY BcdAndBack
  <2>3. QED
    BY <2>1, <2>2, Zenon
<1>2. Decoded(Encoded(dt)) =
        [ss |-> bcd2bin(bin2bcd(dt.ss)), mm |-> bcd2bin(bin2bcd(dt.mm)),
         hh |-> bcd2bin(bin2bcd(dt.hh)), d |-> bcd2bin(bin2bcd(dt.d)),
         m |-> bcd2bin(bin2bcd(dt.m)), y |-> bcd2bin(bin2bcd(dt.y))]
  BY EncodedFields DEF Decoded
<1>3. dt = [ss |-> dt.ss, mm |-> dt.mm, hh |-> dt.hh, d |-> dt.d, m |-> dt.m, y |-> dt.y]
  BY DEF Dates
<1>4. QED
  BY <1>1, <1>2, <1>3

(* The bits that the two drivers mask are clear in a date.                   *)
LEMMA MasksAreHarmless ==
  ASSUME NEW dt \in Dates
  PROVE  /\ NowDS3231(Encoded(dt)) = dt /\ NowDS1307(Encoded(dt)) = dt
         /\ setMyDateTime(dt) = Encoded(dt)
         /\ [Encoded(dt) EXCEPT !.hh = Bit6Cleared(@)] = Encoded(dt)
<1>1. /\ Encoded(dt).hh % 64 = Encoded(dt).hh /\ Encoded(dt).ss % 128 = Encoded(dt).ss
      /\ Bit6Cleared(Encoded(dt).hh) = Encoded(dt).hh /\ Bit6Cleared(dt.hh) = dt.hh
  <2>1. dt.hh \in Nat /\ dt.hh < 24 /\ dt.ss \in Nat /\ dt.ss < 60
    BY DEF Dates
  <2>2. /\ Encoded(dt).hh = bin2bcd(dt.hh) /\ Encoded(dt).ss = bin2bcd(dt.ss)
    BY EncodedFields
  <2>3. QED
    BY <2>1, <2>2, BcdAndBack DEF Bit6Cleared
<1>2. PICK regs : regs = Encoded(dt)
  OBVIOUS
<1>3. PICK a, b, c, d, e, f : regs = [ss |-> a, mm |-> b, hh |-> c, d |-> d, m |-> e, y |-> f]
  BY <1>2, EncodedFields
<1>4. /\ regs.hh % 64 = regs.hh /\ regs.ss % 128 = regs.ss /\ Bit6Cleared(regs.hh) = regs.hh
  BY <1>1, <1>2
<1>5. /\ [regs EXCEPT !.hh = @ % 64] = regs /\ [regs EXCEPT !.ss = @ % 128] = regs
      /\ [regs EXCEPT !.hh = Bit6Cleared(@)] = regs
  BY <1>3, <1>4
<1>6. [dt EXCEPT !.hh = Bit6Cleared(@)] = dt
  BY <1>1 DEF Dates
<1>7. QED
  BY <1>2, <1>5, <1>6, EncodedAndBack, Zenon DEF NowDS3231, NowDS1307, setMyDateTime

(* A second later the chip shows the date of the next second, whatever ends  *)
(* with this one: a minute, an hour, a day, a month or a year.               *)
LEMMA OneSecondLater ==
  ASSUME NEW dt, IsDate(dt)
  PROVE  IsDate(NextSecond(dt)) /\ get(NextSecond(dt)) = get(dt) + 1
<1>1. PICK ss \in 0..59, mm \in 0..59, hh \in 0..23, d \in Nat \ {0}, m \in 1..12, y \in Nat :
        dt = [ss |-> ss, mm |-> mm, hh |-> hh, d |-> d, m |-> m, y |-> y]
  BY DEF IsDate, Dates
<1>2. d <= MonthDays(y, m)
  BY <1>1 DEF IsDate
<1>3. PICK after : after = NextSecond(dt)
  OBVIOUS
<1> DEFINE At(days, h, i, s) == ((((days * 24) + h) * 60) + i) * 60 + s
           today == date2days(y, m, d)
<1>4. today \in Nat
  BY DaysOf
<1>5. get(dt) = At(today, hh, mm, ss)
  BY <1>1 DEF get, time2long
<1>6. /\ Before(y, m) \in Nat /\ MonthDays(y, m) \in Nat \ {0}
      /\ m # 12 => Before(y, m + 1) = Before(y, m) + MonthDays(y, m)
      /\ m = 12 => YearDays(y) = Before(y, m) + MonthDays(y, m)
  BY MonthBounds
<1> HIDE DEF today
<1>7. CASE ss # 59
  <2>1. after = [ss |-> ss + 1, mm |-> mm, hh |-> hh, d |-> d, m |-> m, y |-> y]
    BY <1>1, <1>3, <1>7 DEF NextSecond
  <2>2. IsDate(after)
    BY <1>2, <1>7, <2>1 DEF IsDate, Dates
  <2>3. get(after) = At(today, hh, mm, ss + 1)
    BY <2>1 DEF get, time2long, today
  <2>4. QED
    BY <1>3, <1>4, <1>5, <2>2, <2>3
<1>8. CASE ss = 59 /\ mm # 59
  <2>1. after = [ss |-> 0, mm |-> mm + 1, hh |-> hh, d |-> d, m |-> m, y |-> y]
    BY <1>1, <1>3, <1>8 DEF NextSecond
  <2>2. IsDate(after)
    BY <1>2, <1>8, <2>1 DEF IsDate, Dates
  <2>3. get(after) = At(today, hh, mm + 1, 0)
    BY <2>1 DEF get, time2long, today
  <2>4. QED
    BY <1>3, <1>4, <1>5, <1>8, <2>2, <2>3
<1>9. CASE ss = 59 /\ mm = 59 /\ hh # 23
  <2>1. after = [ss |-> 0, mm |-> 0, hh |-> hh + 1, d |-> d, m |-> m, y |-> y]
    BY <1>1, <1>3, <1>9 DEF NextSecond
  <2>2. IsDate(after)
    BY <1>2, <1>9, <2>1 DEF IsDate, Dates
  <2>3. get(after) = At(today, hh + 1, 0, 0)
    BY <2>1 DEF get, time2long, today
  <2>4. QED
    BY <1>3, <1>4, <1>5, <1>9, <2>2, <2>3
<1>10. CASE ss = 59 /\ mm = 59 /\ hh = 23
  <2>1. ASSUME NEW e \in Nat \ {0}, NEW n \in 1..12, NEW z \in Nat, e <= MonthDays(z, n),
               after = [ss |-> 0, mm |-> 0, hh |-> 0, d |-> e, m |-> n, y |-> z],
               FirstDay(z) + Before(z, n) + e = FirstDay(y) + Before(y, m) + d + 1
        PROVE  IsDate(NextSecond(dt)) /\ get(NextSecond(dt)) = get(dt) + 1
    <3>1. IsDate(after)
      BY <2>1 DEF IsDate, Dates
    <3>2. get(after) = At(date2days(z, n, e), 0, 0, 0)
      BY <2>1 DEF get, time2long
    <3>3. FirstDay(y) \in Nat /\ FirstDay(z) \in Nat /\ Before(z, n) \in Nat
      BY NextYear, MonthBounds
    <3>4. date2days(z, n, e) = FirstDay(z) + Before(z, n) + e - 1
      BY DaysOf
    <3>5. today = FirstDay(y) + Before(y, m) + d - 1
      BY DaysOf DEF today
    <3>6. date2days(z, n, e) = today + 1
      BY <1>6, <2>1, <3>3, <3>4, <3>5
    <3>7. QED
      BY <1>3, <1>4, <1>5, <1>10, <3>1, <3>2, <3>6
  <2>2. CASE d # MonthDays(y, m)
    <3>1. after = [ss |-> 0, mm |-> 0, hh |-> 0, d |-> d + 1, m |-> m, y |-> y]
      BY <1>1, <1>3, <1>10, <2>2 DEF NextSecond
    <3>2. d + 1 \in Nat \ {0} /\ d + 1 <= MonthDays(y, m)
      BY <1>2, <1>6, <2>2
    <3>3. FirstDay(y) + Before(y, m) + (d + 1) = FirstDay(y) + Before(y, m) + d + 1
      BY <1>6, NextYear
    <3>4. QED
      BY <2>1, <3>1, <3>2, <3>3
  <2>3. CASE d = MonthDays(y, m) /\ m # 12
    <3>1. (m % 12) + 1 = m + 1 /\ m + 1 \in 1..12
      BY <2>3
    <3>2. after = [ss |-> 0, mm |-> 0, hh |-> 0, d |-> 1, m |-> m + 1, y |-> y]
      BY <1>1, <1>3, <1>10, <2>3, <3>1 DEF NextSecond
    <3>3. 1 <= MonthDays(y, m + 1)
      <4>1. MonthDays(y, m + 1) \in Nat \ {0}
        BY <3>1, MonthBounds
      <4>2. QED
        BY <4>1
    <3>4. FirstDay(y) + Before(y, m + 1) + 1 = FirstDay(y) + Before(y, m) + d + 1
      BY <1>6, <2>3, NextYear
    <3>5. QED
      BY <2>1, <3>1, <3>2, <3>3, <3>4
  <2>4. CASE d = MonthDays(y, m) /\ m = 12
    <3>1. after = [ss |-> 0, mm |-> 0, hh |-> 0, d |-> 1, m |-> 1, y |-> y + 1]
      BY <1>1, <1>3, <1>10, <2>4 DEF NextSecond
    <3>2. 1 <= MonthDays(y + 1, 1) /\ Before(y + 1, 1) = 0
      BY BeforeValues
    <3>3. FirstDay(y) \in Nat /\ FirstDay(y + 1) = FirstDay(y) + YearDays(y)
      BY NextYear
    <3>4. FirstDay(y + 1) + Before(y + 1, 1) + 1 = FirstDay(y) + Before(y, m) + d + 1
      BY <1>6, <2>4, <3>2, <3>3
    <3>5. QED
      BY <2>1, <3>1, <3>2, <3>4
  <2>5. QED
    BY <2>2, <2>3, <2>4
<1>11. QED
  BY <1>7, <1>8, <1>9, <1>10

-------------------------------------------------------------------------------
(* The registers hold a date: once NTP has told the time to a chip that       *)
(* answers, that of the time, put on by what starts have written back.  The   *)
(* system clock has it but for its slips, and a start that has read an hour   *)
(* holds that of the time it then was.                                       *)
RegistersHold(dt) == IsDate(dt) /\ registers = Encoded(dt)
ClockInv ==
  /\ rtcType \in {"DS3231", "DS1307", "none"} /\ RTCFound = (rtcType # "none")
  /\ starting \in {"nothing", "hour", "time"} /\ (starting # "nothing" => RTCFound)
  /\ starting = "hour" => \E hh \in 0..23 : /\ hrReg = bin2bcd(hh)
                                            /\ trueTime # -1 => hh = HourOf(readAt + putOn)
  /\ trueTime \in Nat \cup {-1} /\ slips \in Nat /\ readAt \in Int /\ putOn \in Int
  /\ RTCFound /\ starting = "nothing" => systemTime \in Nat
  /\ \E dt : RegistersHold(dt) /\ (trueTime # -1 /\ RTCFound => get(dt) = trueTime + putOn)
  /\ trueTime # -1 /\ RTCFound /\ starting = "nothing" => systemTime + slips = trueTime + putOn

(* A date that the registers hold is what either driver reads.               *)
LEMMA ReadsTheDate ==
  ASSUME NEW dt, IsDate(dt)
  PROVE  getTime(Encoded(dt)) = get(dt) /\ get(dt) \in Nat
<1>1. dt \in Dates
  BY DEF IsDate
<1>2. getTime(Encoded(dt)) = get(dt)
  BY <1>1, MasksAreHarmless, Zenon DEF getTime, unixtime
<1>3. /\ dt.y \in Nat /\ dt.m \in 1..12 /\ dt.d \in Nat \ {0}
      /\ dt.hh \in Nat /\ dt.mm \in Nat /\ dt.ss \in Nat
  BY <1>1 DEF Dates
<1>4. date2days(dt.y, dt.m, dt.d) \in Nat
  BY <1>3, DaysOf
<1>5. QED
  BY <1>2, <1>3, <1>4 DEF get, time2long

(* The hour of a date is that of its time.                                   *)
LEMMA HourOfTime ==
  ASSUME NEW dt, IsDate(dt)
  PROVE  HourOf(get(dt)) = dt.hh /\ dt.hh \in 0..23 /\ Encoded(dt).hh = bin2bcd(dt.hh)
<1>1. PICK s \in 0..59, i \in 0..59, h \in 0..23, d \in Nat \ {0}, m \in 1..12, y \in Nat :
        dt = [ss |-> s, mm |-> i, hh |-> h, d |-> d, m |-> m, y |-> y]
  BY DEF IsDate, Dates
<1>2. PICK days \in Nat : days = date2days(y, m, d)
  BY DaysOf
<1>3. get(dt) = (3600 * ((24 * days) + h)) + (60 * i) + s
  BY <1>1, <1>2 DEF get, time2long
<1>4. get(dt) \div 3600 = (24 * days) + h
  BY <1>3
<1>5. ((24 * days) + h) % 24 = h
  OBVIOUS
<1>6. Encoded(dt).hh = bin2bcd(dt.hh)
  BY EncodedFields DEF IsDate
<1>7. QED
  BY <1>1, <1>4, <1>5, <1>6 DEF HourOf

(* An hour written over that of a date leaves a date, put on by the          *)
(* difference.                                                               *)
WithHour(regs, v) == [regs EXCEPT !.hh = v]

OtherHour(dt, hh, other) ==
  /\ IsDate(other)
  /\ WithHour(Encoded(dt), bin2bcd(hh)) = Encoded(other)
  /\ get(other) = get(dt) + 3600 * (hh - HourOf(get(dt)))

LEMMA AnotherHour ==
  ASSUME NEW dt, IsDate(dt), NEW hh \in 0..23
  PROVE  \E other : OtherHour(dt, hh, other)
<1>1. PICK s \in 0..59, i \in 0..59, h \in 0..23, d \in Nat \ {0}, m \in 1..12, y \in Nat :
        dt = [ss |-> s, mm |-> i, hh |-> h, d |-> d, m |-> m, y |-> y]
  BY DEF IsDate, Dates
<1>2. PICK other : other = [ss |-> s, mm |-> i, hh |-> hh, d |-> d, m |-> m, y |-> y]
  OBVIOUS
<1>3. dt \in Dates /\ other \in Dates /\ IsDate(other)
  BY <1>1, <1>2 DEF IsDate, Dates
<1>4. /\ Encoded(dt) = [ss |-> bin2bcd(s), mm |-> bin2bcd(i), hh |-> bin2bcd(h),
                        d |-> bin2bcd(d), m |-> bin2bcd(m), y |-> bin2bcd(y)]
      /\ Encoded(other) = [ss |-> bin2bcd(s), mm |-> bin2bcd(i), hh |-> bin2bcd(hh),
                           d |-> bin2bcd(d), m |-> bin2bcd(m), y |-> bin2bcd(y)]
  BY <1>1, <1>2, <1>3, EncodedFields
<1>5. HourOf(get(dt)) = h
  BY <1>1, HourOfTime
<1>6. WithHour(Encoded(dt), bin2bcd(hh)) = Encoded(other)
  BY <1>4 DEF WithHour
<1>7. PICK days \in Nat : days = date2days(y, m, d)
  BY DaysOf
<1>8. get(dt) = time2long(days, h, i, s) /\ get(other) = time2long(days, hh, i, s)
  BY <1>1, <1>2, <1>7 DEF get
<1>9. get(other) = get(dt) + 3600 * (hh - h)
  BY <1>8 DEF time2long
<1>10. QED
  BY <1>3, <1>5, <1>6, <1>9 DEF OtherHour

(* Each step keeps it; the registers are written only with a date or the hour *)
(* of one, and read only into the system clock.                              *)
LEMMA StartHolds == ClockInit => ClockInv
<1> SUFFICES ASSUME ClockInit PROVE ClockInv
  OBVIOUS
<1>1. RegistersHold(MyDateTime(0))
  BY ThereAndBack DEF ClockInit, RegistersHold
<1>2. QED
  BY <1>1 DEF ClockInit, ClockInv

LEMMA StepHolds == ClockInv /\ [ClockNext]_clockVars => ClockInv'
<1> SUFFICES ASSUME ClockInv, [ClockNext]_clockVars PROVE ClockInv'
  OBVIOUS
<1>1. PICK dt : RegistersHold(dt) /\ (trueTime # -1 /\ RTCFound => get(dt) = trueTime + putOn)
  BY DEF ClockInv
<1>2. IsDate(dt) /\ registers = Encoded(dt) /\ dt \in Dates
  BY <1>1 DEF RegistersHold, IsDate
<1>3. get(dt) \in Nat /\ getTime(registers) = get(dt)
  BY <1>2, ReadsTheDate
<1>4. CASE ClockBegin
  <2>1. registers' = registers /\ RTCFound' = RTCFound /\ slips' = 0
        /\ UNCHANGED <<rtcType, putOn, trueTime>>
    BY <1>4 DEF ClockBegin, ClockInv
  <2>2. RegistersHold(dt)'
    BY <1>1, <2>1 DEF RegistersHold
  <2>3. starting' \in {"nothing", "hour", "time"} /\ (RTCFound => starting' # "nothing")
        /\ (starting' # "nothing" => RTCFound)
    BY <1>4 DEF ClockBegin, ClockInv
  <2>4. /\ dt.hh \in 0..23 /\ Bit6Cleared(registers.hh) = bin2bcd(dt.hh)
        /\ HourOf(get(dt)) = dt.hh
    <3>1. dt.hh \in 0..23 /\ registers.hh = bin2bcd(dt.hh) /\ HourOf(get(dt)) = dt.hh
      BY <1>2, HourOfTime
    <3>2. bin2bcd(dt.hh) \div 64 = 0
      BY <3>1, BcdAndBack
    <3>3. QED
      BY <3>1, <3>2 DEF Bit6Cleared
  <2>5. readAt' = trueTime /\ (starting' = "hour" => hrReg' = Bit6Cleared(registers.hh))
    <3>1. rtcType \in {"DS3231", "DS1307", "none"}
      BY DEF ClockInv
    <3>2. starting' = "hour" => rtcType = "DS3231"
      BY <1>4, <3>1 DEF ClockBegin
    <3>3. QED
      BY <1>4, <3>2 DEF ClockBegin
  <2>6. starting' = "hour" => \E hh \in 0..23 :
           /\ hrReg' = bin2bcd(hh)
           /\ trueTime' # -1 => hh = HourOf(readAt' + putOn')
    BY <1>1, <2>1, <2>3, <2>4, <2>5
  <2>7. readAt' \in Int
    BY <2>5 DEF ClockInv
  <2>8. QED
    BY <1>1, <1>4, <2>1, <2>2, <2>3, <2>6, <2>7 DEF ClockInv, ClockBegin
<1>5. CASE HourWritten
  <2>1. PICK hh \in 0..23 : hrReg = bin2bcd(hh) /\ (trueTime # -1 => hh = HourOf(readAt + putOn))
    <3>1. starting = "hour"
      BY <1>5 DEF HourWritten
    <3>2. QED
      BY <3>1, Zenon DEF ClockInv
  <2>2. PICK other : /\ IsDate(other)
                     /\ registers' = Encoded(other)
                     /\ get(other) = get(dt) + 3600 * (hh - HourOf(get(dt)))
    <3>1. registers' = WithHour(registers, hrReg)
      BY <1>5 DEF HourWritten, WithHour
    <3>2. registers' = WithHour(Encoded(dt), bin2bcd(hh))
      BY <1>2, <2>1, <3>1, Zenon
    <3>3. PICK x : OtherHour(dt, hh, x)
      BY <1>2, AnotherHour, Zenon
    <3>4. QED
      BY <3>2, <3>3 DEF OtherHour
  <2>3. putOn \in Int /\ trueTime \in Int /\ readAt \in Int
    BY DEF ClockInv
  <2>4. /\ putOn' = putOn + 3600 * (HourOf(readAt + putOn) - HourOf(trueTime + putOn))
        /\ UNCHANGED <<rtcType, RTCFound, slips, readAt, trueTime>> /\ starting' = "time" /\ RTCFound
    BY <1>5 DEF HourWritten, ClockInv
  <2>5. putOn' \in Int
    BY <2>3, <2>4 DEF HourOf
  <2>6. ASSUME trueTime # -1
        PROVE  get(other) = trueTime + putOn'
    <3>1. get(dt) = trueTime + putOn
      BY <1>1, <2>4, <2>6
    <3>2. putOn' = putOn + 3600 * (hh - HourOf(get(dt)))
      BY <2>1, <2>4, <2>6, <3>1
    <3>3. PICK h \in 0..23 : h = HourOf(get(dt))
      BY <1>2, HourOfTime
    <3>4. QED
      BY <2>2, <2>3, <3>1, <3>2, <3>3
  <2>7. RegistersHold(other)'
    BY <2>2 DEF RegistersHold
  <2>9. /\ rtcType' \in {"DS3231", "DS1307", "none"} /\ RTCFound' = (rtcType' # "none")
        /\ trueTime' \in Nat \cup {-1} /\ slips' \in Nat /\ readAt' \in Int
        /\ starting' \in {"nothing", "hour", "time"} /\ starting' # "hour" /\ starting' # "nothing"
        /\ RTCFound' /\ RTCFound' = RTCFound /\ trueTime' = trueTime
    BY <2>4 DEF ClockInv
  <2>10. \E now : RegistersHold(now)' /\ (trueTime' # -1 /\ RTCFound' => get(now) = trueTime' + putOn')
    <3>1. trueTime' # -1 => get(other) = trueTime' + putOn'
      BY <2>6, <2>9
    <3>2. QED
      BY <2>7, <3>1
  <2>11. QED
    BY <2>5, <2>9, <2>10, Zenon DEF ClockInv
<1>6. ASSUME TimeRead \/ ClockCheckState PROVE ClockInv'
  <2>1. systemTime' = get(dt) /\ slips' = 0 /\ RTCFound /\ starting' = "nothing"
    BY <1>3, <1>6 DEF TimeRead, ClockCheckState, ClockInv
  <2>2. RegistersHold(dt)'
    BY <1>1, <1>6 DEF TimeRead, ClockCheckState, RegistersHold
  <2>3. UNCHANGED <<rtcType, RTCFound, putOn, trueTime>>
    BY <1>6 DEF TimeRead, ClockCheckState
  <2>4. readAt' \in Int
    BY <1>6 DEF TimeRead, ClockCheckState, ClockInv
  <2>5. \E now : RegistersHold(now)' /\ (trueTime' # -1 /\ RTCFound' => get(now) = trueTime' + putOn')
    BY <1>1, <2>2, <2>3
  <2>6. slips' \in Nat /\ systemTime' \in Nat
        /\ (trueTime' # -1 => systemTime' + slips' = trueTime' + putOn')
    BY <1>1, <1>3, <2>1, <2>3
  <2>7. QED
    BY <2>1, <2>3, <2>4, <2>5, <2>6 DEF ClockInv
<1>7. ASSUME NEW t \in NtpTimes, ntpTimeResultHandler(t) PROVE ClockInv'
  <2>1. t \in Nat
    BY ClockAssumption DEF ClockAssumption
  <2>2. IsDate(MyDateTime(t)) /\ get(MyDateTime(t)) = t /\ MyDateTime(t) \in Dates
    BY <2>1, ThereAndBack DEF IsDate
  <2>3. RTCFound => registers' = Encoded(MyDateTime(t))
    BY <1>7, <2>2, MasksAreHarmless DEF ntpTimeResultHandler, setTime, adjust, MyDateTime2
  <2>4. ~RTCFound => registers' = registers
    BY <1>7 DEF ntpTimeResultHandler, setTime
  <2>5. \E after : RegistersHold(after)' /\ (RTCFound => get(after) = t)
    BY <1>1, <2>2, <2>3, <2>4 DEF RegistersHold
  <2>6. QED
    BY <1>7, <2>1, <2>5 DEF ntpTimeResultHandler, ClockInv
<1>8. CASE Tick
  <2>1. registers' = Encoded(NextSecond(dt))
    BY <1>2, <1>8, EncodedAndBack DEF Tick
  <2>2. IsDate(NextSecond(dt)) /\ get(NextSecond(dt)) = get(dt) + 1
    BY <1>2, OneSecondLater
  <2>3. RegistersHold(NextSecond(dt))'
    BY <2>1, <2>2 DEF RegistersHold
  <2>4. trueTime \in Nat /\ trueTime' = trueTime + 1 /\ putOn \in Int
        /\ UNCHANGED <<rtcType, RTCFound, starting, hrReg, readAt, putOn>>
    BY <1>8 DEF Tick, ClockInv
  <2>5. RTCFound => get(NextSecond(dt)) = trueTime' + putOn'
    BY <1>1, <2>2, <2>4
  <2>6. \E after : RegistersHold(after)' /\ (RTCFound => get(after) = trueTime' + putOn')
    BY <2>3, <2>5
  <2>7. PICK slip \in {0, 1} :
          /\ systemTime' = IF systemTime = -1 THEN -1 ELSE systemTime + 1 - slip
          /\ slips' = slips + slip
    BY <1>8 DEF Tick
  <2>8. slips' \in Nat
        /\ (RTCFound /\ starting = "nothing" =>
              systemTime' \in Nat /\ systemTime' + slips' = trueTime' + putOn')
    BY <2>4, <2>7 DEF ClockInv
  <2>9. QED
    BY <2>4, <2>6, <2>8 DEF ClockInv
<1>9. CASE UNCHANGED clockVars
  BY <1>9 DEF ClockInv, RegistersHold, clockVars
<1>10. QED
  BY <1>4, <1>5, <1>6, <1>7, <1>8, <1>9 DEF ClockNext

(* The chip keeps the time but for the hours that a start has written back,  *)
(* and the system clock has it but for what it has missed, whenever it is:   *)
(* RTClock::begin, setTime, getTime and the two drivers.                     *)
THEOREM ClockKeepsTheTime == ClockSpec => []ClockKeepsTime
<1>1. ClockInv => ClockKeepsTime
  <2> SUFFICES ASSUME ClockInv, trueTime # -1, RTCFound
               PROVE  /\ getTime(registers) = trueTime + putOn
                      /\ starting = "nothing" => systemTime + slips = trueTime + putOn
    BY DEF ClockKeepsTime
  <2>1. PICK dt : RegistersHold(dt) /\ get(dt) = trueTime + putOn
    BY DEF ClockInv
  <2>2. getTime(registers) = get(dt)
    BY <2>1, ReadsTheDate DEF RegistersHold
  <2>3. QED
    BY <2>1, <2>2 DEF ClockInv
<1>2. QED
  BY <1>1, StartHolds, StepHolds, PTL DEF ClockSpec

-------------------------------------------------------------------------------
(* Remainders.                                                               *)
LEMMA RemainderIs ==
  ASSUME NEW N \in Nat, N > 0, NEW a \in Int, NEW q \in Int, NEW r \in Int, 0 <= r, r < N,
         a = (N * q) + r
  PROVE  a % N = r
OBVIOUS

LEMMA Remainder ==
  ASSUME NEW N \in Nat, N > 0, NEW a \in Int
  PROVE  \E q \in Int, r \in Int : a = (N * q) + r /\ 0 <= r /\ r < N /\ r = a % N
<1>1. a = (N * (a \div N)) + (a % N)
  OBVIOUS
<1>2. a \div N \in Int /\ a % N \in Int
  OBVIOUS
<1>3. 0 <= a % N /\ a % N < N
  OBVIOUS
<1>4. QED
  BY <1>1, <1>2, <1>3, Zenon

LEMMA SumRemainder ==
  ASSUME NEW N \in Nat, N > 0, NEW a \in Int, NEW b \in Int
  PROVE  ((a % N) + b) % N = (a + b) % N
<1>1. PICK q \in Int, x \in Int : a = (N * q) + x /\ x = a % N
  BY Remainder
<1>2. PICK p \in Int, r \in Int : x + b = (N * p) + r /\ 0 <= r /\ r < N /\ r = (x + b) % N
  BY Remainder
<1>3. PICK m \in Int : m = q + p
  OBVIOUS
<1>4. PICK u \in Int, v \in Int : u = N * q /\ v = N * p
  OBVIOUS
<1>5. N * m = u + v
  BY <1>3, <1>4
<1>6. PICK c \in Int : c = a + b
  OBVIOUS
<1>7. a = u + x /\ x + b = v + r
  BY <1>1, <1>2, <1>4
<1>8. c = (u + v) + r
  BY <1>6, <1>7
<1>9. c = (N * m) + r
  BY <1>5, <1>8
<1>10. c % N = r
  BY <1>2, <1>9
<1>11. QED
  BY <1>1, <1>2, <1>6, <1>10

(* The distance between two places of a ring does not depend on where it is  *)
(* counted from.                                                            *)
LEMMA Distance ==
  ASSUME NEW N \in Nat, N > 0, NEW a \in Int, NEW i \in Int, NEW j \in Int
  PROVE  (((a + i) % N) - ((a + j) % N)) % N = (i - j) % N
<1>1. PICK p \in Int, x \in Int : a + i = (N * p) + x /\ x = (a + i) % N
  BY Remainder
<1>2. PICK q \in Int, y \in Int : a + j = (N * q) + y /\ y = (a + j) % N
  BY Remainder
<1>3. PICK r \in Int, z \in Int : x - y = (N * r) + z /\ 0 <= z /\ z < N /\ z = (x - y) % N
  BY Remainder
<1>4. PICK m \in Int : m = p - q + r
  OBVIOUS
<1>5. PICK u \in Int, v \in Int, w \in Int : u = N * p /\ v = N * q /\ w = N * r
  OBVIOUS
<1>6. N * m = u - v + w
  BY <1>4, <1>5
<1>7. a + i = u + x /\ a + j = v + y /\ x - y = w + z
  BY <1>1, <1>2, <1>3, <1>5
<1>8. PICK c \in Int : c = i - j
  OBVIOUS
<1>9. c = (u - v + w) + z
  BY <1>7, <1>8
<1>10. c = (N * m) + z
  BY <1>6, <1>9
<1>11. c % N = z
  BY <1>3, <1>10
<1>12. (x - y) % N = (i - j) % N
  BY <1>3, <1>8, <1>11
<1>13. QED
  BY <1>1, <1>2, <1>12, Zenon

LEMMA SmallRemainder ==
  ASSUME NEW N \in Nat, N > 0, NEW a \in Int
  PROVE  /\ 0 <= a /\ a < N => a % N = a
         /\ -N <= a /\ a < 0 => a % N = a + N
<1>1. a = (N * 0) + a /\ a = (N * (-1)) + (a + N)
  OBVIOUS
<1>2. QED
  BY <1>1

(* Pointers count modulo a multiple of the ring.                             *)
LEMMA PointerRemainder ==
  ASSUME NEW N \in Nat, N > 0, NEW P \in Nat, P > 0, P % N = 0, NEW a \in Int
  PROVE  (a % P) % N = a % N
<1>1. PICK k \in Int, o \in Int : P = (N * k) + o /\ o = P % N
  BY Remainder
<1>2. PICK q \in Int, x \in Int : a = (P * q) + x /\ x = a % P
  BY Remainder
<1>3. PICK r \in Int, z \in Int : x = (N * r) + z /\ 0 <= z /\ z < N /\ z = x % N
  BY Remainder
<1>4. PICK l \in Int : l = k * q
  OBVIOUS
<1>5. P * q = N * l
  BY <1>1, <1>4
<1>6. PICK m \in Int : m = l + r
  OBVIOUS
<1>7. PICK u \in Int, v \in Int : u = N * l /\ v = N * r
  OBVIOUS
<1>8. N * m = u + v
  BY <1>6, <1>7
<1>9. a = u + x /\ x = v + z
  BY <1>2, <1>3, <1>5, <1>7
<1>10. a = (u + v) + z
  BY <1>9
<1>11. a = (N * m) + z
  BY <1>8, <1>10
<1>12. a % N = z
  BY <1>3, <1>11
<1>13. QED
  BY <1>2, <1>3, <1>12

LEMMA MovedPlace ==
  ASSUME NEW N \in Nat, N > 0, NEW P \in Nat, P > 0, P % N = 0, NEW a \in Int, NEW c \in Int
  PROVE  ((a % P) + c) % N = (a + c) % N
<1>1. PICK x \in Int : x = a % P
  BY Remainder
<1>2. x % N = a % N
  BY <1>1, PointerRemainder
<1>3. (x + c) % N = ((x % N) + c) % N
  BY SumRemainder
<1>4. ((a % N) + c) % N = (a + c) % N
  BY SumRemainder
<1>5. QED
  BY <1>1, <1>2, <1>3, <1>4

-------------------------------------------------------------------------------
(* What is left behind n cells.                                              *)
LEMMA BehindCells ==
  ASSUME NEW S, NEW s \in Seq(S), NEW n \in 0..Len(s)
  PROVE  /\ Behind(s, n) \in Seq(S) /\ Len(Behind(s, n)) = Len(s) - n
         /\ \A k \in 1..(Len(s) - n) : Behind(s, n)[k] = s[n + k]
BY DEF Behind

LEMMA FirstCells ==
  ASSUME NEW S, NEW s \in Seq(S), NEW n \in 0..Len(s)
  PROVE  SubSeq(s, 1, n) = [k \in 1..n |-> s[k]]
OBVIOUS

LEMMA ThenCells ==
  ASSUME NEW S, NEW s \in Seq(S), NEW t \in Seq(S)
  PROVE  /\ s \o t \in Seq(S) /\ Len(s \o t) = Len(s) + Len(t)
         /\ \A k \in 1..Len(s) : (s \o t)[k] = s[k]
         /\ \A k \in 1..Len(t) : (s \o t)[Len(s) + k] = t[k]
OBVIOUS

LEMMA SameCells ==
  ASSUME NEW S, NEW s \in Seq(S), NEW t \in Seq(S), Len(s) = Len(t), \A k \in 1..Len(s) : t[k] = s[k]
  PROVE  s = t
OBVIOUS

LEMMA JoinCells ==
  ASSUME NEW S, NEW s \in Seq(S), NEW t \in Seq(S), NEW u \in Seq(S), Len(u) = Len(s) + Len(t),
         \A k \in 1..Len(s) : s[k] = u[k],
         \A k \in 1..Len(t) : t[k] = u[Len(s) + k]
  PROVE  s \o t = u
<1>1. s \o t \in Seq(S) /\ Len(s \o t) = Len(u)
  BY ThenCells
<1>2. PICK v \in Seq(S) : v = s \o t
  BY <1>1
<1>3. ASSUME NEW k \in 1..Len(u) PROVE v[k] = u[k]
  <2>1. CASE k \in 1..Len(s)
    BY <1>2, <2>1
  <2>2. CASE k \in (Len(s) + 1)..(Len(s) + Len(t))
    <3>0. Len(s) \in Nat /\ Len(t) \in Nat
      OBVIOUS
    <3>1. PICK i \in 1..Len(t) : i = k - Len(s)
      <4>1. k - Len(s) \in 1..Len(t)
        BY <2>2, <3>0
      <4>2. QED
        BY <4>1, Zenon
    <3>2. (s \o t)[Len(s) + i] = t[i]
      OBVIOUS
    <3>3. Len(s) + i = k
      BY <3>1
    <3>4. (s \o t)[k] = t[i]
      BY <3>2, <3>3, Zenon
    <3>5. t[i] = u[Len(s) + i]
      OBVIOUS
    <3>6. QED
      BY <1>2, <3>3, <3>4, <3>5
  <2>3. QED
    BY <2>1, <2>2
<1>4. Len(v) = Len(u)
  BY <1>1, <1>2
<1>5. QED
  BY <1>2, <1>3, <1>4, SameCells

(* What W5100 or W5500 reads are the cells from the pointer on, around the    *)
(* end of the memory.                                                        *)
LEMMA ReadsAround ==
  ASSUME WiredInputAssumption, shield \in {"W5100", "W5500"}, NEW src \in Nat, NEW n \in 0..Size
  PROVE  read_data(src, n) = [i \in 1..n |-> rxMem[(src + i - 1) % Size]]
<1>0. Size \in Nat /\ Size > 0 /\ src \in Int
  BY DEF WiredInputAssumption
<1>1. CASE shield = "W5500"
  BY <1>1 DEF read_data, W5500read_data, W5500read
<1>2. CASE shield = "W5100"
  <2>1. PICK r \in Int : r = src % Size /\ 0 <= r /\ r < Size
    BY <1>0, Remainder
  <2>2. ASSUME NEW i \in 1..n
        PROVE  (r + (i - 1)) % Size = (src + i - 1) % Size
    <3>1. PICK c \in Int : c = i - 1
      OBVIOUS
    <3>2. ((src % Size) + c) % Size = (src + c) % Size
      BY <1>0, SumRemainder
    <3>3. src + c = src + i - 1
      BY <3>1
    <3>4. QED
      BY <2>1, <3>1, <3>2, <3>3, Zenon
  <2>3. CASE ~(r + n > Size)
    <3>1. ASSUME NEW i \in 1..n
          PROVE  r + i - 1 = (src + i - 1) % Size
      <4>1. PICK c \in Int : c = r + (i - 1) /\ 0 <= c /\ c < Size
        BY <1>0, <2>1, <2>3
      <4>2. c % Size = c
        BY <1>0, <4>1, SmallRemainder
      <4>3. QED
        BY <2>1, <2>2, <4>1, <4>2
    <3>2. W5100read(r, n) = [i \in 1..n |-> rxMem[(src + i - 1) % Size]]
      BY <3>1 DEF W5100read
    <3>3. QED
      BY <1>2, <2>1, <2>3, <3>2 DEF read_data, W5100read_data
  <2>4. CASE r + n > Size
    <3>1. PICK size \in 1..n : size = Size - r
      BY <1>0, <2>1, <2>4
    <3>2. ASSUME NEW i \in 1..size
          PROVE  r + i - 1 = (src + i - 1) % Size
      <4>1. PICK c \in Int : c = r + (i - 1) /\ 0 <= c /\ c < Size
        BY <1>0, <2>1, <3>1
      <4>2. c % Size = c
        BY <1>0, <4>1, SmallRemainder
      <4>3. i \in 1..n
        BY <3>1
      <4>4. QED
        BY <2>1, <2>2, <4>1, <4>2, <4>3
    <3>3. ASSUME NEW i \in (size + 1)..n
          PROVE  i - size - 1 = (src + i - 1) % Size
      <4>1. i \in 1..n
        BY <3>1
      <4>2. PICK z \in Int : z = i - size - 1 /\ 0 <= z /\ z < Size
        BY <1>0, <2>1, <3>1
      <4>3. PICK c \in Int : c = r + (i - 1)
        BY <2>1
      <4>4. c = Size + z
        BY <1>0, <2>1, <3>1, <4>2, <4>3
      <4>5. c % Size = z
        BY <1>0, <4>2, <4>4
      <4>6. QED
        BY <2>2, <4>1, <4>2, <4>3, <4>5
    <3> DEFINE S == {rxMem[a] : a \in 0..(Size - 1)}
               s == W5100read(r, size)
               t == W5100read(0, n - size)
    <3>4. \A a \in 0..(Size - 1) : rxMem[a] \in S
      OBVIOUS
    <3> HIDE DEF S
    <3>5. s \in Seq(S) /\ Len(s) = size /\ \A i \in 1..size : s[i] = rxMem[r + i - 1]
      <4>1. \A i \in 1..size : r + i - 1 \in 0..(Size - 1)
        BY <1>0, <2>1, <3>1
      <4>2. QED
        BY <3>4, <4>1 DEF W5100read
    <3>6. t \in Seq(S) /\ Len(t) = n - size /\ \A i \in 1..(n - size) : t[i] = rxMem[i - 1]
      <4>1. \A i \in 1..(n - size) : 0 + i - 1 \in 0..(Size - 1) /\ 0 + i - 1 = i - 1
        BY <1>0, <2>1, <3>1
      <4>2. n - size \in Nat
        BY <3>1
      <4>3. QED
        BY <3>4, <4>1, <4>2 DEF W5100read
    <3> HIDE DEF s, t
    <3>7. s \o t = [i \in 1..n |-> rxMem[(src + i - 1) % Size]]
      <4> DEFINE f == [i \in 1..n |-> rxMem[(src + i - 1) % Size]]
      <4>1. f \in Seq(S) /\ Len(f) = n
        <5>1. \A i \in 1..n : (src + i - 1) % Size \in 0..(Size - 1)
          BY <1>0
        <5>2. QED
          BY <3>4, <5>1
      <4>2. \A k \in 1..size : s[k] = f[k]
        BY <3>1, <3>2, <3>5
      <4>3. ASSUME NEW k \in 1..(n - size) PROVE t[k] = f[size + k]
        <5>1. PICK i \in (size + 1)..n : i = size + k
          BY <3>1
        <5>2. i - size - 1 = k - 1 /\ i \in 1..n
          BY <3>1, <5>1
        <5>3. f[i] = rxMem[(src + i - 1) % Size]
          BY <5>2
        <5>4. t[k] = rxMem[k - 1]
          BY <3>6
        <5>5. QED
          BY <3>3, <5>1, <5>2, <5>3, <5>4
      <4> HIDE DEF f
      <4>4. s \o t = f
        <5>1. \A k \in 1..Len(s) : s[k] = f[k]
          BY <3>5, <4>2
        <5>2. \A k \in 1..Len(t) : t[k] = f[Len(s) + k]
          BY <3>5, <3>6, <4>3
        <5>3. Len(f) = Len(s) + Len(t)
          BY <3>1, <3>5, <3>6, <4>1
        <5>4. QED
          BY <3>5, <3>6, <4>1, <5>1, <5>2, <5>3, JoinCells
      <4>5. QED
        BY <4>4 DEF f
    <3>8. read_data(src, n) = s \o t
      BY <1>2, <2>1, <2>4, <3>1 DEF read_data, W5100read_data, s, t
    <3>9. QED
      BY <3>7, <3>8
  <2>5. QED
    BY <2>3, <2>4
<1>3. QED
  BY <1>1, <1>2

-------------------------------------------------------------------------------
(* Frames lie in the chip whole, each behind its length, from the first       *)
(* length on.                                                                *)
FrameAt(cells, k, n) ==
  /\ EthBytes < n /\ n <= MaxBytes + 1 /\ k + n <= Len(cells)
  /\ cells[k + 1] = LengthByte(cells[k].length, 2)
  /\ \A i \in (k + 1)..(k + n) : ~IsLength(cells[i])
  /\ k + n < Len(cells) => IsLength(cells[k + n + 1])
Whole(cells) ==
  \A k \in 1..Len(cells) : IsLength(cells[k]) => FrameAt(cells, k, cells[k].length - 1)

(* The cells are those of the memory from a pointer on.                      *)
Stored(mem, at, cells) == \A k \in 1..Len(cells) : mem[(at + k - 1) % Size] = cells[k]

(* What arrived lies from the pointer on; the driver takes the               *)
(* next frame, unless memory was short.                                      *)
Cells == [frame : Int, index : Nat, length : Nat]
Due(n) == n <= Len(inChip) /\ (\A i \in 1..n : ~IsLength(inChip[i])) /\ InStep(Behind(inChip, n))
WiredInputInv ==
  /\ shield \in {"W5100", "W5500"} /\ Sn_RX_RD \in Nat /\ length \in Nat /\ nextId \in Nat
  /\ inChip \in Seq(Cells) /\ Sn_RX_RSR = Len(inChip) /\ Len(inChip) <= Size
  /\ Stored(rxMem, Sn_RX_RD, inChip)
  /\ Whole(inChip)
  /\ length <= Len(inChip)
  /\ lostStep \/ (input = expected /\ IF length = 0 THEN InStep(inChip) ELSE Due(length))

LEMMA WholeBehind ==
  ASSUME NEW s \in Seq(Cells), Whole(s), NEW n \in 0..Len(s)
  PROVE  Whole(Behind(s, n))
<1>1. PICK t \in Seq(Cells) : t = Behind(s, n)
  BY BehindCells
<1>2. Len(t) = Len(s) - n /\ \A k \in 1..(Len(s) - n) : t[k] = s[n + k]
  BY <1>1, BehindCells
<1>3. ASSUME NEW k \in 1..Len(t), IsLength(t[k])
      PROVE  FrameAt(t, k, t[k].length - 1)
  <2>1. PICK j \in 1..Len(s) : j = n + k
    BY <1>2
  <2>2. t[k] = s[j]
    BY <1>2, <2>1
  <2>3. PICK size \in Int : size = s[j].length - 1
    <3>1. s[j] \in Cells
      OBVIOUS
    <3>2. PICK c \in Nat : c = s[j].length
      BY <3>1 DEF Cells
    <3>3. c - 1 \in Int
      OBVIOUS
    <3>4. QED
      BY <3>2, <3>3, Zenon
  <2>4. FrameAt(s, j, size)
    BY <1>3, <2>2, <2>3 DEF Whole
  <2>5. EthBytes < size /\ size <= MaxBytes + 1 /\ k + size <= Len(t) /\ 1 <= size
    BY <1>2, <2>1, <2>4, WiredInputAssumption DEF FrameAt, WiredInputAssumption
  <2>a. t[k + 1] = LengthByte(t[k].length, 2)
    <3>1. k + 1 \in 1..(Len(s) - n) /\ n + (k + 1) = j + 1
      BY <1>2, <2>1, <2>5
    <3>2. t[k + 1] = s[n + (k + 1)]
      BY <1>2, <3>1, Zenon
    <3>3. t[k + 1] = s[j + 1]
      BY <3>1, <3>2, Zenon
    <3>4. s[j + 1] = LengthByte(s[j].length, 2)
      BY <2>4, Zenon DEF FrameAt
    <3>5. QED
      BY <2>2, <3>3, <3>4, Zenon
  <2>6. ASSUME NEW i \in (k + 1)..(k + size) PROVE ~IsLength(t[i])
    <3>1. n + i \in (j + 1)..(j + size)
      BY <2>1
    <3>2. t[i] = s[n + i]
      BY <1>2, <2>5
    <3>3. QED
      BY <2>4, <3>1, <3>2 DEF FrameAt
  <2>7. ASSUME k + size < Len(t) PROVE IsLength(t[k + size + 1])
    <3>1. PICK i \in 1..Len(t) : i = k + size + 1
      BY <2>5, <2>7, WiredInputAssumption DEF WiredInputAssumption
    <3>2. t[i] = s[j + size + 1]
      BY SMTT(60), <1>2, <2>1, <3>1
    <3>3. j + size < Len(s)
      BY <1>2, <2>1, <2>7
    <3>4. QED
      BY <2>4, <3>1, <3>2, <3>3 DEF FrameAt
  <2>8. QED
    BY <2>2, <2>3, <2>5, <2>a, <2>6, <2>7, Zenon DEF FrameAt
<1>4. QED
  BY <1>1, <1>3 DEF Whole

LEMMA WholeThen ==
  ASSUME NEW s \in Seq(Cells), Whole(s), NEW n \in Nat, EthBytes <= n, n <= MaxBytes, NEW id \in Nat
  PROVE  /\ Arriving(id, n) \in Seq(Cells) /\ Len(Arriving(id, n)) = n + 2
         /\ Whole(s \o Arriving(id, n)) /\ IsLength(Arriving(id, n)[1])
         /\ (InStep(s) => InStep(s \o Arriving(id, n)))
<1> DEFINE frame == Arriving(id, n)
<1>1. /\ frame \in Seq(Cells) /\ Len(frame) = n + 2
      /\ frame[1] = LengthByte(n + 2, 1) /\ frame[2] = LengthByte(n + 2, 2)
      /\ \A i \in 2..(n + 2) : ~IsLength(frame[i])
  <2>1. Frame(id, n) \in Seq(Cells) /\ Len(Frame(id, n)) = n
        /\ \A i \in 1..n : ~IsLength(Frame(id, n)[i])
    BY DEF Frame, Cells, IsLength
  <2>2. PICK m \in Nat : m = n + 2 /\ m = Header + n
    BY DEF Header
  <2>3. LengthByte(m, 1) \in Cells /\ LengthByte(m, 2) \in Cells /\ ~IsLength(LengthByte(m, 2))
    BY DEF LengthByte, Cells, IsLength
  <2>4. <<LengthByte(m, 1), LengthByte(m, 2)>> \in Seq(Cells)
    BY <2>3
  <2>5. PICK f \in Seq(Cells), h \in Seq(Cells) :
          f = Frame(id, n) /\ h = <<LengthByte(m, 1), LengthByte(m, 2)>>
    BY <2>1, <2>4, Zenon
  <2>6. Len(h) = 2 /\ h[1] = LengthByte(m, 1) /\ h[2] = LengthByte(m, 2)
    BY <2>5
  <2>7. /\ h \o f \in Seq(Cells) /\ Len(h \o f) = n + 2
        /\ (h \o f)[1] = h[1] /\ (h \o f)[2] = h[2]
        /\ \A i \in 1..n : (h \o f)[2 + i] = f[i]
    BY <2>1, <2>5, <2>6, ThenCells
  <2>8. ASSUME NEW i \in 2..(n + 2) PROVE ~IsLength((h \o f)[i])
    <3>1. CASE i = 2
      BY <2>3, <2>6, <2>7, <3>1, Zenon
    <3>2. CASE i # 2
      <4>1. i - 2 \in 1..n /\ 2 + (i - 2) = i
        BY <3>2
      <4>2. (h \o f)[2 + (i - 2)] = f[i - 2]
        BY <2>7, <4>1, Zenon
      <4>3. QED
        BY <2>1, <2>5, <4>1, <4>2, Zenon
    <3>3. QED
      BY <3>1, <3>2
  <2>9. frame = h \o f
    BY <2>2, <2>5, Zenon DEF Arriving
  <2> HIDE DEF frame
  <2>10. QED
    BY <2>2, <2>6, <2>7, <2>8, <2>9, Zenon
<1> HIDE DEF frame
<1>2. PICK t \in Seq(Cells) : t = s \o frame
  BY <1>1, ThenCells
<1>3. /\ Len(t) = Len(s) + n + 2 /\ \A k \in 1..Len(s) : t[k] = s[k]
      /\ \A k \in 1..(n + 2) : t[Len(s) + k] = frame[k]
  <2>1. PICK f \in Seq(Cells) : f = frame
    BY <1>1
  <2>2. /\ Len(s \o f) = Len(s) + Len(f)
        /\ \A k \in 1..Len(s) : (s \o f)[k] = s[k]
        /\ \A k \in 1..Len(f) : (s \o f)[Len(s) + k] = f[k]
    BY ThenCells
  <2>3. Len(f) = n + 2 /\ Len(s) \in Nat /\ t = s \o f
    BY <1>1, <1>2, <2>1
  <2>4. QED
    BY <2>1, <2>2, <2>3
<1>4. /\ IsLength(frame[1]) /\ t[Len(s) + 1] = frame[1] /\ frame[1].length = n + 2
      /\ t[Len(s) + 2] = LengthByte(n + 2, 2)
  <2>1. IsLength(frame[1]) /\ frame[1].length = n + 2
    BY <1>1 DEF IsLength, LengthByte
  <2>2. 1 \in 1..(n + 2) /\ 2 \in 1..(n + 2)
    OBVIOUS
  <2>3. QED
    BY <1>1, <1>3, <2>1, <2>2, Zenon
<1>5. ASSUME NEW k \in 1..Len(t), IsLength(t[k])
      PROVE  FrameAt(t, k, t[k].length - 1)
  <2>1. CASE k \in 1..Len(s)
    <3>1. t[k] = s[k]
      BY <1>3, <2>1
    <3>2. PICK size \in Int : size = s[k].length - 1
      <4>1. s[k] \in Cells
        BY <2>1
      <4>2. s[k].length - 1 \in Int
        BY <4>1 DEF Cells
      <4>3. QED
        BY <4>2, Zenon
    <3>3. FrameAt(s, k, size)
      BY <1>5, <2>1, <3>1, <3>2 DEF Whole
    <3>4. \A i \in (k + 1)..(k + size) : t[i] = s[i]
      <4>1. k + size <= Len(s)
        BY <3>3, Zenon DEF FrameAt
      <4>2. \A i \in (k + 1)..(k + size) : i \in 1..Len(s)
        BY <2>1, <4>1
      <4>3. QED
        BY <1>3, <4>2, Zenon
    <3>a. t[k + 1] = LengthByte(t[k].length, 2)
      <4>1. k + 1 \in (k + 1)..(k + size)
        BY <3>3, WiredInputAssumption DEF FrameAt, WiredInputAssumption
      <4>2. s[k + 1] = LengthByte(s[k].length, 2)
        BY <3>3, Zenon DEF FrameAt
      <4>3. QED
        BY <3>1, <3>4, <4>1, <4>2, Zenon
    <3>5. ASSUME k + size < Len(t) PROVE IsLength(t[k + size + 1])
      <4>1. CASE k + size < Len(s)
        <5>1. k + size + 1 \in 1..Len(s)
          BY <3>3, <4>1, WiredInputAssumption DEF FrameAt, WiredInputAssumption
        <5>2. QED
          BY <1>3, <3>3, <4>1, <5>1 DEF FrameAt
      <4>2. CASE k + size = Len(s)
        BY <1>4, <4>2
      <4>3. QED
        BY <3>3, <4>1, <4>2 DEF FrameAt
    <3>6. EthBytes < size /\ size <= MaxBytes + 1 /\ k + size <= Len(t)
      BY <1>3, <3>3 DEF FrameAt
    <3>7. \A i \in (k + 1)..(k + size) : ~IsLength(t[i])
      BY <3>3, <3>4, Zenon DEF FrameAt
    <3>8. QED
      BY <3>1, <3>2, <3>a, <3>5, <3>6, <3>7, Zenon DEF FrameAt
  <2>2. CASE k = Len(s) + 1
    <3>1. t[k].length - 1 = n + 1 /\ t[k].length = n + 2
      BY <1>4, <2>2
    <3>2. ASSUME NEW i \in (k + 1)..(k + (n + 1)) PROVE ~IsLength(t[i])
      <4>1. i - Len(s) \in 2..(n + 2) /\ i - Len(s) \in 1..(n + 2) /\ Len(s) + (i - Len(s)) = i
        BY <2>2
      <4>2. t[Len(s) + (i - Len(s))] = frame[i - Len(s)]
        BY <1>3, <4>1, Zenon
      <4>3. QED
        BY <1>1, <4>1, <4>2
    <3>3. k + (n + 1) = Len(t) /\ k + 1 = Len(s) + 2
      BY <1>3, <2>2
    <3>4. EthBytes < n + 1 /\ n + 1 <= MaxBytes + 1 /\ k + (n + 1) <= Len(t)
          /\ ~(k + (n + 1) < Len(t))
      BY <3>3, WiredInputAssumption DEF WiredInputAssumption
    <3>5. t[k + 1] = LengthByte(t[k].length, 2)
      BY <1>4, <3>1, <3>3, Zenon
    <3>6. QED
      BY <3>1, <3>2, <3>4, <3>5, Zenon DEF FrameAt
  <2>3. CASE k \in (Len(s) + 2)..Len(t)
    <3>1. k - Len(s) \in 2..(n + 2) /\ k - Len(s) \in 1..(n + 2) /\ Len(s) + (k - Len(s)) = k
      BY <1>3, <2>3
    <3>2. t[Len(s) + (k - Len(s))] = frame[k - Len(s)]
      BY <1>3, <3>1, Zenon
    <3>3. QED
      BY <1>1, <1>5, <3>1, <3>2
  <2>4. QED
    BY <2>1, <2>2, <2>3
<1>6. IsLength(frame[1]) /\ (InStep(s) => InStep(t))
  BY <1>3, <1>4 DEF InStep
<1>7. QED
  BY <1>1, <1>2, <1>5, <1>6 DEF Whole, frame

(* A frame that there is room for leaves the cells before it alone.          *)
LEMMA PutBehind ==
  ASSUME WiredInputAssumption, NEW rd \in Nat, NEW s \in Seq(Cells), NEW t \in Seq(Cells),
         Len(s) + Len(t) <= Size, NEW mem, Stored(mem, rd, s)
  PROVE  Stored(Put(mem, (rd + Len(s)) % Size, t), rd, s \o t)
<1>0. Size \in Nat /\ Size > 0 /\ rd \in Int /\ Len(s) \in Nat /\ Len(t) \in Nat
  BY DEF WiredInputAssumption
<1>1. SUFFICES ASSUME NEW k \in 1..(Len(s) + Len(t))
               PROVE  Put(mem, (rd + Len(s)) % Size, t)[(rd + k - 1) % Size] = (s \o t)[k]
  BY ThenCells DEF Stored
<1>2. PICK a \in 0..(Size - 1) : a = (rd + k - 1) % Size
  <2>1. (rd + k - 1) % Size \in 0..(Size - 1)
    BY <1>0
  <2>2. QED
    BY <2>1, Zenon
<1>3. PICK i \in Int, j \in Int : i = k - 1 /\ j = Len(s)
  BY <1>0
<1>4. PICK b \in Int, d \in Int : b = (rd + Len(s)) % Size /\ d = (a - b) % Size
  BY <1>0
<1>5. d = (i - j) % Size
  <2>1. a = (rd + i) % Size /\ b = (rd + j) % Size
    <3>1. rd + (k - 1) = rd + k - 1
      BY <1>0
    <3>2. (rd + k - 1) % Size = (rd + (k - 1)) % Size
      BY <3>1, Zenon
    <3>3. QED
      BY <1>2, <1>3, <1>4, <3>2, Zenon
  <2>2. (((rd + i) % Size) - ((rd + j) % Size)) % Size = (i - j) % Size
    <3>1. Size \in Nat /\ Size > 0 /\ rd \in Int
      BY <1>0
    <3>2. \A p, q \in Int : (((rd + p) % Size) - ((rd + q) % Size)) % Size = (p - q) % Size
      BY <3>1, Distance, Zenon
    <3>3. QED
      BY <3>2, Zenon
  <2>3. (a - b) % Size = (i - j) % Size
    BY <2>1, <2>2, Zenon
  <2>4. QED
    BY <1>4, <2>3
<1>6. Put(mem, (rd + Len(s)) % Size, t)[a] = IF 1 + d <= Len(t) THEN t[1 + d] ELSE mem[a]
  BY <1>4 DEF Put
<1>7. PICK c \in Int : c = i - j
  OBVIOUS
<1>8. CASE k \in 1..Len(s)
  <2>1. -Size <= c /\ c < 0 /\ c + Size >= Len(t)
    BY <1>0, <1>3, <1>7, <1>8
  <2>2. d = c + Size
    BY <1>0, <1>5, <1>7, <2>1, SmallRemainder
  <2>3. ~(1 + d <= Len(t))
    BY <1>0, <2>1, <2>2
  <2>4. (s \o t)[k] = s[k]
    BY <1>8, ThenCells
  <2>5. mem[a] = s[k]
    BY <1>2, <1>8 DEF Stored
  <2>6. QED
    BY <1>2, <1>6, <2>3, <2>4, <2>5
<1>9. CASE k \in (Len(s) + 1)..(Len(s) + Len(t))
  <2>1. 0 <= c /\ c < Size /\ c < Len(t) /\ Len(s) + (1 + c) = k /\ 1 + c \in 1..Len(t)
    BY <1>0, <1>3, <1>7, <1>9
  <2>2. d = c
    BY <1>0, <1>5, <1>7, <2>1, SmallRemainder
  <2>3. (s \o t)[Len(s) + (1 + c)] = t[1 + c]
    BY <2>1, ThenCells
  <2>4. QED
    BY <1>0, <1>2, <1>6, <2>1, <2>2, <2>3
<1>10. QED
  BY <1>0, <1>8, <1>9

(* The driver is in step when it has passed all, or is at a length.          *)
LEMMA StepBehind ==
  ASSUME NEW s \in Seq(Cells), NEW n \in 0..Len(s)
  PROVE  InStep(Behind(s, n)) <=> n = Len(s) \/ IsLength(s[n + 1])
<1>1. PICK t \in Seq(Cells) : t = Behind(s, n)
  BY BehindCells
<1>2. Len(t) = Len(s) - n /\ \A k \in 1..(Len(s) - n) : t[k] = s[n + k]
  BY <1>1, BehindCells
<1>3. CASE n = Len(s)
  BY <1>1, <1>2, <1>3 DEF InStep
<1>4. CASE n # Len(s)
  <2>1. Len(t) >= 1 /\ 1 \in 1..(Len(s) - n)
    BY <1>2, <1>4
  <2>2. t # <<>> /\ t[1] = s[n + 1]
    BY <1>2, <2>1
  <2>3. QED
    BY <1>1, <1>4, <2>2 DEF InStep
<1>5. QED
  BY <1>3, <1>4

(* There is one frame that is due.                                           *)
LEMMA NextIs ==
  ASSUME NEW s \in Seq(Cells), NEW n \in 0..Len(s), \A i \in 1..n : ~IsLength(s[i]),
         InStep(Behind(s, n))
  PROVE  BeforeNext(s) = SubSeq(s, 1, n)
<1> DEFINE Ends(m) == (\A i \in 1..m : ~IsLength(s[i])) /\ InStep(Behind(s, m))
<1>1. ASSUME NEW m \in 0..Len(s), Ends(m) PROVE m = n
  <2>1. n = Len(s) \/ IsLength(s[n + 1])
    BY StepBehind
  <2>2. m = Len(s) \/ IsLength(s[m + 1])
    BY <1>1, StepBehind
  <2>3. CASE m < n
    <3>1. m # Len(s) /\ m + 1 \in 1..n
      BY <2>3
    <3>2. QED
      BY <2>2, <3>1
  <2>4. CASE n < m
    <3>1. n # Len(s) /\ n + 1 \in 1..m
      BY <2>4
    <3>2. QED
      BY <1>1, <2>1, <3>1
  <2>5. QED
    BY <2>3, <2>4
<1>2. Ends(n)
  OBVIOUS
<1>3. (CHOOSE m \in 0..Len(s) : Ends(m)) = n
  <2> HIDE DEF Ends
  <2>1. QED
    BY <1>1, <1>2
<1>4. QED
  BY <1>3 DEF BeforeNext

LEMMA InputStart ==
  ASSUME WiredInputAssumption, WiredInputInit
  PROVE  WiredInputInv
<1>1. inChip \in Seq(Cells) /\ Len(inChip) = 0
  BY DEF WiredInputInit
<1>2. QED
  BY <1>1, WiredInputAssumption
     DEF WiredInputInit, WiredInputInv, Stored, Whole, InStep, WiredInputAssumption

(* The pointer, and what is behind it.                                       *)
LEMMA RecvMoves ==
  ASSUME WiredInputAssumption, WiredInputInv, NEW n \in 0..Len(inChip),
         recv_data_processing(n), rxMem' = rxMem
  PROVE  /\ Sn_RX_RD' \in Nat /\ inChip' \in Seq(Cells)
         /\ inChip' = Behind(inChip, n) /\ Len(inChip') = Len(inChip) - n
         /\ Sn_RX_RSR' = Len(inChip') /\ Len(inChip') <= Size
         /\ Stored(rxMem', Sn_RX_RD', inChip')
         /\ Whole(inChip')
<1>0. /\ Size \in Nat /\ Size > 0 /\ Pointers \in Nat /\ Pointers > 0 /\ Pointers % Size = 0
      /\ Sn_RX_RD \in Nat /\ inChip \in Seq(Cells) /\ Len(inChip) \in Nat
      /\ Sn_RX_RSR = Len(inChip) /\ Len(inChip) <= Size
  BY DEF WiredInputAssumption, WiredInputInv
<1>1. PICK t \in Seq(Cells) : t = Behind(inChip, n)
  BY <1>0, BehindCells
<1>2. Len(t) = Len(inChip) - n /\ \A k \in 1..(Len(inChip) - n) : t[k] = inChip[n + k]
  BY <1>0, <1>1, BehindCells
<1>3. inChip' = t /\ Sn_RX_RD' = (Sn_RX_RD + n) % Pointers /\ Sn_RX_RSR' = Sn_RX_RSR - n
  BY <1>1 DEF recv_data_processing
<1>4. Sn_RX_RD' \in Nat
  <2>1. Sn_RX_RD + n \in Int
    BY <1>0
  <2>2. QED
    BY <1>0, <1>3, <2>1
<1>5. Whole(t)
  BY <1>0, <1>1, WholeBehind DEF WiredInputInv
<1>6. ASSUME NEW k \in 1..Len(t)
      PROVE  rxMem[(Sn_RX_RD' + k - 1) % Size] = t[k]
  <2>1. PICK c \in Int, a \in Int, j \in 1..Len(inChip) : c = k - 1 /\ a = Sn_RX_RD + n /\ j = n + k
    <3>1. k - 1 \in Int /\ Sn_RX_RD + n \in Int
      BY <1>0
    <3>2. n + k \in 1..Len(inChip)
      BY <1>0, <1>2
    <3>3. QED
      BY <3>1, <3>2, Zenon
  <2>2. ((a % Pointers) + c) % Size = (a + c) % Size
    BY <1>0, MovedPlace
  <2>3. Sn_RX_RD' + k - 1 = Sn_RX_RD' + c /\ a + c = Sn_RX_RD + j - 1
    BY <1>0, <1>4, <2>1
  <2>4. (Sn_RX_RD' + k - 1) % Size = (Sn_RX_RD + j - 1) % Size
    BY <1>3, <2>1, <2>2, <2>3, Zenon
  <2>5. rxMem[(Sn_RX_RD + j - 1) % Size] = inChip[j]
    BY DEF WiredInputInv, Stored
  <2>6. QED
    BY <1>2, <2>1, <2>4, <2>5
<1>7. Stored(rxMem', Sn_RX_RD', inChip')
  BY <1>3, <1>6 DEF Stored
<1>8. QED
  BY <1>0, <1>1, <1>2, <1>3, <1>4, <1>5, <1>7

LEMMA StartInputKeeps ==
  ASSUME WiredInputAssumption, WiredInputInv, StartInput
  PROVE  WiredInputInv'
<1>0. /\ Size \in Nat /\ Size > 0 /\ EthBytes \in Nat /\ EthBytes > 0 /\ MaxBytes \in Nat
      /\ Sn_RX_RD \in Nat /\ inChip \in Seq(Cells) /\ Len(inChip) \in Nat
      /\ Sn_RX_RSR = Len(inChip) /\ Len(inChip) <= Size
      /\ shield \in {"W5100", "W5500"} /\ nextId \in Nat
  BY DEF WiredInputAssumption, WiredInputInv
<1>1. PICK rxLen \in getRXReceivedSize :
        /\ rxLen >= Header + EthBytes
        /\ \E pktLen \in Lengths(read_data(Sn_RX_RD, Header)) :
             length' = IF \/ pktLen < Header + EthBytes \/ pktLen > Header + MaxBytes
                          \/ rxLen < pktLen
                       THEN rxLen - Header ELSE pktLen - Header
        /\ recv_data_processing(Header)
  BY DEF StartInput, low_level_startinput
<1>2. rxLen = Len(inChip) /\ rxLen >= 2 + EthBytes /\ Header = 2
  BY <1>0, <1>1 DEF getRXReceivedSize, Header
<1>3. PICK bytes : /\ bytes = read_data(Sn_RX_RD, Header)
                   /\ bytes[1] = inChip[1] /\ bytes[2] = inChip[2]
  <2>1. read_data(Sn_RX_RD, Header) = [i \in 1..Header |-> rxMem[(Sn_RX_RD + i - 1) % Size]]
    <3>1. Header \in 0..Size
      BY <1>0, <1>2
    <3>2. QED
      BY <1>0, <3>1, ReadsAround
  <2>2. PICK bytes : bytes = [i \in 1..2 |-> rxMem[(Sn_RX_RD + i - 1) % Size]]
    OBVIOUS
  <2>3. bytes[1] = rxMem[(Sn_RX_RD + 1 - 1) % Size] /\ bytes[2] = rxMem[(Sn_RX_RD + 2 - 1) % Size]
    BY <2>2
  <2>4. 1 \in 1..Len(inChip) /\ 2 \in 1..Len(inChip)
    BY <1>0, <1>2
  <2>5. bytes[1] = inChip[1] /\ bytes[2] = inChip[2]
    BY <2>3, <2>4, Zenon DEF WiredInputInv, Stored
  <2>6. bytes = read_data(Sn_RX_RD, Header)
    BY <1>2, <2>1, <2>2, Zenon
  <2>7. QED
    BY <2>5, <2>6
<1>4. inChip[1] \in Cells
  BY <1>0, <1>2
<1>5. PICK pktLen \in Nat :
        /\ IsLength(inChip[1]) /\ inChip[2] = LengthByte(inChip[1].length, 2)
           => pktLen = inChip[1].length
        /\ length' = IF \/ pktLen < Header + EthBytes \/ pktLen > Header + MaxBytes
                        \/ rxLen < pktLen
                     THEN rxLen - Header ELSE pktLen - Header
  <2>1. PICK p \in Lengths(bytes) :
          length' = IF \/ p < Header + EthBytes \/ p > Header + MaxBytes \/ rxLen < p
                    THEN rxLen - Header ELSE p - Header
    BY <1>1, <1>3
  <2>2. CASE IsLength(inChip[1]) /\ inChip[2] = LengthByte(inChip[1].length, 2)
    <3>1. p = inChip[1].length
      BY <1>3, <2>1, <2>2 DEF Lengths
    <3>2. p \in Nat
      BY <1>4, <3>1 DEF Cells
    <3>3. QED
      BY <2>1, <3>1, <3>2
  <2>3. CASE ~(IsLength(inChip[1]) /\ inChip[2] = LengthByte(inChip[1].length, 2))
    <3>1. p \in 0..(Header + MaxBytes + 1)
      BY <1>3, <2>1, <2>3, Zenon DEF Lengths
    <3>2. p \in Nat
      BY <1>0, <1>2, <3>1
    <3>3. QED
      BY <2>1, <2>3, <3>2
  <2>4. QED
    BY <2>2, <2>3
<1>6. length' \in Nat /\ length' > 0 /\ length' <= Len(inChip) - 2
  BY <1>0, <1>2, <1>5
<1>7. PICK two \in 0..Len(inChip) : two = Header
  BY <1>0, <1>2
<1>8. /\ Sn_RX_RD' \in Nat /\ inChip' \in Seq(Cells)
      /\ inChip' = Behind(inChip, 2) /\ Len(inChip') = Len(inChip) - 2
      /\ Sn_RX_RSR' = Len(inChip') /\ Len(inChip') <= Size
      /\ Stored(rxMem', Sn_RX_RD', inChip')
      /\ Whole(inChip')
  <2>1. rxMem' = rxMem /\ recv_data_processing(two)
    BY <1>1, <1>7 DEF StartInput
  <2>2. QED
    BY <1>2, <1>7, <2>1, RecvMoves
<1>9. /\ shield' = shield /\ nextId' = nextId /\ lostStep' = lostStep
      /\ input' = input /\ expected' = expected /\ length = 0
  BY DEF StartInput
<1>10. ASSUME ~lostStep
       PROVE  input = expected /\ Due(length)'
  <2>1. input = expected /\ InStep(inChip)
    BY <1>9, <1>10 DEF WiredInputInv
  <2>2. IsLength(inChip[1])
    <3>1. inChip # <<>>
      BY <1>0, <1>2
    <3>2. QED
      BY <2>1, <3>1 DEF InStep
  <2>3. PICK n \in Int : n = inChip[1].length - 1
    <3>1. inChip[1].length - 1 \in Int
      BY <1>4 DEF Cells
    <3>2. QED
      BY <3>1, Zenon
  <2>4. FrameAt(inChip, 1, n)
    <3>1. 1 \in 1..Len(inChip)
      BY <1>0, <1>2
    <3>2. QED
      BY <2>2, <2>3, <3>1, Zenon DEF WiredInputInv, Whole
  <2>5. PICK m \in Nat : m = n - 1 /\ EthBytes <= m /\ m <= MaxBytes /\ 2 + m <= Len(inChip)
    <3>1. EthBytes < n /\ n <= MaxBytes + 1 /\ 1 + n <= Len(inChip)
      BY <2>4, Zenon DEF FrameAt
    <3>2. n - 1 \in Nat /\ EthBytes <= n - 1 /\ n - 1 <= MaxBytes /\ 2 + (n - 1) <= Len(inChip)
      BY <1>0, <3>1
    <3>3. QED
      BY <3>2, Zenon
  <2>6. length' = m
    <3>1. inChip[2] = LengthByte(inChip[1].length, 2)
      <4>1. 1 + 1 = 2
        OBVIOUS
      <4>2. QED
        BY <2>4, <4>1, Zenon DEF FrameAt
    <3>2. pktLen = inChip[1].length
      BY <1>5, <2>2, <3>1, Zenon
    <3>3. pktLen = m + 2
      BY <1>4, <2>3, <2>5, <3>2 DEF Cells
    <3>4. QED
      BY <1>0, <1>2, <1>5, <2>5, <3>3
  <2>7. \A k \in 1..(Len(inChip) - 2) : inChip'[k] = inChip[2 + k]
    <3>1. PICK s \in Seq(Cells) : s = inChip
      BY <1>0
    <3>2. two \in 0..Len(s) /\ two = 2
      BY <1>2, <1>7, <3>1
    <3>3. \A k \in 1..(Len(s) - two) : Behind(s, two)[k] = s[two + k]
      BY <3>2, BehindCells
    <3>4. QED
      BY <1>8, <3>1, <3>2, <3>3
  <2>8. \A i \in 1..m : ~IsLength(inChip'[i])
    <3>1. SUFFICES ASSUME NEW i \in 1..m PROVE ~IsLength(inChip'[i])
      OBVIOUS
    <3>2. i \in 1..(Len(inChip) - 2) /\ 2 + i \in (1 + 1)..(1 + n)
      BY <1>0, <2>5
    <3>3. inChip'[i] = inChip[2 + i]
      BY <2>7, <3>2, Zenon
    <3>4. ~IsLength(inChip[2 + i])
      BY <2>4, <3>2, Zenon DEF FrameAt
    <3>5. QED
      BY <3>3, <3>4, Zenon
  <2>9. InStep(Behind(inChip', m))
    <3>1. PICK t \in Seq(Cells) : t = inChip'
      BY <1>8
    <3>2. m \in 0..Len(t)
      BY <1>0, <1>8, <2>5, <3>1
    <3>3. CASE m = Len(t)
      BY <3>1, <3>2, <3>3, StepBehind
    <3>4. CASE m < Len(t)
      <4>1. 1 + n < Len(inChip) /\ m + 1 \in 1..(Len(inChip) - 2) /\ 2 + (m + 1) = 1 + n + 1
        BY <1>0, <1>8, <2>5, <3>1, <3>2, <3>4
      <4>2. IsLength(inChip[1 + n + 1])
        BY <2>4, <4>1, Zenon DEF FrameAt
      <4>3. t[m + 1] = inChip[2 + (m + 1)]
        BY <2>7, <3>1, <4>1, Zenon
      <4>4. IsLength(t[m + 1])
        BY <4>1, <4>2, <4>3, Zenon
      <4>5. QED
        BY <3>1, <3>2, <4>4, StepBehind
    <3>5. QED
      BY <3>2, <3>3, <3>4
  <2>10. m <= Len(inChip')
    BY <1>0, <1>8, <2>5
  <2>11. QED
    BY <2>1, <2>6, <2>8, <2>9, <2>10, Zenon DEF Due
<1>11. length' <= Len(inChip')
  BY <1>0, <1>6, <1>8
<1>12. length' # 0 /\ length' \in Nat
  BY <1>0, <1>6
<1>13. shield' \in {"W5100", "W5500"} /\ nextId' \in Nat
  BY <1>0, <1>9
<1>14. lostStep' \/ (input' = expected' /\ Due(length)')
  BY <1>9, <1>10
<1>15. QED
  BY <1>8, <1>11, <1>12, <1>13, <1>14, Zenon DEF WiredInputInv

LEMMA InputKeeps ==
  ASSUME WiredInputAssumption, WiredInputInv, low_level_input
  PROVE  WiredInputInv'
<1>0. /\ Size \in Nat /\ Sn_RX_RD \in Nat /\ inChip \in Seq(Cells) /\ Len(inChip) \in Nat
      /\ Len(inChip) <= Size /\ length \in 0..Len(inChip) /\ length # 0
      /\ shield \in {"W5100", "W5500"} /\ nextId \in Nat
  BY DEF WiredInputAssumption, WiredInputInv, low_level_input
<1>1. /\ Sn_RX_RD' \in Nat /\ inChip' \in Seq(Cells)
      /\ inChip' = Behind(inChip, length) /\ Len(inChip') = Len(inChip) - length
      /\ Sn_RX_RSR' = Len(inChip') /\ Len(inChip') <= Size
      /\ Stored(rxMem', Sn_RX_RD', inChip')
      /\ Whole(inChip')
  <2>1. recv_data_processing(length) /\ rxMem' = rxMem
    BY DEF low_level_input
  <2>2. QED
    BY <1>0, <2>1, RecvMoves
<1>2. input' = SubSeq(inChip, 1, length)
  <2>1. read_data(Sn_RX_RD, length) = [i \in 1..length |-> rxMem[(Sn_RX_RD + i - 1) % Size]]
    <3>1. length \in 0..Size
      BY <1>0
    <3>2. QED
      BY <1>0, <3>1, ReadsAround
  <2>2. \A i \in 1..length : rxMem[(Sn_RX_RD + i - 1) % Size] = inChip[i]
    BY <1>0 DEF WiredInputInv, Stored
  <2>3. [i \in 1..length |-> rxMem[(Sn_RX_RD + i - 1) % Size]] = [i \in 1..length |-> inChip[i]]
    BY <2>2
  <2>4. SubSeq(inChip, 1, length) = [i \in 1..length |-> inChip[i]]
    BY <1>0, FirstCells
  <2>5. input' = read_data(Sn_RX_RD, length)
    BY DEF low_level_input
  <2>6. QED
    BY <2>1, <2>3, <2>4, <2>5, Zenon
<1>3. input' = expected'
  <2>1. CASE lostStep
    BY <2>1 DEF low_level_input
  <2>2. CASE ~lostStep
    <3>1. Due(length)
      BY <1>0, <2>2 DEF WiredInputInv
    <3>2. BeforeNext(inChip) = SubSeq(inChip, 1, length)
      BY <1>0, <3>1, NextIs DEF Due
    <3>3. QED
      BY <1>2, <2>2, <3>2 DEF low_level_input
  <2>3. QED
    BY <2>1, <2>2
<1>4. /\ shield' \in {"W5100", "W5500"} /\ nextId' \in Nat /\ length' = 0
      /\ lostStep' = ~InStep(inChip')
  BY <1>0 DEF low_level_input
<1>5. 0 \in Nat /\ 0 <= Len(inChip')
  BY <1>1
<1>6. QED
  BY <1>1, <1>3, <1>4, <1>5 DEF WiredInputInv

LEMMA NoMemKeeps ==
  ASSUME WiredInputAssumption, WiredInputInv, low_level_input_nomem
  PROVE  WiredInputInv'
<1>1. 0 \in Nat /\ 0 <= Len(inChip)
  BY DEF WiredInputInv
<1>2. QED
  BY <1>1 DEF WiredInputInv, low_level_input_nomem

LEMMA InputRestartKeeps ==
  ASSUME WiredInputAssumption, WiredInputInv, WiredInputRestart
  PROVE  WiredInputInv'
<1>1. inChip' \in Seq(Cells) /\ Len(inChip') = 0
  BY DEF WiredInputRestart
<1>2. QED
  BY <1>1 DEF WiredInputRestart, WiredInputInv, Stored, Whole, InStep, WiredInputAssumption

LEMMA ArrivalKeeps ==
  ASSUME WiredInputAssumption, WiredInputInv, NEW bytes \in EthBytes..MaxBytes, FrameArrives(bytes)
  PROVE  WiredInputInv'
<1>0. /\ Size \in Nat /\ Size > 0 /\ EthBytes \in Nat /\ EthBytes > 0 /\ MaxBytes \in Nat
      /\ Sn_RX_RD \in Nat /\ inChip \in Seq(Cells) /\ Len(inChip) \in Nat
      /\ Sn_RX_RSR = Len(inChip) /\ Len(inChip) <= Size
      /\ shield \in {"W5100", "W5500"} /\ nextId \in Nat /\ Ids \in Nat /\ Ids > 0
      /\ length \in Nat /\ length <= Len(inChip)
  BY DEF WiredInputAssumption, WiredInputInv
<1>1. bytes \in Nat /\ EthBytes <= bytes /\ bytes <= MaxBytes
  BY <1>0
<1> DEFINE f == Arriving(nextId, bytes)
<1>2. /\ f \in Seq(Cells) /\ Len(f) = bytes + 2 /\ Whole(inChip \o f)
      /\ IsLength(f[1]) /\ (InStep(inChip) => InStep(inChip \o f))
  BY <1>0, <1>1, WholeThen DEF WiredInputInv
<1>3. /\ rxMem' = Put(rxMem, (Sn_RX_RD + Sn_RX_RSR) % Size, f) /\ inChip' = inChip \o f
      /\ Sn_RX_RSR + Header + bytes <= Size /\ Sn_RX_RSR' = Sn_RX_RSR + Header + bytes
      /\ nextId' = (nextId + 1) % Ids
      /\ UNCHANGED <<shield, Sn_RX_RD, length, input, expected, lostStep>>
  BY DEF FrameArrives
<1> HIDE DEF f
<1>4. PICK t \in Seq(Cells) : t = f
  BY <1>2
<1>5. /\ inChip \o t \in Seq(Cells) /\ Len(inChip \o t) = Len(inChip) + Len(t)
      /\ \A k \in 1..Len(inChip) : (inChip \o t)[k] = inChip[k]
      /\ \A k \in 1..Len(t) : (inChip \o t)[Len(inChip) + k] = t[k]
  BY <1>0, ThenCells
<1>6. PICK s \in Seq(Cells) : s = inChip \o t
  BY <1>5
<1>7. /\ inChip' = s /\ Len(t) = bytes + 2 /\ Len(s) = Len(inChip) + bytes + 2
      /\ Len(s) <= Size /\ Sn_RX_RSR' = Len(s)
  <2>1. inChip' = s
    BY <1>3, <1>4, <1>6, Zenon
  <2>2. Len(t) = bytes + 2
    BY <1>2, <1>4, Zenon
  <2>3. Len(s) = Len(inChip) + Len(t)
    BY <1>5, <1>6, Zenon
  <2>4. QED
    BY <1>0, <1>1, <1>3, <2>1, <2>2, <2>3 DEF Header
<1>8. Stored(rxMem', Sn_RX_RD, s)
  <2>1. Len(inChip) + Len(t) <= Size
    BY <1>0, <1>1, <1>7
  <2>2. Stored(rxMem, Sn_RX_RD, inChip)
    BY DEF WiredInputInv
  <2>3. Stored(Put(rxMem, (Sn_RX_RD + Len(inChip)) % Size, t), Sn_RX_RD, inChip \o t)
    BY <1>0, <2>1, <2>2, WiredInputAssumption, PutBehind, Zenon
  <2>4. QED
    BY <1>0, <1>3, <1>4, <1>6, <2>3, Zenon
<1>9. ASSUME ~lostStep
      PROVE  input' = expected' /\ IF length' = 0 THEN InStep(inChip') ELSE Due(length)'
  <2>1. input' = expected'
    BY <1>3, <1>9 DEF WiredInputInv
  <2>2. CASE length = 0
    <3>1. InStep(inChip)
      BY <1>9, <2>2 DEF WiredInputInv
    <3>2. QED
      BY <1>2, <1>3, <2>1, <2>2, <3>1
  <2>3. CASE length # 0
    <3>1. Due(length)
      BY <1>9, <2>3 DEF WiredInputInv
    <3>2. \A i \in 1..length : ~IsLength(s[i])
      BY <1>0, <1>5, <1>6, <3>1 DEF Due
    <3>3. length \in 0..Len(s) /\ length \in 0..Len(inChip)
      BY <1>0, <1>1, <1>7
    <3>4. length = Len(s) \/ IsLength(s[length + 1])
      <4>1. CASE length = Len(inChip)
        <5>1. 1 \in 1..Len(t)
          BY <1>1, <1>7
        <5>2. s[Len(inChip) + 1] = t[1]
          BY <1>5, <1>6, <5>1
        <5>3. QED
          BY <1>2, <1>4, <4>1, <5>2
      <4>2. CASE length # Len(inChip)
        <5>1. IsLength(inChip[length + 1])
          BY <1>0, <3>1, <3>3, <4>2, StepBehind DEF Due
        <5>2. length + 1 \in 1..Len(inChip)
          BY <1>0, <4>2
        <5>3. QED
          BY <1>5, <1>6, <5>1, <5>2
      <4>3. QED
        BY <4>1, <4>2
    <3>5. InStep(Behind(s, length))
      BY <3>3, <3>4, StepBehind
    <3>6. length <= Len(s)
      BY <3>3
    <3>7. Due(length)'
      BY <1>3, <1>7, <3>2, <3>5, <3>6 DEF Due
    <3>8. QED
      BY <1>3, <2>1, <2>3, <3>7
  <2>4. QED
    BY <2>2, <2>3
<1>10. nextId' \in Nat
  <2>1. nextId + 1 \in Int
    BY <1>0
  <2>2. QED
    BY <1>0, <1>3, <2>1
<1>11. length' <= Len(s)
  BY <1>0, <1>1, <1>3, <1>7
<1>12. Whole(s)
  BY <1>2, <1>4, <1>6
<1>13. /\ shield' \in {"W5100", "W5500"} /\ Sn_RX_RD' \in Nat /\ length' \in Nat
       /\ Sn_RX_RD' = Sn_RX_RD /\ lostStep' = lostStep
  BY <1>0, <1>3
<1>14. QED
  BY <1>6, <1>7, <1>8, <1>9, <1>10, <1>11, <1>12, <1>13, Zenon DEF WiredInputInv

(* The frames that lwip is given are those that arrived, whole and in their   *)
(* order, however they lie in the memory of the chip (W5100::read_data,      *)
(* w5500_read_data) and whenever the next ones come, unless memory was short.*)
THEOREM FramesComeInWhole == WiredInputSpec => []FramesReadWhole
<1>1. WiredInputInit => WiredInputInv
  BY WiredInputAssumption, InputStart
<1>2. WiredInputInv /\ [WiredInputNext]_wiredInputVars => WiredInputInv'
  <2> SUFFICES ASSUME WiredInputInv, [WiredInputNext]_wiredInputVars
               PROVE  WiredInputInv'
    OBVIOUS
  <2>1. CASE StartInput
    BY <2>1, WiredInputAssumption, StartInputKeeps
  <2>2. CASE low_level_input
    BY <2>2, WiredInputAssumption, InputKeeps
  <2>3. CASE low_level_input_nomem
    BY <2>3, WiredInputAssumption, NoMemKeeps
  <2>4. CASE WiredInputRestart
    BY <2>4, WiredInputAssumption, InputRestartKeeps
  <2>5. ASSUME NEW bytes \in EthBytes..MaxBytes, FrameArrives(bytes)
        PROVE  WiredInputInv'
    BY <2>5, WiredInputAssumption, ArrivalKeeps
  <2>6. CASE UNCHANGED wiredInputVars
    BY <2>6 DEF wiredInputVars, WiredInputInv, Due
  <2>7. QED
    BY <2>1, <2>2, <2>3, <2>4, <2>5, <2>6 DEF WiredInputNext
<1>3. WiredInputInv => FramesReadWhole
  BY DEF WiredInputInv, FramesReadWhole
<1>4. QED
  BY <1>1, <1>2, <1>3, PTL DEF WiredInputSpec

-------------------------------------------------------------------------------
(* The pointer of the driver is l cells before that of the chip.             *)
Ahead(wr, rd, l) == wr % TxSize = (rd + l) % TxSize
Distances(wr, rd, l) == \A i \in Int : (((rd + i) % TxSize) - wr) % TxSize = (i - l) % TxSize

LEMMA WrittenPlace ==
  ASSUME WiredOutputAssumption, NEW rd \in Int, NEW wr \in Int, NEW l \in Int, Ahead(wr, rd, l)
  PROVE  Distances(wr, rd, l)
<1>0. PICK N \in Nat : N = TxSize /\ N > 0
  BY DEF WiredOutputAssumption
<1>1. N > 0
  BY <1>0
<1> SUFFICES ASSUME NEW i \in Int PROVE (((rd + i) % N) - wr) % N = (i - l) % N
  BY <1>0, Zenon DEF Distances
<1>2. wr % N = (rd + l) % N
  BY <1>0, Zenon DEF Ahead
<1>3. PICK p \in Int, y \in Int : rd + i = (N * p) + y /\ y = (rd + i) % N
  <2>1. PICK f \in Int : f = rd + i
    OBVIOUS
  <2>2. \E r \in Int, c \in Int : f = (N * r) + c /\ 0 <= c /\ c < N /\ c = f % N
    BY <1>1, Remainder
  <2>3. QED
    BY <2>1, <2>2, Zenon
<1>4. PICK q \in Int, z \in Int : rd + l = (N * q) + z /\ z = (rd + l) % N
  <2>1. PICK f \in Int : f = rd + l
    OBVIOUS
  <2>2. \E r \in Int, c \in Int : f = (N * r) + c /\ 0 <= c /\ c < N /\ c = f % N
    BY <1>1, Remainder
  <2>3. QED
    BY <2>1, <2>2, Zenon
<1>5. PICK k \in Int, x \in Int : wr = (N * k) + x /\ x = wr % N
  BY <1>1, Remainder
<1>6. PICK r \in Int, c \in Int : y - wr = (N * r) + c /\ 0 <= c /\ c < N /\ c = (y - wr) % N
  <2>1. PICK f \in Int : f = y - wr
    OBVIOUS
  <2>2. \E r \in Int, c \in Int : f = (N * r) + c /\ 0 <= c /\ c < N /\ c = f % N
    BY <1>1, Remainder
  <2>3. QED
    BY <2>1, <2>2, Zenon
<1>7. PICK m \in Int : m = p - q + r + k
  OBVIOUS
<1>8. PICK u \in Int, v \in Int, w \in Int, e \in Int : u = N * p /\ v = N * q /\ w = N * r /\ e = N * k
  OBVIOUS
<1>9. N * m = u - v + w + e
  BY <1>7, <1>8
<1>10. rd + i = u + y /\ rd + l = v + z /\ wr = e + x /\ y - wr = w + c /\ x = z
  BY <1>2, <1>3, <1>4, <1>5, <1>6, <1>8
<1>11. PICK d \in Int : d = i - l
  OBVIOUS
<1>12. d = (u - v + w + e) + c
  BY <1>10, <1>11
<1>13. d = (N * m) + c
  BY <1>9, <1>12
<1>14. d % N = c
  BY <1>1, <1>6, <1>13
<1>15. (y - wr) % N = (i - l) % N
  BY <1>6, <1>11, <1>14
<1>16. QED
  BY <1>3, <1>15, Zenon

(* What is written lies from the pointer on, around the end of the memory,     *)
(* and the other cells stay.                                                 *)
Sent(out, mem, ptr, data) ==
  /\ out.ptr = (ptr + Len(data)) % TxPointers
  /\ \A a \in 0..(TxSize - 1), d \in Int :
       d = (a - ptr) % TxSize =>
         out.mem[a] = IF d < Len(data) THEN data[d + 1] ELSE mem[a]

LEMMA SendsAround ==
  ASSUME WiredOutputAssumption, board \in {"W5100", "W5500"}, NEW mem, NEW ptr \in Nat,
         NEW S, NEW data \in Seq(S), Len(data) <= TxSize
  PROVE  Sent(send_data_processing([mem |-> mem, ptr |-> ptr], data), mem, ptr, data)
<1> DEFINE chip == [mem |-> mem, ptr |-> ptr]
           out == send_data_processing(chip, data)
<1> SUFFICES ASSUME NEW a \in 0..(TxSize - 1), NEW d \in Int, d = (a - ptr) % TxSize
             PROVE  /\ out.ptr = (ptr + Len(data)) % TxPointers
                    /\ out.mem[a] = IF d < Len(data) THEN data[d + 1] ELSE mem[a]
  <2> HIDE DEF out
  <2>1. 0 \in 0..(TxSize - 1) /\ (0 - ptr) % TxSize \in Int
    BY DEF WiredOutputAssumption
  <2>2. QED
    BY <2>1, Zenon DEF Sent, out, chip
<1>0. TxSize \in Nat /\ TxSize > 0 /\ ptr \in Int /\ Len(data) \in Nat
  BY DEF WiredOutputAssumption
<1>1. CASE board = "W5500"
  <2>1. 1 + d = d + 1 /\ (1 + d <= Len(data) <=> d < Len(data))
    BY <1>0
  <2>2. W5500write(mem, ptr, data)[a] = IF 1 + d <= Len(data) THEN data[1 + d] ELSE mem[a]
    BY DEF W5500write
  <2>3. QED
    BY <1>1, <2>1, <2>2 DEF send_data_processing, W5500send_data_processing, Moved
<1>2. CASE board = "W5100"
  <2>1. PICK o \in Int : o = ptr % TxSize /\ 0 <= o /\ o < TxSize
    BY <1>0, Remainder
  <2>2. /\ a >= o => d = a - o
        /\ a < o => d = a - o + TxSize
    <3>1. PICK q \in Int : ptr = (TxSize * q) + o
      BY <1>0, <2>1, Remainder
    <3>2. PICK u \in Int, v \in Int, c \in Int, w \in Int :
            u = TxSize * q /\ c = a - ptr /\ v = TxSize * (-q) /\ w = TxSize * (-q - 1)
      BY <1>0
    <3>3. v = -u /\ w = -u - TxSize
      BY <1>0, <3>2
    <3>4. ptr = u + o
      BY <3>1, <3>2
    <3>5. c = v + (a - o) /\ c = w + (a - o + TxSize)
      BY <1>0, <3>2, <3>3, <3>4
    <3>6. c = (TxSize * (-q)) + (a - o) /\ c = (TxSize * (-q - 1)) + (a - o + TxSize)
      BY <3>2, <3>5
    <3>7. c % TxSize = d
      BY <3>2
    <3>8. CASE a >= o
      <4>1. 0 <= a - o /\ a - o < TxSize
        BY <1>0, <2>1, <3>8
      <4>2. c % TxSize = a - o
        BY <1>0, <3>6, <4>1, RemainderIs
      <4>3. QED
        BY <2>1, <3>7, <3>8, <4>2
    <3>9. CASE a < o
      <4>1. 0 <= a - o + TxSize /\ a - o + TxSize < TxSize
        BY <1>0, <2>1, <3>9
      <4>2. c % TxSize = a - o + TxSize
        <5>1. PICK e \in Int, g \in Int : e = -q - 1 /\ g = a - o + TxSize
          BY <1>0
        <5>2. c = (TxSize * e) + g
          BY <3>6, <5>1, Zenon
        <5>3. c % TxSize = g
          BY <1>0, <4>1, <5>1, <5>2, RemainderIs
        <5>4. QED
          BY <5>1, <5>3
      <4>3. QED
        BY <2>1, <3>7, <3>9, <4>2
    <3>10. QED
      BY <2>1, <3>8, <3>9
  <2>3. CASE ~(o + Len(data) > TxSize)
    <3>1. W5100write(mem, o, data)[a] = IF a - o \in 0..(Len(data) - 1) THEN data[a - o + 1] ELSE mem[a]
      BY DEF W5100write
    <3>2. a - o \in 0..(Len(data) - 1) <=> d < Len(data)
      BY <1>0, <2>1, <2>2, <2>3
    <3>3. d < Len(data) => a - o + 1 = d + 1
      BY <1>0, <2>1, <2>2, <2>3
    <3>4. W5100write(mem, o, data)[a] = IF d < Len(data) THEN data[d + 1] ELSE mem[a]
      BY <3>1, <3>2, <3>3
    <3>5. QED
      BY <1>2, <2>1, <2>3, <3>4 DEF send_data_processing, W5100send_data_processing, Moved
  <2>4. CASE o + Len(data) > TxSize
    <3>1. PICK size \in 0..Len(data) : size = TxSize - o
      BY <1>0, <2>1, <2>4
    <3>2. PICK x \in Seq(S) : x = SubSeq(data, 1, size) /\ Len(x) = size /\ \A k \in 1..size : x[k] = data[k]
      <4>1. SubSeq(data, 1, size) = [k \in 1..size |-> data[k]]
        BY <3>1, FirstCells
      <4>2. \A k \in 1..size : data[k] \in S
        BY <3>1
      <4>3. [k \in 1..size |-> data[k]] \in Seq(S)
        BY <3>1, <4>2
      <4>4. PICK f \in Seq(S) : f = [k \in 1..size |-> data[k]]
        BY <4>3
      <4>5. Len(f) = size /\ \A k \in 1..size : f[k] = data[k]
        BY <3>1, <4>4
      <4>6. f = SubSeq(data, 1, size)
        BY <4>1, <4>4, Zenon
      <4>7. QED
        BY <4>5, <4>6, Zenon
    <3>3. PICK y \in Seq(S) : /\ y = SubSeq(data, size + 1, Len(data)) /\ Len(y) = Len(data) - size
                              /\ \A k \in 1..(Len(data) - size) : y[k] = data[size + k]
      <4>1. PICK y \in Seq(S) : y = Behind(data, size)
        BY <3>1, BehindCells
      <4>2. Len(y) = Len(data) - size /\ \A k \in 1..(Len(data) - size) : y[k] = data[size + k]
        <5>1. Len(y) = Len(data) - size
          BY <4>1, BehindCells
        <5>2. ASSUME NEW k \in 1..(Len(data) - size) PROVE y[k] = data[size + k]
          BY <4>1 DEF Behind
        <5>3. QED
          BY <5>1, <5>2
      <4>3. QED
        BY <4>1, <4>2, Zenon DEF Behind
    <3>4. PICK part : part = W5100write(mem, o, x)
      OBVIOUS
    <3>5. part[a] = IF a - o \in 0..(size - 1) THEN x[a - o + 1] ELSE mem[a]
      BY <3>2, <3>4 DEF W5100write
    <3>6. W5100write(part, 0, y)[a] = IF a - 0 \in 0..(Len(data) - size - 1) THEN y[a - 0 + 1] ELSE part[a]
      BY <3>3 DEF W5100write
    <3>7. W5100write(part, 0, y)[a] = IF d < Len(data) THEN data[d + 1] ELSE mem[a]
      <4>1. CASE a >= o
        <5>1. d = a - o /\ d < size /\ d < Len(data) /\ a - o \in 0..(size - 1) /\ d + 1 \in 1..size
          BY <1>0, <2>1, <2>2, <3>1, <4>1
        <5>2. ~(a - 0 \in 0..(Len(data) - size - 1))
          BY <1>0, <2>1, <3>1, <4>1
        <5>3. part[a] = x[d + 1]
          BY <3>5, <5>1
        <5>4. QED
          BY <3>2, <3>6, <5>1, <5>2, <5>3
      <4>2. CASE a < o
        <5>1. d = a + size /\ a - 0 = a /\ ~(a - o \in 0..(size - 1)) /\ a \in Nat
          BY <1>0, <2>1, <2>2, <3>1, <4>2
        <5>2. part[a] = mem[a]
          BY <3>5, <5>1
        <5>3. CASE a < Len(data) - size
          <6>1. a - 0 \in 0..(Len(data) - size - 1) /\ d < Len(data)
                /\ a + 1 \in 1..(Len(data) - size) /\ size + (a + 1) = d + 1
            BY <1>0, <3>1, <5>1, <5>3
          <6>2. W5100write(part, 0, y)[a] = y[a + 1]
            BY <3>6, <5>1, <6>1
          <6>3. y[a + 1] = data[size + (a + 1)]
            BY <3>3, <6>1
          <6>4. QED
            BY <6>1, <6>2, <6>3
        <5>4. CASE ~(a < Len(data) - size)
          <6>1. ~(a - 0 \in 0..(Len(data) - size - 1)) /\ ~(d < Len(data))
            BY <1>0, <3>1, <5>1, <5>4
          <6>2. QED
            BY <3>6, <5>2, <6>1
        <5>5. QED
          BY <5>3, <5>4
      <4>3. QED
        BY <1>0, <2>1, <4>1, <4>2
    <3>8. send_data_processing(chip, data).mem = W5100write(part, 0, y)
      BY <1>2, <2>1, <2>4, <3>1, <3>2, <3>3, <3>4
         DEF send_data_processing, W5100send_data_processing
    <3>9. send_data_processing(chip, data).ptr = (ptr + Len(data)) % TxPointers
      BY <1>2 DEF send_data_processing, W5100send_data_processing, Moved
    <3>10. QED
      BY <3>7, <3>8, <3>9
  <2>5. QED
    BY <2>3, <2>4
<1>3. QED
  BY <1>1, <1>2

-------------------------------------------------------------------------------
(* Of the cells that are to be sent, those that nothing was written over lie   *)
(* before the pointer of the driver; frames that wait end in their order, each *)
(* with the last cells of one of lwip, with all of them unless it is stale.    *)
TxCells == Nat \X Int
TxFrames == [end: Nat, id: Nat, size: Nat, stale: BOOLEAN]
Latest(mem, at, cells, top) ==
  \A k \in 1..Len(cells) : top - k < TxSize => mem[(at + k - 1) % TxSize] = cells[k]
AreOf(cells, from, end, id, size) ==
  \A i \in (from + 1)..end : cells[i] = <<id, size - end + i>>
EndsAFrame(cells, from, f) ==
  /\ AreOf(cells, from, f.end, f.id, f.size)
  /\ f.stale \/ f.size = f.end - from
StartOf(frames, j) == IF j = 1 THEN 0 ELSE frames[j - 1].end
Frames(frames, cells) ==
  /\ frames \in Seq(TxFrames)
  /\ \A j \in 1..Len(frames) : frames[j].end <= Len(cells)
  /\ \A i, j \in 1..Len(frames) : i <= j => frames[i].end <= frames[j].end
  /\ \A j \in 1..Len(frames) : EndsAFrame(cells, StartOf(frames, j), frames[j])
RestOf(t, s, n) == Len(t) = Len(s) - n /\ \A k \in 1..Len(t) : t[k] = s[n + k]
LastEnd(frames) == IF frames = <<>> THEN 0 ELSE frames[Len(frames)].end
Current == [end |-> Len(unsent), id |-> txId, size |-> given, stale |-> stale]
WiredOutputInv ==
  /\ board \in {"W5100", "W5500"} /\ chain \in Seq(1..TxSize) /\ unsent \in Seq(TxCells)
  /\ Sn_TX_WR \in Nat /\ Sn_TX_RD \in Nat /\ atSend \in Nat
  /\ Current \in TxFrames /\ high \in Int /\ Len(unsent) <= high
  /\ Frames(waiting, unsent) /\ Begun <= Len(unsent) /\ EndsAFrame(unsent, Begun, Current)
  /\ Ahead(Sn_TX_WR, Sn_TX_RD, Len(unsent)) /\ Ahead(atSend, Sn_TX_RD, Begun)
  /\ Latest(txMem, Sn_TX_RD, unsent, high)
  /\ FramesLeaveWhole

LEMMA TxFrame ==
  ASSUME NEW f \in TxFrames
  PROVE  f.end \in Nat /\ f.id \in Nat /\ f.size \in Nat /\ f.stale \in BOOLEAN
BY DEF TxFrames

(* What EndsAFrame says of one that is not stale.                             *)
LEMMA NoneLost ==
  ASSUME NEW s, NEW from \in Nat, NEW f \in TxFrames, EndsAFrame(s, from, f), ~f.stale
  PROVE  f.size = f.end - from
BY Zenon DEF EndsAFrame

LEMMA OutputStart ==
  ASSUME WiredOutputAssumption,
         Sn_TX_WR' = 0, Sn_TX_RD' = 0, atSend' = 0, chain' = <<>>, given' = 0, stale' = FALSE,
         waiting' = <<>>, unsent' = <<>>, high' = 0, onWire' = NoFrame, txId' = 0,
         board' \in {"W5100", "W5500"}
  PROVE  WiredOutputInv'
<1>1. chain' \in Seq(1..TxSize) /\ unsent' \in Seq(TxCells) /\ waiting' \in Seq(TxFrames)
      /\ Len(unsent') = 0 /\ Len(waiting') = 0
  OBVIOUS
<1>2. Latest(txMem', Sn_TX_RD', unsent', high') /\ Frames(waiting', unsent')
  BY <1>1 DEF Latest, Frames
<1>3. Current' = [end |-> 0, id |-> 0, size |-> 0, stale |-> FALSE] /\ Begun' = 0
  BY <1>1 DEF Current, Begun
<1>4. Current' \in TxFrames /\ EndsAFrame(unsent', Begun', Current')
  BY <1>3 DEF TxFrames, EndsAFrame, AreOf
<1>5. Ahead(Sn_TX_WR', Sn_TX_RD', Len(unsent')) /\ Ahead(atSend', Sn_TX_RD', Begun')
  BY <1>1, <1>3 DEF Ahead
<1>6. FramesLeaveWhole'
  BY DEF FramesLeaveWhole, NoFrame
<1>7. QED
  BY <1>1, <1>2, <1>3, <1>4, <1>5, <1>6 DEF WiredOutputInv

LEMMA LinkOutputKeeps ==
  ASSUME WiredOutputAssumption, WiredOutputInv, NEW p \in Chains, ethernetif_linkoutput(p)
  PROVE  WiredOutputInv'
<1>1. p \in Seq(1..TxSize)
  BY DEF WiredOutputAssumption
<1>2. Current' = Current /\ Begun' = Begun /\ (FramesLeaveWhole <=> FramesLeaveWhole')
  BY DEF ethernetif_linkoutput, Current, Begun, FramesLeaveWhole
<1>3. QED
  BY <1>1, <1>2 DEF WiredOutputInv, ethernetif_linkoutput

(* Where the frame begins that is written.                                   *)
LEMMA BegunIs ==
  ASSUME Frames(waiting, unsent), Begun <= Len(unsent), unsent \in Seq(TxCells)
  PROVE  /\ Begun \in 0..Len(unsent) /\ waiting \in Seq(TxFrames)
         /\ \A j \in 1..Len(waiting) : /\ waiting[j] \in TxFrames /\ waiting[j].end \in Nat
                                       /\ waiting[j].end <= Begun
<1>1. waiting \in Seq(TxFrames) /\ Len(waiting) \in Nat /\ Len(unsent) \in Nat
  BY DEF Frames
<1>2. \A j \in 1..Len(waiting) : waiting[j] \in TxFrames /\ waiting[j].end \in Nat
  <2>1. \A j \in 1..Len(waiting) : waiting[j] \in TxFrames
    BY <1>1
  <2>2. QED
    BY <2>1, TxFrame
<1>3. CASE waiting = <<>>
  <2>1. Begun = 0 /\ Len(waiting) = 0
    BY <1>3 DEF Begun
  <2>2. QED
    BY <1>1, <2>1
<1>4. CASE waiting # <<>>
  <2>1. Begun = waiting[Len(waiting)].end /\ Len(waiting) \in 1..Len(waiting)
    BY <1>1, <1>4 DEF Begun
  <2>2. \A j \in 1..Len(waiting) : waiting[j].end <= Begun
    BY <1>1, <2>1 DEF Frames
  <2>3. QED
    BY <1>1, <1>2, <2>1, <2>2
<1>5. QED
  BY <1>3, <1>4

(* Cells that are written behind others, through a pointer that is theirs:    *)
(* of the cells that they are written over, none is among the last.          *)
LEMMA WrittenBehind ==
  ASSUME WiredOutputAssumption, NEW rd \in Nat, NEW at \in Nat, NEW mem, NEW out,
         NEW S, NEW kept \in Seq(S), NEW data \in Seq(S), Len(data) <= TxSize,
         Ahead(at, rd, Len(kept)), Sent(out, mem, at, data),
         NEW top \in Int, Latest(mem, rd, kept, top)
  PROVE  /\ out.ptr \in Nat /\ Ahead(out.ptr, rd, Len(kept) + Len(data))
         /\ Latest(out.mem, rd, kept \o data, Highest(top, Len(kept) + Len(data)))
<1>0. /\ TxSize \in Nat /\ TxSize > 0 /\ TxPointers \in Nat /\ TxPointers > 0
      /\ TxPointers % TxSize = 0 /\ rd \in Int /\ at \in Int
  BY DEF WiredOutputAssumption
<1>1. PICK n \in Nat, l \in Nat : n = Len(data) /\ l = Len(kept) /\ n <= TxSize
  <2>1. Len(data) \in Nat /\ Len(kept) \in Nat
    OBVIOUS
  <2>2. QED
    BY <2>1, Zenon
<1>2. out.ptr = (at + n) % TxPointers
  BY <1>1 DEF Sent
<1>3. ASSUME NEW a \in 0..(TxSize - 1), NEW d \in Int, d = (a - at) % TxSize
      PROVE  out.mem[a] = IF d < n THEN data[d + 1] ELSE mem[a]
  BY <1>1, <1>3 DEF Sent
<1>4. PICK s \in Seq(S) : s = kept \o data
  BY ThenCells
<1>5. /\ Len(s) = l + n /\ \A k \in 1..l : s[k] = kept[k]
      /\ \A k \in 1..n : s[l + k] = data[k]
  BY <1>1, <1>4, ThenCells
<1>6. at % TxSize = (rd + l) % TxSize
  BY <1>1 DEF Ahead
<1>7. out.ptr \in Nat /\ out.ptr % TxSize = (rd + (l + n)) % TxSize
  <2>1. PICK u \in Int, v \in Int, w \in Int : u = at + n /\ v = rd + l /\ w = v + n
    BY <1>0
  <2>2. (u % TxPointers) % TxSize = u % TxSize
    BY <1>0, PointerRemainder
  <2>3. ((at % TxSize) + n) % TxSize = (at + n) % TxSize
    <3>1. at \in Int /\ n \in Int
      BY <1>0
    <3>2. QED
      BY <1>0, <3>1, SumRemainder, Zenon
  <2>4. ((v % TxSize) + n) % TxSize = (v + n) % TxSize
    <3>1. n \in Int
      BY <1>0
    <3>2. QED
      BY <1>0, <3>1, SumRemainder, Zenon
  <2>5. out.ptr = u % TxPointers
    BY <1>2, <2>1
  <2>6. w = rd + (l + n)
    BY <1>0, <2>1
  <2>7. u % TxPointers \in Nat
    BY <1>0
  <2>8. (u % TxPointers) % TxSize = w % TxSize
    BY <1>6, <2>1, <2>2, <2>3, <2>4, Zenon
  <2>9. QED
    BY <2>5, <2>6, <2>7, <2>8, Zenon
<1>8. Distances(at, rd, l)
  <2>1. Ahead(at, rd, l) /\ l \in Int
    BY <1>6 DEF Ahead
  <2>2. QED
    BY <1>0, <2>1, WiredOutputAssumption, WrittenPlace, Zenon
<1>9. PICK h \in Int : h = Highest(top, l + n) /\ l + n <= h /\ top <= h
  BY DEF Highest
<1>10. ASSUME NEW k \in 1..Len(s), h - k < TxSize
       PROVE  out.mem[(rd + k - 1) % TxSize] = s[k]
  <2>1. PICK i \in Int : i = k - 1
    OBVIOUS
  <2>2. rd + k - 1 = rd + i
    BY <1>0, <2>1
  <2>3. PICK a \in 0..(TxSize - 1) : a = (rd + i) % TxSize
    <3>1. (rd + i) % TxSize \in 0..(TxSize - 1)
      BY <1>0
    <3>2. QED
      BY <3>1, Zenon
  <2>4. (((rd + i) % TxSize) - at) % TxSize = (i - l) % TxSize
    BY <1>8, Zenon DEF Distances
  <2>5. (a - at) % TxSize = (i - l) % TxSize
    BY <2>3, <2>4, Zenon
  <2>6. PICK c \in Int, d \in Int : c = i - l /\ d = c % TxSize
    BY <1>0
  <2>7. out.mem[a] = IF d < n THEN data[d + 1] ELSE mem[a]
    <3>1. d = (a - at) % TxSize
      BY <2>5, <2>6, Zenon
    <3>2. QED
      BY <1>3, <3>1
  <2>8. CASE k \in 1..l
    <3>1. -TxSize <= c /\ c < 0 /\ c + TxSize >= n
      BY <1>0, <1>1, <1>9, <1>10, <2>1, <2>6, <2>8
    <3>2. d = c + TxSize
      BY <1>0, <2>6, <3>1, SmallRemainder
    <3>3. ~(d < n)
      BY <1>0, <3>1, <3>2
    <3>4. top - k < TxSize /\ k \in 1..Len(kept)
      BY <1>0, <1>1, <1>9, <1>10, <2>8
    <3>5. mem[(rd + k - 1) % TxSize] = kept[k]
      BY <3>4 DEF Latest
    <3>6. mem[a] = kept[k]
      BY <2>2, <2>3, <3>5, Zenon
    <3>7. out.mem[a] = s[k]
      BY <1>5, <2>7, <2>8, <3>3, <3>6
    <3>8. QED
      BY <2>2, <2>3, <3>7, Zenon
  <2>9. CASE k \in (l + 1)..(l + n)
    <3>1. 0 <= c /\ c < TxSize /\ c < n /\ c + 1 \in 1..n /\ l + (c + 1) = k
      BY <1>0, <1>1, <2>1, <2>6, <2>9
    <3>2. d = c
      BY <1>0, <2>6, <3>1, SmallRemainder
    <3>3. s[l + (c + 1)] = data[c + 1]
      BY <1>5, <3>1
    <3>4. out.mem[a] = s[k]
      BY <2>7, <3>1, <3>2, <3>3
    <3>5. QED
      BY <2>2, <2>3, <3>4, Zenon
  <2>10. QED
    BY <1>5, <2>8, <2>9
<1>11. Latest(out.mem, rd, s, h)
  BY <1>10 DEF Latest
<1>12. QED
  BY <1>1, <1>4, <1>7, <1>9, <1>11 DEF Ahead

(* Cells that stay, and others behind them, are the frames that wait as long  *)
(* as those end before.                                                      *)
LEMMA FramesStay ==
  ASSUME NEW frames, NEW s \in Seq(TxCells), NEW t \in Seq(TxCells), NEW m \in 0..Len(s),
         Frames(frames, s), \A j \in 1..Len(frames) : frames[j].end <= m,
         m <= Len(t), \A k \in 1..m : t[k] = s[k]
  PROVE  Frames(frames, t)
<1>1. /\ frames \in Seq(TxFrames) /\ Len(frames) \in Nat /\ Len(t) \in Nat
      /\ \A j \in 1..Len(frames) : frames[j] \in TxFrames
  BY DEF Frames
<1>2. \A j \in 1..Len(frames) : frames[j].end \in Nat /\ frames[j].end <= Len(t)
  BY <1>1 DEF TxFrames
<1>3. ASSUME NEW j \in 1..Len(frames)
      PROVE  EndsAFrame(t, StartOf(frames, j), frames[j])
  <2>1. PICK from \in Nat, end \in Nat : from = StartOf(frames, j) /\ end = frames[j].end /\ end <= m
    <3>1. j # 1 => j - 1 \in 1..Len(frames)
      BY <1>1
    <3>2. StartOf(frames, j) \in Nat
      BY <1>2, <3>1 DEF StartOf
    <3>3. QED
      BY <1>2, <3>2
  <2>2. EndsAFrame(s, from, frames[j])
    BY <2>1 DEF Frames
  <2>3. ASSUME NEW i \in (from + 1)..end
        PROVE  t[i] = <<frames[j].id, frames[j].size - frames[j].end + i>>
    <3>1. i \in 1..m
      BY <2>1
    <3>2. s[i] = <<frames[j].id, frames[j].size - frames[j].end + i>>
      BY <2>1, <2>2 DEF EndsAFrame, AreOf
    <3>3. QED
      BY <3>1, <3>2
  <2>4. QED
    BY <2>1, <2>2, <2>3 DEF EndsAFrame, AreOf
<1>4. QED
  BY <1>1, <1>2, <1>3 DEF Frames

(* A pbuf is written behind what is kept: all that was written before, or,    *)
(* behind an old pointer, what was there when the frame began.               *)
LEMMA OutputKeeps ==
  ASSUME WiredOutputAssumption, WiredOutputInv, low_level_output
  PROVE  WiredOutputInv'
<1>0. /\ TxSize \in Nat /\ TxSize > 0 /\ Sn_TX_WR \in Nat /\ Sn_TX_RD \in Nat /\ atSend \in Nat
      /\ unsent \in Seq(TxCells) /\ Len(unsent) \in Nat /\ board \in {"W5100", "W5500"}
      /\ chain \in Seq(1..TxSize) /\ chain # <<>> /\ high \in Int /\ Len(unsent) <= high
  BY DEF WiredOutputAssumption, WiredOutputInv, low_level_output
<1>1. txId \in Nat /\ given \in Nat /\ stale \in BOOLEAN
  BY DEF WiredOutputInv, Current, TxFrames
<1>2. PICK n \in 1..TxSize : n = chain[1]
  BY <1>0
<1>3. PICK begun \in 0..Len(unsent) : begun = Begun
  BY BegunIs DEF WiredOutputInv
<1>4. PICK data \in Seq(TxCells) : data = [i \in 1..chain[1] |-> <<txId, given + i>>]
  <2>1. \A i \in 1..n : <<txId, given + i>> \in TxCells
    BY <1>1 DEF TxCells
  <2>2. [i \in 1..n |-> <<txId, given + i>>] \in Seq(TxCells)
    BY <1>0, <2>1
  <2>3. QED
    BY <1>2, <2>2, Zenon
<1>5. Len(data) = n /\ \A i \in 1..n : data[i] = <<txId, given + i>>
  BY <1>0, <1>2, <1>4
<1>6. PICK old \in BOOLEAN :
        LET kept == IF old THEN SubSeq(unsent, 1, Begun) ELSE unsent
            out == send_data_processing([mem |-> txMem, ptr |-> IF old THEN atSend ELSE Sn_TX_WR],
                                        data)
        IN /\ chain' = Tail(chain) /\ txMem' = out.mem /\ Sn_TX_WR' = out.ptr
           /\ unsent' = kept \o data /\ high' = Highest(high, Len(unsent'))
           /\ given' = given + chain[1] /\ stale' = (stale \/ old)
           /\ UNCHANGED <<board, Sn_TX_RD, atSend, waiting, onWire, txId>>
  BY <1>4 DEF low_level_output
<1>7. PICK kept \in Seq(TxCells), l \in begun..Len(unsent) :
        /\ kept = IF old THEN SubSeq(unsent, 1, Begun) ELSE unsent
        /\ Len(kept) = l /\ l = (IF old THEN begun ELSE Len(unsent))
        /\ \A k \in 1..l : kept[k] = unsent[k]
  <2>1. CASE ~old
    BY <1>0, <1>3, <2>1
  <2>2. CASE old
    <3>1. SubSeq(unsent, 1, begun) = [k \in 1..begun |-> unsent[k]]
      BY <1>0, FirstCells
    <3>2. \A k \in 1..begun : unsent[k] \in TxCells
      BY <1>0
    <3>3. [k \in 1..begun |-> unsent[k]] \in Seq(TxCells)
      BY <3>2
    <3>4. PICK f \in Seq(TxCells) : f = [k \in 1..begun |-> unsent[k]]
      BY <3>3
    <3>5. Len(f) = begun /\ \A k \in 1..begun : f[k] = unsent[k]
      BY <3>4
    <3>6. f = SubSeq(unsent, 1, Begun)
      BY <1>3, <3>1, <3>4, Zenon
    <3>7. begun \in begun..Len(unsent)
      BY <1>0
    <3>8. QED
      BY <2>2, <3>5, <3>6, <3>7
  <2>3. QED
    BY <2>1, <2>2
<1>8. PICK at \in Nat : at = IF old THEN atSend ELSE Sn_TX_WR
  BY <1>0
<1>9. PICK out : out = send_data_processing([mem |-> txMem, ptr |-> at], data)
  OBVIOUS
<1>10. /\ chain' = Tail(chain) /\ txMem' = out.mem /\ Sn_TX_WR' = out.ptr
       /\ unsent' = kept \o data /\ high' = Highest(high, Len(unsent'))
       /\ given' = given + n /\ stale' = (stale \/ old)
       /\ UNCHANGED <<board, Sn_TX_RD, atSend, waiting, onWire, txId>>
  BY <1>2, <1>6, <1>7, <1>8, <1>9, Zenon
<1>11. Sent(out, txMem, at, data)
  BY <1>0, <1>2, <1>5, <1>9, WiredOutputAssumption, SendsAround
<1>12. Ahead(at, Sn_TX_RD, Len(kept))
  BY <1>3, <1>7, <1>8 DEF WiredOutputInv
<1>13. Latest(txMem, Sn_TX_RD, kept, high)
  <2>1. Latest(txMem, Sn_TX_RD, unsent, high)
    BY DEF WiredOutputInv
  <2>2. \A k \in 1..l : k \in 1..Len(unsent)
    OBVIOUS
  <2>3. QED
    BY <1>7, <2>1, <2>2 DEF Latest
<1>14. PICK s \in Seq(TxCells) : s = kept \o data
  BY ThenCells
<1>15. /\ Len(s) = l + n /\ \A k \in 1..l : s[k] = unsent[k]
       /\ \A k \in 1..n : s[l + k] = <<txId, given + k>>
  <2>1. /\ Len(s) = l + n /\ \A k \in 1..l : s[k] = kept[k]
        /\ \A k \in 1..n : s[l + k] = data[k]
    BY <1>5, <1>7, <1>14, ThenCells
  <2>2. QED
    BY <1>5, <1>7, <2>1
<1>16. /\ out.ptr \in Nat /\ Ahead(out.ptr, Sn_TX_RD, Len(s))
       /\ Latest(out.mem, Sn_TX_RD, s, Highest(high, Len(s)))
  <2>1. Len(data) <= TxSize
    BY <1>0, <1>2, <1>5
  <2>2. /\ out.ptr \in Nat /\ Ahead(out.ptr, Sn_TX_RD, Len(kept) + Len(data))
        /\ Latest(out.mem, Sn_TX_RD, kept \o data, Highest(high, Len(kept) + Len(data)))
    BY <1>0, <1>11, <1>12, <1>13, <2>1, WiredOutputAssumption, WrittenBehind
  <2>3. Len(kept) + Len(data) = Len(s)
    BY <1>5, <1>7, <1>15
  <2>4. QED
    BY <1>14, <2>2, <2>3
<1>17. unsent' = s /\ Begun' = begun /\ begun <= Len(s) /\ high' \in Int /\ Len(s) <= high'
  <2>1. unsent' = s /\ high' = Highest(high, Len(s))
    BY <1>10, <1>14, Zenon
  <2>2. Begun' = begun
    BY <1>3, <1>10 DEF Begun
  <2>3. PICK m \in Nat : m = Len(s) /\ begun <= m
    BY <1>0, <1>2, <1>7, <1>15
  <2>4. Highest(high, m) \in Int /\ m <= Highest(high, m)
    BY <1>0 DEF Highest
  <2>5. QED
    BY <2>1, <2>2, <2>3, <2>4
<1>18. Frames(waiting', unsent')
  <2>1. Frames(waiting, unsent) /\ \A j \in 1..Len(waiting) : waiting[j].end <= begun
    BY <1>3, BegunIs DEF WiredOutputInv
  <2>2. \A k \in 1..begun : s[k] = unsent[k]
    BY <1>7, <1>15
  <2>3. QED
    BY <1>0, <1>10, <1>17, <2>1, <2>2, FramesStay
<1>19. PICK f : /\ f = Current' /\ f \in TxFrames
                /\ f.end = l + n /\ f.id = txId /\ f.size = given + n
                /\ (~f.stale => ~stale /\ ~old)
  <2>1. /\ Current'.end = Len(unsent)' /\ Current'.id = txId' /\ Current'.size = given'
        /\ Current'.stale = stale'
        /\ Current' = [end |-> Len(unsent)', id |-> txId', size |-> given', stale |-> stale']
    BY DEF Current
  <2>2. Len(unsent)' = l + n /\ txId' = txId /\ given' = given + n
    BY <1>10, <1>15, <1>17
  <2>3. (stale \/ old) \in BOOLEAN /\ stale' = (stale \/ old)
    BY <1>1, <1>10, Zenon
  <2>4. PICK end \in Nat, size \in Nat : end = Len(unsent)' /\ size = given'
    BY <1>1, <2>2
  <2>5. [end |-> end, id |-> txId, size |-> size, stale |-> stale'] \in TxFrames
    <3>1. stale' \in BOOLEAN
      BY <2>3, Zenon
    <3>2. QED
      BY <1>1, <3>1 DEF TxFrames
  <2>6. Current' \in TxFrames
    BY <2>1, <2>2, <2>4, <2>5, Zenon
  <2>7. ~Current'.stale => ~stale /\ ~old
    BY <2>1, <2>3, Zenon
  <2>8. QED
    BY <2>1, <2>2, <2>6, <2>7
<1>20. PICK end \in Nat, size \in Nat : end = l + n /\ size = given + n
  BY <1>1
<1>21. EndsAFrame(s, begun, f)
  <2>1. EndsAFrame(unsent, begun, Current)
    BY <1>3 DEF WiredOutputInv
  <2>2. ASSUME NEW i \in (begun + 1)..end PROVE s[i] = <<txId, size - end + i>>
    <3>1. CASE i <= l
      <4>1. ~old /\ l = Len(unsent) /\ i \in 1..l /\ i \in (begun + 1)..Len(unsent)
        BY <1>7, <3>1
      <4>2. unsent[i] = <<txId, given - Len(unsent) + i>>
        BY <2>1, <4>1 DEF EndsAFrame, AreOf, Current
      <4>3. given - Len(unsent) + i = size - end + i
        BY <1>1, <1>20, <4>1
      <4>4. QED
        BY <1>15, <4>1, <4>2, <4>3
    <3>2. CASE i > l
      <4>1. PICK k \in 1..n : i = l + k
        <5>1. i - l \in 1..n /\ i = l + (i - l)
          BY <1>20, <3>2
        <5>2. QED
          BY <5>1
      <4>2. s[i] = <<txId, given + k>>
        BY <1>15, <4>1
      <4>3. given + k = size - end + i
        BY <1>1, <1>20, <4>1
      <4>4. QED
        BY <4>2, <4>3
    <3>3. QED
      BY <3>1, <3>2
  <2>3. ASSUME ~f.stale PROVE size = end - begun
    <3>1. ~stale /\ ~old
      BY <1>19, <2>3
    <3>2. Current.size = given /\ Current.end = Len(unsent)
      BY DEF Current
    <3>3. Current.stale = stale
      BY DEF Current
    <3>4. Current.size = Current.end - begun
      <4>1. Current \in TxFrames /\ begun \in Nat
        BY <1>0 DEF WiredOutputInv
      <4>2. ~Current.stale
        BY <3>1, <3>3, Zenon
      <4>3. QED
        BY <2>1, <4>1, <4>2, NoneLost, Zenon
    <3>5. given = l - begun
      BY <1>7, <3>1, <3>2, <3>4
    <3>6. QED
      BY <1>1, <1>20, <3>5
  <2>4. f.end = end /\ f.size = size /\ f.id = txId
    BY <1>19, <1>20, Zenon
  <2>5. AreOf(s, begun, f.end, f.id, f.size)
    <3>1. AreOf(s, begun, end, txId, size)
      BY <2>2, Zenon DEF AreOf
    <3>2. QED
      BY <2>4, <3>1, Zenon
  <2>6. f.stale \/ f.size = f.end - begun
    BY <2>3, <2>4, Zenon
  <2>7. QED
    BY <2>5, <2>6, Zenon DEF EndsAFrame
<1>22. chain' \in Seq(1..TxSize)
  BY <1>0, <1>10
<1>23. Ahead(atSend', Sn_TX_RD', Begun') /\ (FramesLeaveWhole => FramesLeaveWhole')
  BY <1>3, <1>10, <1>17 DEF WiredOutputInv, FramesLeaveWhole
<1>24. QED
  BY <1>0, <1>10, <1>16, <1>17, <1>18, <1>19, <1>21, <1>22, <1>23 DEF WiredOutputInv

(* The frame that was written waits from now on.                             *)
LEMMA EndOutputKeeps ==
  ASSUME WiredOutputAssumption, WiredOutputInv, low_level_endoutput
  PROVE  WiredOutputInv'
<1>0. unsent \in Seq(TxCells) /\ Len(unsent) \in Nat /\ Current \in TxFrames
      /\ TxIds \in Nat /\ TxIds > 0
  BY DEF WiredOutputAssumption, WiredOutputInv
<1>1. PICK w \in Seq(TxFrames), f \in TxFrames, l \in Nat : w = waiting /\ f = Current /\ l = Len(unsent)
  BY <1>0 DEF WiredOutputInv, Frames
<1>2. /\ Append(w, f) \in Seq(TxFrames) /\ Len(Append(w, f)) = Len(w) + 1
      /\ \A i \in 1..Len(w) : Append(w, f)[i] = w[i]
      /\ Append(w, f)[Len(w) + 1] = f
  OBVIOUS
<1>3. PICK v \in Seq(TxFrames) : v = Append(w, f)
  BY <1>2
<1>4. /\ Len(v) = Len(w) + 1 /\ v[Len(w) + 1] = f /\ Len(w) \in Nat
      /\ \A i \in 1..Len(w) : v[i] = w[i]
  BY <1>2, <1>3
<1>5. f.end = l /\ f.end \in Nat
  BY <1>0, <1>1 DEF Current
<1>6. /\ \A i \in 1..Len(w) : w[i] \in TxFrames /\ w[i].end \in Nat /\ w[i].end <= l
      /\ \A i, j \in 1..Len(w) : i <= j => w[i].end <= w[j].end
      /\ \A j \in 1..Len(w) : EndsAFrame(unsent, StartOf(w, j), w[j])
  <2>1. Frames(w, unsent)
    BY <1>1 DEF WiredOutputInv
  <2>2. \A i \in 1..Len(w) : w[i] \in TxFrames
    BY <1>4
  <2>3. QED
    BY <1>1, <2>1, <2>2, TxFrame DEF Frames
<1>7. Begun = StartOf(v, Len(v))
  <2>1. CASE w = <<>>
    <3>1. Len(w) = 0
      BY <2>1
    <3>2. QED
      BY <1>1, <1>4, <2>1, <3>1 DEF Begun, StartOf
  <2>2. CASE w # <<>>
    <3>1. Len(w) \in 1..Len(w) /\ Len(v) # 1 /\ Len(v) - 1 = Len(w)
      BY <1>4, <2>2
    <3>2. v[Len(v) - 1] = w[Len(w)]
      BY <1>4, <3>1
    <3>3. QED
      BY <1>1, <2>2, <3>1, <3>2 DEF Begun, StartOf
  <2>3. QED
    BY <2>1, <2>2
<1>8. Frames(v, unsent)
  <2>1. \A i \in 1..Len(v) : v[i].end <= l
    BY <1>4, <1>5, <1>6
  <2>2. ASSUME NEW i \in 1..Len(v), NEW j \in 1..Len(v), i <= j PROVE v[i].end <= v[j].end
    <3>1. CASE j = Len(w) + 1
      BY <1>4, <1>5, <2>1, <3>1
    <3>2. CASE j \in 1..Len(w)
      <4>1. i \in 1..Len(w)
        BY <2>2, <3>2
      <4>2. v[i] = w[i] /\ v[j] = w[j] /\ w[i].end <= w[j].end
        BY <1>4, <1>6, <2>2, <3>2, <4>1, Zenon
      <4>3. QED
        BY <4>2, Zenon
    <3>3. QED
      BY <1>4, <3>1, <3>2
  <2>3. ASSUME NEW j \in 1..Len(v) PROVE EndsAFrame(unsent, StartOf(v, j), v[j])
    <3>1. CASE j = Len(v)
      BY <1>1, <1>4, <1>7, <3>1 DEF WiredOutputInv
    <3>2. CASE j # Len(v)
      <4>1. j \in 1..Len(w) /\ (j # 1 => j - 1 \in 1..Len(w))
        BY <1>4, <3>2
      <4>2. v[j] = w[j] /\ StartOf(v, j) = StartOf(w, j)
        BY <1>4, <4>1 DEF StartOf
      <4>3. QED
        BY <1>6, <4>1, <4>2
    <3>3. QED
      BY <3>1, <3>2
  <2>4. QED
    BY <1>1, <2>1, <2>2, <2>3 DEF Frames
<1>9. /\ waiting' = v /\ atSend' = Sn_TX_WR /\ given' = 0 /\ stale' = FALSE
      /\ txId' = (txId + 1) % TxIds
      /\ UNCHANGED <<board, txMem, Sn_TX_WR, Sn_TX_RD, chain, unsent, high, onWire>>
  BY <1>1, <1>3 DEF low_level_endoutput, Current
<1>10. Begun' = l
  <2>1. v # <<>>
    BY <1>4
  <2>2. QED
    BY <1>4, <1>5, <1>9, <2>1 DEF Begun
<1>11. txId' \in Nat
  <2>1. txId + 1 \in Int
    BY <1>0 DEF Current, TxFrames
  <2>2. QED
    BY <1>0, <1>9, <2>1
<1>12. Current' = [end |-> l, id |-> txId', size |-> 0, stale |-> FALSE]
  BY <1>1, <1>9 DEF Current
<1>13. Current' \in TxFrames /\ EndsAFrame(unsent', Begun', Current')
  BY <1>10, <1>11, <1>12 DEF TxFrames, EndsAFrame, AreOf
<1>14. Ahead(atSend', Sn_TX_RD', Begun') /\ (FramesLeaveWhole => FramesLeaveWhole')
  BY <1>1, <1>9, <1>10 DEF WiredOutputInv, FramesLeaveWhole
<1>15. QED
  BY <1>1, <1>8, <1>9, <1>10, <1>13, <1>14 DEF WiredOutputInv

(* The frames but the first, as they lie once that has left.                 *)
Shift(w, n) == [i \in 1..(Len(w) - 1) |-> [w[i + 1] EXCEPT !.end = @ - n]]

LEMMA FrameShifts ==
  ASSUME NEW f \in TxFrames, NEW n \in Nat, n <= f.end
  PROVE  /\ [f EXCEPT !.end = @ - n] \in TxFrames
         /\ [f EXCEPT !.end = @ - n].end = f.end - n
         /\ [f EXCEPT !.end = @ - n].id = f.id
         /\ [f EXCEPT !.end = @ - n].size = f.size
         /\ [f EXCEPT !.end = @ - n].stale = f.stale
<1>1. PICK a \in Nat, b \in Nat, c \in Nat, d \in BOOLEAN :
        f = [end |-> a, id |-> b, size |-> c, stale |-> d]
  BY DEF TxFrames
<1>2. a - n \in Nat
  BY <1>1
<1>3. [f EXCEPT !.end = @ - n] = [end |-> a - n, id |-> b, size |-> c, stale |-> d]
  BY <1>1
<1>4. QED
  BY <1>1, <1>2, <1>3 DEF TxFrames

LEMMA ShiftedFrames ==
  ASSUME NEW w \in Seq(TxFrames), w # <<>>, NEW n \in Nat,
         \A i \in 1..Len(w) : n <= w[i].end
  PROVE  /\ Shift(w, n) \in Seq(TxFrames) /\ Len(Shift(w, n)) = Len(w) - 1
         /\ \A i \in 1..(Len(w) - 1) :
              /\ Shift(w, n)[i].end = w[i + 1].end - n /\ Shift(w, n)[i].id = w[i + 1].id
              /\ Shift(w, n)[i].size = w[i + 1].size /\ Shift(w, n)[i].stale = w[i + 1].stale
<1> DEFINE Moves(f) == [f EXCEPT !.end = @ - n]
<1>1. PICK m \in Nat : m = Len(w) - 1
  <2>1. Len(w) - 1 \in Nat
    OBVIOUS
  <2>2. QED
    BY <2>1, Zenon
<1>2. ASSUME NEW i \in 1..m
      PROVE  /\ Moves(w[i + 1]) \in TxFrames /\ Moves(w[i + 1]).end = w[i + 1].end - n
             /\ Moves(w[i + 1]).id = w[i + 1].id /\ Moves(w[i + 1]).size = w[i + 1].size
             /\ Moves(w[i + 1]).stale = w[i + 1].stale
  <2>1. i + 1 \in 1..Len(w)
    BY <1>1
  <2>2. w[i + 1] \in TxFrames /\ n <= w[i + 1].end
    BY <2>1
  <2>3. QED
    BY <2>2, FrameShifts, Zenon
<1>3. Shift(w, n) = [i \in 1..m |-> Moves(w[i + 1])]
  BY <1>1, Zenon DEF Shift
<1> HIDE DEF Moves
<1>4. [i \in 1..m |-> Moves(w[i + 1])] \in Seq(TxFrames)
  BY <1>2
<1>5. PICK v \in Seq(TxFrames) : v = [i \in 1..m |-> Moves(w[i + 1])] /\ v = Shift(w, n)
  BY <1>3, <1>4, Zenon
<1>6. Len(v) = m /\ \A i \in 1..m : v[i] = Moves(w[i + 1])
  BY <1>5
<1>7. \A i \in 1..m : /\ v[i].end = w[i + 1].end - n /\ v[i].id = w[i + 1].id
                      /\ v[i].size = w[i + 1].size /\ v[i].stale = w[i + 1].stale
  BY <1>2, <1>6, Zenon
<1>8. QED
  BY <1>1, <1>5, <1>6, <1>7, Zenon

(* The end of a frame lies where it did, n cells further on.                 *)
LEMMA EndMoves ==
  ASSUME NEW s, NEW t, NEW n \in Nat, Len(s) \in Nat, RestOf(t, s, n),
         NEW from \in Nat, n <= from,
         NEW f \in TxFrames, f.end <= Len(s), EndsAFrame(s, from, f),
         NEW g, g.end = f.end - n, g.id = f.id, g.size = f.size, g.stale = f.stale
  PROVE  EndsAFrame(t, from - n, g)
<1>1. PICK end \in Nat, size \in Nat, l \in Nat :
        end = f.end /\ size = f.size /\ l = Len(s) /\ end <= l
  BY TxFrame, Zenon
<1>2. PICK b \in Int, c \in Int : b = from - n /\ c = end - n
  <2>1. from - n \in Int /\ end - n \in Int
    BY <1>1
  <2>2. QED
    BY <2>1, Zenon
<1>3. ASSUME NEW i \in (b + 1)..c PROVE t[i] = <<f.id, size - c + i>>
  <2>1. PICK k \in (from + 1)..end : k = n + i
    <3>1. n + i \in (from + 1)..end
      BY <1>2
    <3>2. QED
      BY <3>1, Zenon
  <2>2. s[k] = <<f.id, size - end + k>>
    <3>1. AreOf(s, from, end, f.id, size)
      BY <1>1, Zenon DEF EndsAFrame
    <3>2. QED
      BY <3>1 DEF AreOf
  <2>3. t[i] = s[n + i]
    <3>1. i \in 1..(l - n)
      BY <1>1, <1>2
    <3>2. QED
      BY <1>1, <3>1, Zenon DEF RestOf
  <2>4. size - end + k = size - c + i
    BY <1>2, <2>1
  <2>5. QED
    BY <2>1, <2>2, <2>3, <2>4, Zenon
<1>4. AreOf(t, b, c, f.id, size)
  BY <1>3, Zenon DEF AreOf
<1>5. ASSUME ~f.stale PROVE size = c - b
  <2>1. f.size = f.end - from
    BY <1>5, NoneLost, Zenon
  <2>2. size = end - from
    BY <1>1, <2>1, Zenon
  <2>3. QED
    BY <1>2, <2>2
<1>6. g.end = c /\ g.id = f.id /\ g.size = size /\ g.stale = f.stale /\ from - n = b
  BY <1>1, <1>2, Zenon
<1>7. AreOf(t, from - n, g.end, g.id, g.size)
  BY <1>4, <1>6, Zenon
<1>8. g.stale \/ g.size = g.end - (from - n)
  BY <1>5, <1>6, Zenon
<1>9. QED
  BY <1>7, <1>8, Zenon DEF EndsAFrame

(* When the first of the frames leaves, the others lie as they did.          *)
LEMMA FirstLeaves ==
  ASSUME NEW w \in Seq(TxFrames), w # <<>>, NEW s \in Seq(TxCells), Frames(w, s),
         NEW n \in Nat, n <= Len(s), n = w[1].end,
         NEW t \in Seq(TxCells), RestOf(t, s, n)
  PROVE  Frames(Shift(w, n), t) /\ LastEnd(Shift(w, n)) = LastEnd(w) - n
<1>1. PICK m \in Nat, ls \in Nat : /\ m + 1 = Len(w) /\ m = Len(w) - 1
                                   /\ ls = Len(s) /\ Len(t) = ls - n /\ n <= ls
  <2>1. PICK m \in Nat : m + 1 = Len(w) /\ m = Len(w) - 1
    <3>1. Len(w) - 1 \in Nat /\ (Len(w) - 1) + 1 = Len(w)
      OBVIOUS
    <3>2. QED
      BY <3>1, Zenon
  <2>2. PICK ls \in Nat : ls = Len(s)
    OBVIOUS
  <2>3. Len(t) = ls - n /\ n <= ls
    BY <2>2 DEF RestOf
  <2>4. QED
    BY <2>1, <2>2, <2>3
<1>2. /\ \A i \in 1..Len(w) : w[i] \in TxFrames /\ w[i].end \in Nat /\ w[i].end <= ls /\ n <= w[i].end
      /\ \A i, j \in 1..Len(w) : i <= j => w[i].end <= w[j].end
  <2>1. 1 \in 1..Len(w) /\ \A i \in 1..Len(w) : 1 <= i
    BY <1>1
  <2>2. \A i \in 1..Len(w) : w[i] \in TxFrames
    OBVIOUS
  <2>3. \A i \in 1..Len(w) : w[i].end \in Nat
    BY <2>2, TxFrame
  <2>4. /\ \A i \in 1..Len(w) : w[i].end <= ls
        /\ \A i, j \in 1..Len(w) : i <= j => w[i].end <= w[j].end
    BY <1>1 DEF Frames
  <2>5. \A i \in 1..Len(w) : n <= w[i].end
    BY <2>1, <2>4
  <2>6. QED
    BY <2>2, <2>3, <2>4, <2>5
<1>3. PICK v \in Seq(TxFrames) :
        /\ v = Shift(w, n) /\ Len(v) = m
        /\ \A i \in 1..m : /\ v[i].end = w[i + 1].end - n /\ v[i].id = w[i + 1].id
                           /\ v[i].size = w[i + 1].size /\ v[i].stale = w[i + 1].stale
  <2>1. n \in Nat /\ \A i \in 1..Len(w) : n <= w[i].end
    BY <1>2
  <2>2. QED
    BY <1>1, <2>1, ShiftedFrames, Zenon
<1>4. ASSUME NEW i \in 1..m PROVE i + 1 \in 1..Len(w)
  BY <1>1
<1>5. Len(v) = m /\ v = Shift(w, n)
  BY <1>3
<1>6. ASSUME NEW i \in 1..m
      PROVE  /\ i + 1 \in 1..Len(w) /\ v[i].end = w[i + 1].end - n /\ v[i].id = w[i + 1].id
             /\ v[i].size = w[i + 1].size /\ v[i].stale = w[i + 1].stale
  BY <1>3, <1>4, Zenon
<1>7. ASSUME NEW i \in 1..m PROVE v[i].end <= Len(t)
  <2>1. PICK e, d : e \in Nat /\ e = w[i + 1].end /\ e <= ls /\ d = v[i].end /\ d = e - n
    BY <1>2, <1>6, Zenon
  <2>2. d <= Len(t)
    BY <1>1, <2>1
  <2>3. QED
    BY <2>1, <2>2, Zenon
<1>8. ASSUME NEW i \in 1..m, NEW j \in 1..m, i <= j PROVE v[i].end <= v[j].end
  <2>1. i + 1 \in 1..Len(w) /\ j + 1 \in 1..Len(w) /\ i + 1 <= j + 1
    BY <1>6, <1>8
  <2>2. w[i + 1].end <= w[j + 1].end /\ w[i + 1].end \in Nat /\ w[j + 1].end \in Nat
    BY <1>2, <2>1
  <2>3. v[i].end = w[i + 1].end - n /\ v[j].end = w[j + 1].end - n
    BY <1>6
  <2>4. QED
    BY <2>2, <2>3
<1>9. ASSUME NEW j \in 1..m PROVE EndsAFrame(t, StartOf(v, j), v[j])
  <2>1. j + 1 \in 1..Len(w) /\ j + 1 # 1 /\ (j + 1) - 1 = j /\ j \in 1..Len(w)
    BY <1>1
  <2>2. PICK from \in Nat : from = w[j].end /\ n <= from
    BY <1>2, <2>1, Zenon
  <2>3. EndsAFrame(s, from, w[j + 1])
    <3>1. StartOf(w, j + 1) = from
      BY <2>1, <2>2, Zenon DEF StartOf
    <3>2. EndsAFrame(s, StartOf(w, j + 1), w[j + 1])
      BY <2>1, Zenon DEF Frames
    <3>3. QED
      BY <3>1, <3>2, Zenon
  <2>4. StartOf(v, j) = from - n
    <3>1. CASE j = 1
      <4>1. from = n /\ StartOf(v, j) = 0
        BY <2>2, <3>1, Zenon DEF StartOf
      <4>2. from - n = 0
        BY <2>2, <4>1
      <4>3. QED
        BY <4>1, <4>2, Zenon
    <3>2. CASE j # 1
      <4>1. j - 1 \in 1..m /\ (j - 1) + 1 = j
        BY <3>2
      <4>2. v[j - 1].end = w[j].end - n
        BY <1>6, <4>1, Zenon
      <4>3. QED
        BY <2>2, <3>2, <4>2, Zenon DEF StartOf
    <3>3. QED
      BY <3>1, <3>2
  <2>5. w[j + 1] \in TxFrames /\ w[j + 1].end <= Len(s) /\ Len(s) \in Nat
    BY <1>1, <1>2, <2>1, Zenon
  <2>6. EndsAFrame(t, from - n, v[j])
    BY <1>6, <2>2, <2>3, <2>5, EndMoves, Zenon
  <2>7. QED
    BY <2>4, <2>6, Zenon
<1>10. Frames(v, t)
  BY <1>5, <1>7, <1>8, <1>9, Zenon DEF Frames
<1>11. LastEnd(v) = LastEnd(w) - n
  <2>1. LastEnd(w) = w[m + 1].end /\ m + 1 \in 1..Len(w)
    BY <1>1 DEF LastEnd
  <2>2. CASE m = 0
    <3>1. v = <<>>
      BY <1>5, <2>2
    <3>2. LastEnd(v) = 0 /\ LastEnd(w) = n
      <4>1. 0 + 1 = 1
        OBVIOUS
      <4>2. QED
        BY <2>1, <2>2, <3>1, <4>1, Zenon DEF LastEnd
    <3>3. QED
      BY <3>2
  <2>3. CASE m # 0
    <3>1. v # <<>> /\ m \in 1..m
      <4>1. Len(<<>>) = 0
        OBVIOUS
      <4>2. v # <<>>
        BY <1>5, <2>3, <4>1, Zenon
      <4>3. m \in 1..m
        BY <2>3
      <4>4. QED
        BY <4>2, <4>3
    <3>2. LastEnd(v) = v[m].end
      BY <1>5, <3>1, Zenon DEF LastEnd
    <3>3. v[m].end = w[m + 1].end - n
      BY <1>6, <3>1, Zenon
    <3>4. QED
      BY <2>1, <3>2, <3>3
  <2>4. QED
    BY <2>2, <2>3
<1>12. QED
  BY <1>5, <1>10, <1>11

(* A pointer that went round still points to the same cell.                   *)
LEMMA SameTxCell ==
  ASSUME WiredOutputAssumption, NEW a \in Int, NEW c \in Int
  PROVE  ((a % TxPointers) + c) % TxSize = (a + c) % TxSize
<1>1. /\ TxSize \in Nat /\ TxSize > 0 /\ TxPointers \in Nat /\ TxPointers > 0
      /\ TxPointers % TxSize = 0
  BY DEF WiredOutputAssumption
<1>2. QED
  BY <1>1, MovedPlace

(* Where a pointer is before the other, once that has moved over n cells.     *)
LEMMA StillAhead ==
  ASSUME WiredOutputAssumption, NEW wr, NEW rd \in Nat, NEW l \in Int, NEW n \in Nat, Ahead(wr, rd, l)
  PROVE  Ahead(wr, (rd + n) % TxPointers, l - n) /\ (rd + n) % TxPointers \in Nat
<1>0. /\ TxSize \in Nat /\ TxSize > 0 /\ TxPointers \in Nat /\ TxPointers > 0
      /\ TxPointers % TxSize = 0
  BY DEF WiredOutputAssumption
<1>1. PICK a \in Int, c \in Int : a = rd + n /\ c = l - n /\ a + c = rd + l
  OBVIOUS
<1>2. ((a % TxPointers) + c) % TxSize = (a + c) % TxSize
  BY <1>0, MovedPlace
<1>3. a % TxPointers \in Nat
  BY <1>0
<1>4. QED
  BY <1>1, <1>2, <1>3 DEF Ahead

(* A frame that leaves is read from where it was written.                    *)
LEMMA LeavesKeeps ==
  ASSUME WiredOutputAssumption, WiredOutputInv, FrameLeaves
  PROVE  WiredOutputInv'
<1>0. /\ TxSize \in Nat /\ TxSize > 0 /\ TxPointers \in Nat /\ TxPointers > 0
      /\ TxPointers % TxSize = 0 /\ Sn_TX_RD \in Nat
      /\ unsent \in Seq(TxCells) /\ Len(unsent) \in Nat /\ high \in Int /\ Len(unsent) <= high
      /\ waiting \in Seq(TxFrames) /\ Len(waiting) \in Nat /\ waiting # <<>> /\ 1 \in 1..Len(waiting)
  BY DEF WiredOutputAssumption, WiredOutputInv, Frames, FrameLeaves
<1>1. PICK f \in TxFrames, n \in 0..Len(unsent) : f = waiting[1] /\ n = f.end /\ n <= Begun
  <2>1. waiting[1] \in TxFrames /\ waiting[1].end \in Nat /\ waiting[1].end <= Begun
        /\ Begun \in 0..Len(unsent)
    BY <1>0, BegunIs DEF WiredOutputInv
  <2>2. QED
    BY <1>0, <2>1
<1> DEFINE left == [i \in 1..n |-> txMem[(Sn_TX_RD + i - 1) % TxSize]]
           w == Shift(waiting, n)
<1>2. /\ onWire' = [left |-> left, over |-> high - TxSize, of |-> f]
      /\ Sn_TX_RD' = (Sn_TX_RD + n) % TxPointers
      /\ unsent' = SubSeq(unsent, n + 1, Len(unsent)) /\ high' = high - n
      /\ waiting' = w
      /\ UNCHANGED <<board, txMem, Sn_TX_WR, atSend, chain, given, stale, txId>>
  BY <1>1 DEF FrameLeaves, Shift
<1> HIDE DEF w
<1>3. FramesLeaveWhole'
  <2>1. EndsAFrame(unsent, 0, f)
    BY <1>0, <1>1 DEF WiredOutputInv, Frames, StartOf
  <2>2. Len(left) = n /\ f.size \in Nat
    BY <1>1 DEF TxFrames
  <2>3. ASSUME NEW i \in 1..n, i > high - TxSize PROVE left[i] = <<f.id, f.size - n + i>>
    <3>1. i \in 1..Len(unsent) /\ high - i < TxSize /\ i \in (0 + 1)..f.end
      BY <1>0, <1>1, <2>3
    <3>2. left[i] = unsent[i]
      BY <3>1 DEF WiredOutputInv, Latest
    <3>3. unsent[i] = <<f.id, f.size - f.end + i>>
      BY <2>1, <3>1 DEF EndsAFrame, AreOf
    <3>4. QED
      BY <1>1, <3>2, <3>3
  <2>4. ASSUME ~f.stale PROVE f.size - n = 0
    <3>1. f.size = f.end - 0
      BY <2>1, <2>4, NoneLost
    <3>2. QED
      BY <1>1, <2>2, <3>1
  <2> HIDE DEF left
  <2>5. QED
    BY <1>2, <2>2, <2>3, <2>4 DEF FramesLeaveWhole
<1> HIDE DEF left
<1>4. PICK t \in Seq(TxCells) : t = SubSeq(unsent, n + 1, Len(unsent))
  BY <1>0, BehindCells DEF Behind
<1>5. Len(t) = Len(unsent) - n
  BY <1>0, <1>4, BehindCells DEF Behind
<1>6. ASSUME NEW k \in 1..Len(t) PROVE t[k] = unsent[n + k]
  BY <1>0, <1>4, <1>5
<1>7. Frames(w, t) /\ LastEnd(w) = LastEnd(waiting) - n
  <2>1. Frames(waiting, unsent) /\ RestOf(t, unsent, n)
    BY <1>5, <1>6 DEF WiredOutputInv, RestOf
  <2>2. n \in Nat /\ n <= Len(unsent) /\ n = waiting[1].end
    BY <1>0, <1>1
  <2>3. QED
    BY <1>0, <2>1, <2>2, FirstLeaves, Zenon DEF w
<1>8. Begun' = Begun - n
  <2>1. Begun = LastEnd(waiting) /\ Begun' = LastEnd(w)
    BY <1>2, Zenon DEF Begun, LastEnd
  <2>2. QED
    BY <1>7, <2>1, Zenon
<1>9. PICK begun \in n..Len(unsent) : begun = Begun
  BY <1>0, <1>1, BegunIs DEF WiredOutputInv
<1>10. unsent' = t /\ Begun' = begun - n /\ Sn_TX_RD' \in Nat
       /\ Ahead(Sn_TX_WR', Sn_TX_RD', Len(t)) /\ Ahead(atSend', Sn_TX_RD', begun - n)
  <2>1. Ahead(Sn_TX_WR, Sn_TX_RD, Len(unsent)) /\ Ahead(atSend, Sn_TX_RD, begun)
    BY <1>9 DEF WiredOutputInv
  <2>2. n \in Nat /\ begun \in Int /\ Len(unsent) \in Int
    BY <1>0
  <2>3. /\ Ahead(Sn_TX_WR, (Sn_TX_RD + n) % TxPointers, Len(unsent) - n)
        /\ (Sn_TX_RD + n) % TxPointers \in Nat
    BY <1>0, <2>1, <2>2, WiredOutputAssumption, StillAhead, Zenon
  <2>4. Ahead(atSend, (Sn_TX_RD + n) % TxPointers, begun - n)
    BY <1>0, <2>1, <2>2, WiredOutputAssumption, StillAhead, Zenon
  <2>5. QED
    BY <1>2, <1>4, <1>5, <1>8, <1>9, <2>3, <2>4, Zenon
<1>11. ASSUME NEW k \in 1..Len(t), high' - k < TxSize
       PROVE  txMem[(Sn_TX_RD' + k - 1) % TxSize] = t[k]
  <2>1. PICK c \in Int, a \in Int, j \in 1..Len(unsent) : c = k - 1 /\ a = Sn_TX_RD + n /\ j = n + k
    <3>1. k - 1 \in Int /\ Sn_TX_RD + n \in Int
      BY <1>0
    <3>2. n + k \in 1..Len(unsent)
      BY <1>0, <1>5
    <3>3. QED
      BY <3>1, <3>2, Zenon
  <2>2. ((a % TxPointers) + c) % TxSize = (a + c) % TxSize
    BY WiredOutputAssumption, SameTxCell, Zenon
  <2>3. Sn_TX_RD' + k - 1 = Sn_TX_RD' + c /\ a + c = Sn_TX_RD + j - 1
    BY <1>0, <1>10, <2>1
  <2>4. (Sn_TX_RD' + k - 1) % TxSize = (Sn_TX_RD + j - 1) % TxSize
    BY <1>2, <2>1, <2>2, <2>3, Zenon
  <2>5. high - j < TxSize
    BY <1>0, <1>2, <1>11, <2>1
  <2>6. txMem[(Sn_TX_RD + j - 1) % TxSize] = unsent[j]
    BY <2>5 DEF WiredOutputInv, Latest
  <2>7. QED
    BY <1>6, <2>1, <2>4, <2>6
<1>12. Latest(txMem', Sn_TX_RD', unsent', high')
  BY <1>2, <1>10, <1>11 DEF Latest
<1>13. PICK now : /\ now = Current' /\ now.end = Len(unsent) - n /\ now.id = Current.id
                  /\ now.size = Current.size /\ now.stale = Current.stale
  <2>1. /\ Current'.end = Len(unsent') /\ Current'.id = txId' /\ Current'.size = given'
        /\ Current'.stale = stale'
    BY DEF Current
  <2>2. /\ Current.id = txId /\ Current.size = given /\ Current.stale = stale
    BY DEF Current
  <2>3. Len(unsent') = Len(unsent) - n /\ UNCHANGED <<txId, given, stale>>
    BY <1>2, <1>5, <1>10, Zenon
  <2>4. QED
    BY <2>1, <2>2, <2>3, Zenon
<1>14. /\ Current \in TxFrames /\ Current.end = Len(unsent)
       /\ Current' = [Current EXCEPT !.end = @ - n]
  <2>1. Current \in TxFrames /\ Current.end = Len(unsent)
    BY DEF WiredOutputInv, Current
  <2>2. Len(unsent') = Len(unsent) - n /\ UNCHANGED <<txId, given, stale>>
    BY <1>2, <1>5, <1>10, Zenon
  <2>3. Current' = [end |-> Len(unsent) - n, id |-> txId, size |-> given, stale |-> stale]
    BY <2>2, Zenon DEF Current
  <2>4. [Current EXCEPT !.end = @ - n]
          = [end |-> Len(unsent) - n, id |-> txId, size |-> given, stale |-> stale]
    BY DEF Current
  <2>5. QED
    BY <2>1, <2>3, <2>4, Zenon
<1>15. now \in TxFrames
  <2>1. n \in Nat /\ n <= Current.end
    BY <1>0, <1>14
  <2>2. QED
    BY <1>13, <1>14, <2>1, FrameShifts, Zenon
<1>16. EndsAFrame(t, begun - n, now)
  <2>1. EndsAFrame(unsent, begun, Current) /\ RestOf(t, unsent, n)
    BY <1>5, <1>6, <1>9 DEF WiredOutputInv, RestOf
  <2>2. begun \in Nat /\ n \in Nat /\ n <= begun /\ Current.end <= Len(unsent)
    BY <1>0, <1>14
  <2>3. now.end = Current.end - n
    BY <1>13, <1>14, Zenon
  <2>4. QED
    BY <1>0, <1>13, <1>14, <2>1, <2>2, <2>3, EndMoves, Zenon
<1>17. begun - n <= Len(t) /\ high' \in Int /\ Len(t) <= high'
  BY <1>0, <1>2, <1>5
<1>18. QED
  BY <1>2, <1>3, <1>7, <1>10, <1>12, <1>13, <1>15, <1>16, <1>17 DEF WiredOutputInv

(* The frames that leave are those that lwip gave, whatever the sizes of their *)
(* pbufs and wherever they lie in the memory of the chip                     *)
(* (W5100::send_data_processing_offset, w5500_write_data): whole as long as  *)
(* the pointer reads back, from the last pbuf that found it as it was before *)
(* the frame otherwise, and but for cells that later ones were written over. *)
THEOREM FramesGoOutWhole == WiredOutputSpec => []FramesLeaveWhole
<1>1. WiredOutputInit => WiredOutputInv
  <2> SUFFICES ASSUME WiredOutputInit PROVE WiredOutputInv
    OBVIOUS
  <2>1. /\ chain \in Seq(1..TxSize) /\ unsent \in Seq(TxCells) /\ waiting \in Seq(TxFrames)
        /\ Len(unsent) = 0 /\ Len(waiting) = 0
    BY DEF WiredOutputInit
  <2>2. Latest(txMem, Sn_TX_RD, unsent, high) /\ Frames(waiting, unsent)
    BY <2>1 DEF Latest, Frames
  <2>3. Current = [end |-> 0, id |-> 0, size |-> 0, stale |-> FALSE] /\ Begun = 0
    BY <2>1 DEF WiredOutputInit, Current, Begun
  <2>4. Current \in TxFrames /\ EndsAFrame(unsent, Begun, Current)
    BY <2>3 DEF TxFrames, EndsAFrame, AreOf
  <2>5. Ahead(Sn_TX_WR, Sn_TX_RD, Len(unsent)) /\ Ahead(atSend, Sn_TX_RD, Begun)
    BY <2>1, <2>3 DEF WiredOutputInit, Ahead
  <2>6. FramesLeaveWhole
    BY DEF WiredOutputInit, FramesLeaveWhole, NoFrame
  <2>7. QED
    BY <2>1, <2>2, <2>3, <2>4, <2>5, <2>6 DEF WiredOutputInit, WiredOutputInv
<1>2. WiredOutputInv /\ [WiredOutputNext]_wiredOutputVars => WiredOutputInv'
  <2> SUFFICES ASSUME WiredOutputInv, [WiredOutputNext]_wiredOutputVars
               PROVE  WiredOutputInv'
    OBVIOUS
  <2>1. ASSUME NEW p \in Chains, ethernetif_linkoutput(p) PROVE WiredOutputInv'
    BY <2>1, WiredOutputAssumption, LinkOutputKeeps
  <2>2. CASE low_level_output
    BY <2>2, WiredOutputAssumption, OutputKeeps
  <2>3. CASE low_level_endoutput
    BY <2>3, WiredOutputAssumption, EndOutputKeeps
  <2>4. CASE FrameLeaves
    BY <2>4, WiredOutputAssumption, LeavesKeeps
  <2>5. CASE WiredOutputRestart
    BY <2>5, WiredOutputAssumption, OutputStart DEF WiredOutputRestart, WiredOutputInv
  <2>6. CASE UNCHANGED wiredOutputVars
    BY <2>6 DEF wiredOutputVars, WiredOutputInv, Current, Begun, FramesLeaveWhole
  <2>7. QED
    BY <2>1, <2>2, <2>3, <2>4, <2>5, <2>6 DEF WiredOutputNext
<1>3. WiredOutputInv => FramesLeaveWhole
  BY DEF WiredOutputInv
<1>4. QED
  BY <1>1, <1>2, <1>3, PTL DEF WiredOutputSpec

-------------------------------------------------------------------------------
(* NodeFirmware: a node only ever runs whole images.                        *)

LEMMA BlockMembers ==
  ASSUME NEW f \in Firmware, NEW p \in 1..Blocks[f]
  PROVE  <<f, p>> \in Block /\ p \in Positions
<1>1. <<f, p>> \in {f} \X (1..Blocks[f])
  OBVIOUS
<1>2. <<f, p>> \in Block
  BY <1>1 DEF Block
<1>3. QED
  BY <1>2 DEF Positions

(* What is under way while no earlier answer can come: at most the one      *)
(* exchange for the block that is due.                                      *)
OnlyDueIsPending ==
  fwUpdateOngoing /\ ~crossed =>
    \A x \in Block : underway[x] > 0 => x = DueBlock /\ underway[x] = 1

(* A checked image goes into program memory as it is.                       *)
LEMMA ValidImageIsWhole ==
  ASSUME NEW image, NEW f \in Firmware, isValidFirmware(image, f)
  PROVE  [p \in 1..Blocks[f] |-> image[p]] = Image(f)
BY DEF isValidFirmware, Image

LEMMA StartTyped ==
  ASSUME TypeOK, NEW saved \in Firmware, NEW image \in [Positions -> Block \cup {Erased}],
         NEW sign, begin(saved, image, sign)
  PROVE  /\ fc' \in Firmware /\ savedFc' \in Firmware
         /\ flash' \in [Positions -> Block \cup {Erased}]
         /\ fwUpdateOngoing' \in BOOLEAN /\ ~fwUpdateOngoing' /\ configAsked' \in BOOLEAN
         /\ fwBlock' \in Nat /\ fwRetry' \in 0..(MY_OTA_RETRY + 1)
         /\ crossed' \in BOOLEAN
<1>1. flash' \in [Positions -> Block \cup {Erased}]
  BY DEF begin, BootLoader, Wiped
<1>2. 0 \in 0..(MY_OTA_RETRY + 1)
  BY FirmwareAssumption
<1>3. QED
  BY <1>1, <1>2 DEF begin

LEMMA ConsumeTyped ==
  ASSUME TypeOK, NEW x \in Block, Consume(x)
  PROVE  underway' \in [Block -> 0..MaxUnderway]
<1>1. underway[x] - 1 \in 0..MaxUnderway
  BY FirmwareAssumption DEF TypeOK, Consume
<1>2. QED
  BY <1>1 DEF TypeOK, Consume

LEMMA WrittenTyped ==
  ASSUME TypeOK, fwUpdateOngoing, NEW x \in Block
  PROVE  Written(x) \in [Positions -> Block \cup {Erased}]
BY DEF TypeOK, Written

LEMMA FaultsTyped ==
  ASSUME TypeOK, faults < MaxFaults, faults' = faults + 1
  PROVE  faults' \in 0..MaxFaults
BY FirmwareAssumption DEF TypeOK

-------------------------------------------------------------------------------
(* Every reachable state is well typed.                                     *)
THEOREM FirmwareTyped == Spec => []TypeOK
<1>1. Init => TypeOK
  <2> SUFFICES ASSUME Init PROVE TypeOK
    OBVIOUS
  <2>1. flash \in [Positions -> Block \cup {Erased}] /\ underway \in [Block -> 0..MaxUnderway]
    BY FirmwareAssumption DEF Init, Wiped
  <2>2. 0 \in 0..(MY_OTA_RETRY + 1) /\ 0 \in 0..MaxFaults
    BY FirmwareAssumption
  <2>3. QED
    BY <2>1, <2>2, FirmwareAssumption DEF Init, TypeOK
<1>2. TypeOK /\ [Next]_vars => TypeOK'
  <2> SUFFICES ASSUME TypeOK, [Next]_vars PROVE TypeOK'
    OBVIOUS
  <2>0. MY_OTA_RETRY + 1 \in 0..(MY_OTA_RETRY + 1)
    BY FirmwareAssumption
  <2>1. ASSUME NEW f \in Firmware, ConfigResponse(f) PROVE TypeOK'
    <3>1. CASE f # fc /\ StartUpdate(f)
      <4>1. fwBlock' \in Nat /\ fwBlock' \in 1..Blocks[f]
        BY <3>1, FirmwareAssumption DEF StartUpdate
      <4>2. flash' \in [Positions -> Block \cup {Erased}]
        BY <3>1 DEF StartUpdate, Wiped
      <4>3. fwUpdateOngoing' \in BOOLEAN /\ crossed' \in BOOLEAN /\ configAsked' \in BOOLEAN
        BY <2>1, <3>1, Zenon DEF StartUpdate, ConfigResponse
      <4>4. QED
        BY <2>0, <2>1, <3>1, <4>1, <4>2, <4>3 DEF TypeOK, StartUpdate, ConfigResponse
    <3>2. CASE f # fc /\ FlashFails
      <4>1. fwUpdateOngoing' \in BOOLEAN /\ ~fwUpdateOngoing' /\ configAsked' \in BOOLEAN
        BY <2>1, <3>2, Zenon DEF FlashFails, ConfigResponse
      <4>2. faults' \in 0..MaxFaults
        BY <3>2, FaultsTyped DEF FlashFails
      <4>3. QED
        BY <2>1, <3>2, <4>1, <4>2 DEF TypeOK, FlashFails, ConfigResponse
    <3>3. CASE f = fc /\ UNCHANGED <<flash, fwUpdateOngoing, fwBlock, fwRetry, faults, crossed>>
      <4>1. configAsked' \in BOOLEAN
        BY <2>1, Zenon DEF ConfigResponse
      <4>2. QED
        BY <2>1, <3>3, <4>1 DEF TypeOK, ConfigResponse
    <3>4. QED
      BY <2>1, <3>1, <3>2, <3>3 DEF ConfigResponse
  <2>2. CASE LoseConfig
    <3>1. configAsked' \in BOOLEAN
      BY <2>2, Zenon DEF LoseConfig
    <3>2. QED
      BY <2>2, <3>1 DEF TypeOK, LoseConfig
  <2>3. CASE RequestBlock
    <3>1. DueBlock \in Block
      BY <2>3, BlockMembers DEF RequestBlock, TypeOK, DueBlock
    <3>2. underway' \in [Block -> 0..MaxUnderway]
      <4>1. underway[DueBlock] < MaxUnderway => underway[DueBlock] + 1 \in 0..MaxUnderway
        BY <3>1, FirmwareAssumption DEF TypeOK
      <4>2. QED
        BY <2>3, <3>1, <4>1 DEF TypeOK, RequestBlock
    <3>3. fwRetry' \in 0..(MY_OTA_RETRY + 1)
      BY <2>3, FirmwareAssumption DEF TypeOK, RequestBlock
    <3>4. crossed' \in BOOLEAN
      BY <2>3, Zenon DEF RequestBlock
    <3>5. QED
      BY <2>3, <3>2, <3>3, <3>4 DEF TypeOK, RequestBlock
  <2>4. CASE GiveUp
    <3>1. fwUpdateOngoing' \in BOOLEAN /\ ~fwUpdateOngoing'
      BY <2>4, Zenon DEF GiveUp
    <3>2. QED
      BY <2>4, <3>1 DEF TypeOK, GiveUp
  <2>5. ASSUME NEW x \in Block, NotOngoing(x) \/ LoseExchange(x) PROVE TypeOK'
    <3>1. underway' \in [Block -> 0..MaxUnderway]
      BY <2>5, ConsumeTyped DEF NotOngoing, LoseExchange
    <3>2. QED
      BY <2>5, <3>1 DEF TypeOK, NotOngoing, LoseExchange
  <2>6. ASSUME NEW x \in Block, StoreBlock(x) PROVE TypeOK'
    <3>1. underway' \in [Block -> 0..MaxUnderway] /\ Written(x) \in [Positions -> Block \cup {Erased}]
      BY <2>6, ConsumeTyped, WrittenTyped DEF StoreBlock
    <3>2. fwBlock' \in Nat /\ fwBlock' \in 1..Blocks[fc]
      BY <2>6, FirmwareAssumption DEF TypeOK, StoreBlock
    <3>3. QED
      BY <2>0, <2>6, <3>1, <3>2 DEF TypeOK, StoreBlock
  <2>7. ASSUME NEW x \in Block, ChecksumFails(x) PROVE TypeOK'
    <3>1. underway' \in [Block -> 0..MaxUnderway] /\ Written(x) \in [Positions -> Block \cup {Erased}]
      BY <2>7, ConsumeTyped, WrittenTyped DEF ChecksumFails
    <3>2. fwUpdateOngoing' \in BOOLEAN /\ ~fwUpdateOngoing'
      BY <2>7, Zenon DEF ChecksumFails
    <3>3. QED
      BY <2>0, <2>7, <3>1, <3>2 DEF TypeOK, ChecksumFails
  <2>8. ASSUME NEW x \in Block, Install(x) \/ PowerLossInInstall(x) PROVE TypeOK'
    <3>1. underway' \in [Block -> 0..MaxUnderway] /\ Written(x) \in [Positions -> Block \cup {Erased}]
      BY <2>8, ConsumeTyped, WrittenTyped DEF Install, PowerLossInInstall
    <3>2. faults' \in 0..MaxFaults
      BY <2>8, FaultsTyped DEF Install, PowerLossInInstall, TypeOK
    <3>3. torn' \in BOOLEAN
      BY <2>8, Zenon DEF Install, PowerLossInInstall
    <3>4. fc \in Firmware /\ savedFc \in Firmware
      BY DEF TypeOK
    <3>5. begin(fc, Written(x), fc) \/ begin(savedFc, Written(x), fc)
      BY <2>8 DEF Install, PowerLossInInstall
    <3>6. QED
      BY <3>1, <3>2, <3>3, <3>4, <3>5, StartTyped DEF TypeOK
  <2>9. CASE Restart
    <3>1. faults' \in 0..MaxFaults
      BY <2>9, FaultsTyped DEF Restart
    <3>2. begin(savedFc, flash, NoFirmware) /\ UNCHANGED <<underway, torn>>
      BY <2>9 DEF Restart
    <3>3. savedFc \in Firmware /\ flash \in [Positions -> Block \cup {Erased}]
      BY DEF TypeOK
    <3>4. QED
      BY <3>1, <3>2, <3>3, StartTyped DEF TypeOK
  <2>10. CASE UNCHANGED vars
    BY <2>10 DEF TypeOK, vars
  <2>11. QED
    BY <2>1, <2>2, <2>3, <2>4, <2>5, <2>6, <2>7, <2>8, <2>9, <2>10
       DEF Next, FirmwareResponse
<1>3. QED
  BY <1>1, <1>2, PTL DEF Spec

-------------------------------------------------------------------------------
(* A start without a signature keeps the program; one with the signature of *)
(* a checked image makes it the image.                                      *)
LEMMA StartedProgram ==
  ASSUME TypeOK, NEW saved, NEW x \in Block,
         \/ begin(saved, flash, NoFirmware) /\ program = Image(saved)
         \/ begin(saved, Written(x), fc) /\ isValidFirmware(Written(x), fc) /\ saved = fc
  PROVE  program' = Image(saved)
<1>1. fc \in Firmware /\ fc # NoFirmware
  BY FirmwareAssumption DEF TypeOK
<1>2. CASE begin(saved, flash, NoFirmware) /\ program = Image(saved)
  BY <1>2 DEF begin, BootLoader
<1>3. CASE begin(saved, Written(x), fc) /\ isValidFirmware(Written(x), fc) /\ saved = fc
  BY <1>1, <1>3, ValidImageIsWhole DEF begin, BootLoader
<1>4. QED
  BY <1>2, <1>3

(* Whatever gets lost, late or mixed up, the program memory only ever holds *)
(* a whole image.                                                           *)
THEOREM ProgramStaysWhole == Spec => []ProgramIsWhole
<1>1. Init => ProgramIsWhole
  BY FirmwareAssumption DEF Init, ProgramIsWhole
<1>2. TypeOK /\ ProgramIsWhole /\ [Next]_vars => ProgramIsWhole'
  <2> SUFFICES ASSUME TypeOK, ProgramIsWhole, [Next]_vars PROVE ProgramIsWhole'
    OBVIOUS
  <2>1. ASSUME NEW x \in Block, Install(x) \/ PowerLossInInstall(x) PROVE ProgramIsWhole'
    <3>1. fc \in Firmware /\ fc # NoFirmware
      BY FirmwareAssumption DEF TypeOK
    <3>2. isValidFirmware(Written(x), fc)
          /\ (begin(fc, Written(x), fc) \/ begin(savedFc, Written(x), fc))
      BY <2>1 DEF Install, PowerLossInInstall
    <3>3. program' = Image(fc)
      BY <3>1, <3>2, ValidImageIsWhole DEF begin, BootLoader
    <3>4. QED
      BY <3>1, <3>3 DEF ProgramIsWhole, Image
  <2>2. CASE Restart
    BY <2>2 DEF Restart, begin, BootLoader, ProgramIsWhole, Image
  <2>3. CASE \/ \E f \in Firmware : ConfigResponse(f)
             \/ LoseConfig \/ RequestBlock \/ GiveUp \/ UNCHANGED vars
             \/ \E x \in Block : NotOngoing(x) \/ StoreBlock(x) \/ ChecksumFails(x)
                                   \/ LoseExchange(x)
    <3>1. program' = program
      BY <2>3 DEF ConfigResponse, LoseConfig, RequestBlock, GiveUp, NotOngoing, StoreBlock,
                  ChecksumFails, LoseExchange, vars
    <3>2. QED
      BY <3>1 DEF ProgramIsWhole, Image
  <2>4. QED
    BY <2>1, <2>2, <2>3 DEF Next, FirmwareResponse
<1>3. QED
  BY <1>1, <1>2, FirmwareTyped, PTL DEF Spec

(* The node runs what it says it runs, unless power was lost in the middle  *)
(* of an installation.                                                      *)
THEOREM NodeRunsWhatItSays == Spec => []RunsWhatItSays
<1>1. Init => RunsWhatItSays
  BY DEF Init, RunsWhatItSays
<1>2. TypeOK /\ RunsWhatItSays /\ [Next]_vars => RunsWhatItSays'
  <2> SUFFICES ASSUME TypeOK, RunsWhatItSays, [Next]_vars PROVE RunsWhatItSays'
    OBVIOUS
  <2>1. ASSUME NEW x \in Block, Install(x) PROVE RunsWhatItSays'
    <3>1. begin(fc, Written(x), fc) /\ isValidFirmware(Written(x), fc)
      BY <2>1 DEF Install
    <3>2. program' = Image(fc) /\ savedFc' = fc
      BY <3>1, StartedProgram DEF begin
    <3>3. QED
      BY <3>2 DEF RunsWhatItSays, Image
  <2>2. ASSUME NEW x \in Block, PowerLossInInstall(x) PROVE RunsWhatItSays'
    BY <2>2 DEF PowerLossInInstall, RunsWhatItSays
  <2>3. CASE \/ Restart
             \/ \E f \in Firmware : ConfigResponse(f)
             \/ LoseConfig \/ RequestBlock \/ GiveUp \/ UNCHANGED vars
             \/ \E x \in Block : NotOngoing(x) \/ StoreBlock(x) \/ ChecksumFails(x)
                                   \/ LoseExchange(x)
    <3>1. program' = program /\ savedFc' = savedFc /\ torn' = torn
      BY <2>3 DEF Restart, begin, BootLoader, ConfigResponse, LoseConfig, RequestBlock, GiveUp,
                  NotOngoing, StoreBlock, ChecksumFails, LoseExchange, vars
    <3>2. QED
      BY <3>1 DEF RunsWhatItSays, Image
  <2>4. QED
    BY <2>1, <2>2, <2>3 DEF Next, FirmwareResponse
<1>3. QED
  BY <1>1, <1>2, FirmwareTyped, PTL DEF Spec

-------------------------------------------------------------------------------
(* As long as no request of an update was sent while an earlier answer      *)
(* could come, at most the exchange for the block that is due is under way, *)
(* and the blocks stored so far are the right ones.                         *)
THEOREM UndisturbedImagesAreRight == Spec => []UndisturbedImageIsRight
<1> DEFINE Inv == UndisturbedImageIsRight /\ OnlyDueIsPending
<1>1. Init => Inv
  BY DEF Init, UndisturbedImageIsRight, OnlyDueIsPending
<1>2. TypeOK /\ TypeOK' /\ Inv /\ [Next]_vars => Inv'
  <2> SUFFICES ASSUME TypeOK, TypeOK', Inv, [Next]_vars PROVE Inv'
    OBVIOUS
  <2>idle. ASSUME ~fwUpdateOngoing' PROVE Inv'
    BY <2>idle DEF UndisturbedImageIsRight, OnlyDueIsPending
  <2>1. ASSUME NEW f \in Firmware, ConfigResponse(f) PROVE Inv'
    <3>1. CASE f # fc /\ StartUpdate(f)
      <4>1. fc' = f /\ fwBlock' = Blocks[f] /\ underway' = underway
        BY <2>1, <3>1 DEF StartUpdate, ConfigResponse
      <4>2. UndisturbedImageIsRight'
        <5>1. (fwBlock' + 1)..Blocks[fc'] = {}
          BY <4>1, FirmwareAssumption
        <5>2. QED
          BY <5>1 DEF UndisturbedImageIsRight
      <4>3. ~crossed' => \A x \in Block : ~(underway'[x] > 0)
        BY <3>1, <4>1 DEF StartUpdate, Pending
      <4>4. QED
        BY <4>2, <4>3 DEF OnlyDueIsPending
    <3>2. CASE f # fc /\ FlashFails
      BY <3>2, <2>idle DEF FlashFails
    <3>3. CASE f = fc /\ UNCHANGED <<flash, fwUpdateOngoing, fwBlock, fwRetry, faults, crossed>>
      BY <2>1, <3>3 DEF ConfigResponse, UndisturbedImageIsRight, OnlyDueIsPending, DueBlock
    <3>4. QED
      BY <2>1, <3>1, <3>2, <3>3 DEF ConfigResponse
  <2>2. CASE LoseConfig \/ UNCHANGED vars
    BY <2>2 DEF LoseConfig, vars, UndisturbedImageIsRight, OnlyDueIsPending, DueBlock
  <2>3. CASE RequestBlock
    <3>1. DueBlock \in Block
      BY <2>3, BlockMembers DEF RequestBlock, TypeOK, DueBlock
    <3>2. UndisturbedImageIsRight'
      BY <2>3 DEF RequestBlock, UndisturbedImageIsRight
    <3>3. DueBlock' = DueBlock
      BY <2>3 DEF RequestBlock, DueBlock
    <3>4. ASSUME ~crossed', NEW x \in Block, underway'[x] > 0
          PROVE  x = DueBlock /\ underway'[x] = 1
      <4>1. \A y \in Block : ~(underway[y] > 0) /\ underway[y] \in 0..MaxUnderway
        BY <2>3, <3>4 DEF RequestBlock, Pending, TypeOK
      <4>2. underway[DueBlock] = 0 /\ underway[x] = 0
        BY <3>1, <4>1
      <4> DEFINE u == underway[DueBlock]
      <4>5. underway' = [underway EXCEPT ![DueBlock] = IF u < MaxUnderway THEN u + 1 ELSE u]
        BY <2>3 DEF RequestBlock
      <4>6. u = 0
        BY <4>2
      <4> HIDE DEF u
      <4>7. (IF u < MaxUnderway THEN u + 1 ELSE u) = 1
        BY <4>6, FirmwareAssumption
      <4>3. underway' = [underway EXCEPT ![DueBlock] = 1]
        BY <4>5, <4>7
      <4>4. QED
        BY <3>1, <3>4, <4>2, <4>3 DEF TypeOK
    <3>5. QED
      BY <3>2, <3>3, <3>4 DEF OnlyDueIsPending
  <2>4. ASSUME NEW x \in Block,
               NotOngoing(x) \/ ChecksumFails(x) \/ Install(x) \/ PowerLossInInstall(x)
        PROVE  Inv'
    BY <2>4, <2>idle DEF NotOngoing, ChecksumFails, Install, PowerLossInInstall, begin
  <2>8. CASE GiveUp \/ Restart
    BY <2>8, <2>idle DEF GiveUp, Restart, begin
  <2>5. ASSUME NEW x \in Block, StoreBlock(x) PROVE Inv'
    <3> SUFFICES ASSUME ~crossed' PROVE Inv'
      BY DEF UndisturbedImageIsRight, OnlyDueIsPending
    <3>1. x = DueBlock /\ underway[x] = 1 /\ fwUpdateOngoing /\ ~crossed
      BY <2>5 DEF StoreBlock, Consume, OnlyDueIsPending
    <3>2. UndisturbedImageIsRight'
      <4> SUFFICES ASSUME NEW p \in (fwBlock' + 1)..Blocks[fc'] PROVE flash'[p] = <<fc', p>>
        BY DEF UndisturbedImageIsRight
      <4>1. fc' = fc /\ fwBlock' = fwBlock - 1 /\ fwBlock \in Nat
            /\ flash' = [flash EXCEPT ![fwBlock] = <<fc, fwBlock>>]
        BY <2>5, <3>1 DEF StoreBlock, TypeOK, DueBlock, Written
      <4>2. fc \in Firmware /\ fwBlock \in 1..Blocks[fc]
        BY <3>1 DEF TypeOK
      <4>3. p \in 1..Blocks[fc] /\ (p = fwBlock \/ p \in (fwBlock + 1)..Blocks[fc])
        BY <4>1, <4>2, FirmwareAssumption
      <4>4. p \in Positions
        BY <4>2, <4>3, BlockMembers
      <4>5. QED
        BY <3>1, <4>1, <4>3, <4>4 DEF TypeOK, UndisturbedImageIsRight
    <3>3. \A y \in Block : ~(underway'[y] > 0)
      <4>1. underway' = [underway EXCEPT ![x] = 0]
        BY <2>5, <3>1 DEF StoreBlock, Consume, TypeOK
      <4>2. \A y \in Block : y # x => ~(underway[y] > 0)
        BY <3>1 DEF OnlyDueIsPending
      <4>3. QED
        BY <4>1, <4>2 DEF TypeOK
    <3>4. QED
      BY <3>2, <3>3 DEF OnlyDueIsPending
  <2>6. ASSUME NEW x \in Block, LoseExchange(x) PROVE Inv'
    <3>1. UndisturbedImageIsRight'
      BY <2>6 DEF LoseExchange, UndisturbedImageIsRight
    <3>2. DueBlock' = DueBlock /\ fwUpdateOngoing' = fwUpdateOngoing /\ crossed' = crossed
      BY <2>6 DEF LoseExchange, DueBlock
    <3>3. underway' = [underway EXCEPT ![x] = underway[x] - 1] /\ underway[x] > 0
      BY <2>6 DEF LoseExchange, Consume
    <3>4. ASSUME fwUpdateOngoing, ~crossed PROVE \A y \in Block : ~(underway'[y] > 0)
      <4>1. underway[x] = 1 /\ x = DueBlock /\ \A y \in Block : y # x => ~(underway[y] > 0)
        BY <3>3, <3>4 DEF OnlyDueIsPending
      <4>2. QED
        BY <3>3, <4>1 DEF TypeOK
    <3>5. QED
      BY <3>1, <3>2, <3>4 DEF OnlyDueIsPending
  <2>7. QED
    BY <2>1, <2>2, <2>3, <2>4, <2>5, <2>6, <2>8, Zenon DEF Next, FirmwareResponse
<1>3. QED
  BY <1>1, <1>2, FirmwareTyped, PTL DEF Spec
==========================================================================
