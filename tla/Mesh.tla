--------------------------------- MODULE Mesh ---------------------------------
(***************************************************************************)
(* How the nodes of libraries/MySensors/MySensor.cpp choose the neighbour  *)
(* that passes their messages on to the gateway: findParentNode, the       *)
(* answers of repeaters, and the count of failed transmissions that makes  *)
(* a node search again.                                                    *)
(*                                                                         *)
(* A node is one thread, but while it waits it calls process(), so that    *)
(* messages are read in the middle of a search and in the middle of an     *)
(* answer.  Messages wait in the radio until they are read, radio contact  *)
(* comes and goes, and nodes restart with what their EEPROM holds.         *)
(*                                                                         *)
(* All devices search their parent themselves (autoFindParent).  Which     *)
(* messages they send, and the routes back, are no part of this module:    *)
(* sending is one attempt to reach the parent.                             *)
(***************************************************************************)
EXTENDS Integers, FiniteSets

CONSTANTS
  Devices,            \* nodes other than the gateway; all have an id
  Repeaters,          \* the devices in repeaterMode
  Links,              \* pairs of stations that may be in radio contact
  WeakLinks,          \* those whose contact comes and goes
  SearchFailures,     \* SEARCH_FAILURES, 5 in the code
  DISTANCE_INVALID,   \* 255 in the code
  FifoSize,           \* messages a radio holds until they are read, 3 in hardware
  MaxFaults           \* bound: restarts and changes of radio contact

GATEWAY_ADDRESS == 0
AUTO == 255
NoSearch == AUTO
Stations == Devices \cup {GATEWAY_ADDRESS}

ASSUME MeshAssumption ==
  /\ Devices \subseteq 1..(AUTO - 1) /\ Repeaters \subseteq Devices
  /\ Links \subseteq {{a, b} : a, b \in Stations} /\ WeakLinks \subseteq Links
  /\ SearchFailures \in Nat
  /\ DISTANCE_INVALID \in Nat \ {0}
  /\ FifoSize \in Nat \ {0}
  /\ MaxFaults \in Nat

VARIABLES
  parent,     \* nc.parentNodeId
  distance,   \* nc.distance
  saved,      \* EEPROM: [parent, distance]
  failed,     \* failedTransmissions; stays at SearchFailures + 1 during a search
  search,     \* findingParentNode: NoSearch, or the node the search is for:
              \* the searching one itself, or one whose ping it wants to answer
  replying,   \* the nodes whose ping a station is going to answer
  pings,      \* <<s, n>>: an I_FIND_PARENT of s that n has not read yet
  replies,    \* <<s, n, d>>: an I_FIND_PARENT_RESPONSE of s that n has not read
  contact,    \* the links that are up
  faults,     \* restarts and changes of contact so far
  researched  \* history: devices that gave up a distance to search again

nc == <<parent, distance>>
air == <<pings, replies>>
env == <<contact, faults>>
vars == <<nc, saved, failed, search, replying, air, contact, faults, researched>>

isValidParent(p) == p # AUTO
isValidDistance(d) == d # DISTANCE_INVALID

Unread(n) == {p \in pings : p[2] = n} \cup {r \in replies : r[2] = n}
HasRoom(n) == Cardinality(Unread(n)) < FifoSize

(* Who may hear a broadcast of n and answers it. *)
Relays(n) == {r \in Repeaters \cup {GATEWAY_ADDRESS} : {n, r} \in contact /\ HasRoom(r)}

ParentInContact(n) == {n, parent[n]} \in contact

Init ==
  /\ parent = [n \in Stations |-> IF n = GATEWAY_ADDRESS THEN n ELSE AUTO]
  /\ distance = [n \in Stations |-> IF n = GATEWAY_ADDRESS THEN 0 ELSE DISTANCE_INVALID]
  /\ saved = [n \in Stations |-> [parent |-> parent[n], distance |-> distance[n]]]
  /\ failed = [n \in Stations |-> 0]
  /\ search = [n \in Stations |-> NoSearch]
  /\ replying = [n \in Stations |-> {}]
  /\ pings = {} /\ replies = {}
  /\ contact = Links
  /\ faults = 0
  /\ researched = {}

-------------------------------------------------------------------------------
(* A search on behalf of whom starts; its broadcast reaches heard.  read:   *)
(* the ping that is being processed, if any.                                *)
findParentNode(n, whom, heard, read) ==
  /\ search[n] = NoSearch
  /\ search' = [search EXCEPT ![n] = whom]
  /\ failed' = [failed EXCEPT ![n] = 0]
  /\ distance' = [distance EXCEPT ![n] = DISTANCE_INVALID]
  /\ pings' = (pings \ read) \cup ({n} \X heard)
  /\ researched' = IF isValidDistance(distance[n]) THEN researched \cup {n} ELSE researched

(* A node without a parent searches instead of sending.                     *)
SendWithoutParent(n, heard) ==
  /\ ~isValidParent(parent[n])
  /\ findParentNode(n, n, heard, {})
  /\ UNCHANGED <<parent, saved, replying, replies, env>>

SendToParent(n) ==
  /\ isValidParent(parent[n]) /\ ParentInContact(n)
  /\ failed' = [failed EXCEPT ![n] = 0]
  /\ UNCHANGED <<nc, saved, search, replying, air, env, researched>>

SendFails(n) ==
  /\ isValidParent(parent[n]) /\ ~ParentInContact(n)
  /\ failed[n] < SearchFailures \/ search[n] # NoSearch
  /\ failed' = [failed EXCEPT ![n] = IF @ > SearchFailures THEN @ ELSE @ + 1]
  /\ UNCHANGED <<nc, saved, search, replying, air, env, researched>>

SendFailsOnceMore(n, heard) ==
  /\ isValidParent(parent[n]) /\ ~ParentInContact(n)
  /\ failed[n] >= SearchFailures
  /\ findParentNode(n, n, heard, {})
  /\ UNCHANGED <<parent, saved, replying, replies, env>>

(* What sendRoute does about the parent, whatever is sent.                  *)
sendRoute(n, heard) ==
  SendWithoutParent(n, heard) \/ SendToParent(n) \/ SendFails(n) \/ SendFailsOnceMore(n, heard)

-------------------------------------------------------------------------------
(* process() of an I_FIND_PARENT.  (Operators named ...Fault are slips the  *)
(* properties must catch, they are no part of Next.)                        *)

IgnorePing(n, s) ==
  /\ <<s, n>> \in pings
  /\ \/ s = parent[n]
     \/ ~isValidDistance(distance[n]) /\ search[n] # NoSearch
  /\ pings' = pings \ {<<s, n>>}
  /\ UNCHANGED <<nc, saved, failed, search, replying, replies, env, researched>>

AcceptPing(n, s) ==
  /\ <<s, n>> \in pings /\ s # parent[n]
  /\ isValidDistance(distance[n])
  /\ replying' = [replying EXCEPT ![n] = @ \cup {s}]
  /\ pings' = pings \ {<<s, n>>}
  /\ UNCHANGED <<nc, saved, failed, search, replies, env, researched>>

(* A repeater that does not know its distance searches before it answers.   *)
SearchForPing(n, s, heard) ==
  /\ <<s, n>> \in pings /\ s # parent[n]
  /\ ~isValidDistance(distance[n])
  /\ findParentNode(n, s, heard, {<<s, n>>})
  /\ UNCHANGED <<parent, saved, replying, replies, env>>

EndSearchFault(n) ==   \* findingParentNode is not cleared
  /\ search[n] # NoSearch
  /\ replying' = [replying EXCEPT
       ![n] = IF search[n] # n /\ isValidDistance(distance[n]) THEN @ \cup {search[n]} ELSE @]
  /\ UNCHANGED <<nc, saved, failed, search, air, env, researched>>

(* The two seconds are over; the ping the search was for is answered now if *)
(* a distance was found.                                                    *)
EndSearch(n) ==
  /\ search[n] # NoSearch
  /\ search' = [search EXCEPT ![n] = NoSearch]
  /\ replying' = [replying EXCEPT
       ![n] = IF search[n] # n /\ isValidDistance(distance[n]) THEN @ \cup {search[n]} ELSE @]
  /\ UNCHANGED <<nc, saved, failed, air, env, researched>>

(* The random delay is over: the distance sent is that of now.              *)
Answer(n, s) ==
  /\ s \in replying[n]
  /\ {n, s} \in contact /\ HasRoom(s)
  /\ replying' = [replying EXCEPT ![n] = @ \ {s}]
  /\ replies' = replies \cup {<<n, s, distance[n]>>}
  /\ UNCHANGED <<nc, saved, failed, search, pings, env, researched>>

AnswerLost(n, s) ==
  /\ s \in replying[n]
  /\ replying' = [replying EXCEPT ![n] = @ \ {s}]
  /\ UNCHANGED <<nc, saved, failed, search, air, env, researched>>

-------------------------------------------------------------------------------
(* process() of an I_FIND_PARENT_RESPONSE that says d *)

IsCloserFault(n, d) ==   \* an uint8_t that wraps
  (d + 1) % (DISTANCE_INVALID + 1) < distance[n]

IsCloser(n, d) ==
  isValidDistance(d) /\ isValidDistance(d + 1) /\ d + 1 < distance[n]

AcceptAnswerFault(n, s, d) ==   \* any answer is taken
  /\ <<s, n, d>> \in replies
  /\ isValidDistance(d) /\ isValidDistance(d + 1)
  /\ parent' = [parent EXCEPT ![n] = s]
  /\ distance' = [distance EXCEPT ![n] = d + 1]
  /\ saved' = [saved EXCEPT ![n] = [parent |-> s, distance |-> d + 1]]
  /\ replies' = replies \ {<<s, n, d>>}
  /\ UNCHANGED <<failed, search, replying, pings, env, researched>>

AcceptAnswer(n, s, d) ==
  /\ <<s, n, d>> \in replies
  /\ IsCloser(n, d)
  /\ parent' = [parent EXCEPT ![n] = s]
  /\ distance' = [distance EXCEPT ![n] = d + 1]
  /\ saved' = [saved EXCEPT ![n] = [parent |-> s, distance |-> d + 1]]
  /\ replies' = replies \ {<<s, n, d>>}
  /\ UNCHANGED <<failed, search, replying, pings, env, researched>>

IgnoreAnswer(n, s, d) ==
  /\ <<s, n, d>> \in replies
  /\ ~IsCloser(n, d)
  /\ replies' = replies \ {<<s, n, d>>}
  /\ UNCHANGED <<nc, saved, failed, search, replying, pings, env, researched>>

-------------------------------------------------------------------------------
(* begin() of a node whose EEPROM holds ee: what its radio had received and *)
(* the node had not read is lost.  (During this search the radio does not   *)
(* listen to the address of the node yet: its answers are lost answers.)    *)
begin(n, ee, heard) ==
  /\ saved' = [saved EXCEPT ![n] = ee]
  /\ parent' = [parent EXCEPT ![n] = ee.parent]
  /\ failed' = [failed EXCEPT ![n] = 0]
  /\ replying' = [replying EXCEPT ![n] = {}]
  /\ replies' = {r \in replies : r[2] # n}
  /\ IF isValidParent(ee.parent)
     THEN /\ distance' = [distance EXCEPT ![n] = ee.distance]
          /\ search' = [search EXCEPT ![n] = NoSearch]
          /\ pings' = {p \in pings : p[2] # n}
     ELSE /\ distance' = [distance EXCEPT ![n] = DISTANCE_INVALID]
          /\ search' = [search EXCEPT ![n] = n]
          /\ pings' = {p \in pings : p[2] # n} \cup ({n} \X heard)
  /\ faults < MaxFaults /\ faults' = faults + 1
  /\ UNCHANGED <<contact, researched>>

Restart(n, heard) == begin(n, saved[n], heard)

(* Power is lost after the parent is written to EEPROM, before the distance.*)
PowerLossInSave(n, s, d, heard) ==
  /\ <<s, n, d>> \in replies
  /\ IsCloser(n, d)
  /\ begin(n, [parent |-> s, distance |-> saved[n].distance], heard)

ContactChanges ==
  /\ faults < MaxFaults /\ faults' = faults + 1
  /\ \E l \in WeakLinks :
       contact' = IF l \in contact THEN contact \ {l} ELSE contact \cup {l}
  /\ UNCHANGED <<nc, saved, failed, search, replying, air, researched>>

Distances == 0..DISTANCE_INVALID

Next ==
  \/ \E n \in Devices, heard \in SUBSET Stations :
       heard \subseteq Relays(n) /\
         \/ sendRoute(n, heard)
         \/ \E s \in Devices : SearchForPing(n, s, heard)
         \/ Restart(n, heard)
         \/ \E s \in Stations, d \in Distances : PowerLossInSave(n, s, d, heard)
  \/ Restart(GATEWAY_ADDRESS, {})
  \/ \E n \in Stations, s \in Devices :
       IgnorePing(n, s) \/ AcceptPing(n, s) \/ Answer(n, s) \/ AnswerLost(n, s)
  \/ \E n \in Devices : EndSearch(n)
  \/ \E n \in Devices, s \in Stations, d \in Distances :
       AcceptAnswer(n, s, d) \/ IgnoreAnswer(n, s, d)
  \/ ContactChanges

(* A device sends again and again, and what was received is read.  Not every *)
(* ping of a device collides, nor every answer of one station to another.   *)
Fairness ==
  \A n \in Devices :
    /\ WF_vars(\E heard \in SUBSET Relays(n) : sendRoute(n, heard))
    /\ SF_vars(SendWithoutParent(n, Relays(n)) \/ SendFailsOnceMore(n, Relays(n)))
    /\ WF_vars(EndSearch(n))
    /\ \A r \in (Repeaters \cup {GATEWAY_ADDRESS}) \ {n} :
         /\ WF_vars(IgnorePing(r, n) \/ AcceptPing(r, n)
                     \/ \E heard \in SUBSET Relays(r) : SearchForPing(r, n, heard))
         /\ SF_vars(Answer(r, n))
         /\ WF_vars(\E d \in Distances : AcceptAnswer(n, r, d) \/ IgnoreAnswer(n, r, d))

Spec == Init /\ [][Next]_vars
FairSpec == Spec /\ Fairness

-------------------------------------------------------------------------------
TypeOK ==
  /\ parent \in [Stations -> Stations \cup {AUTO}]
  /\ distance \in [Stations -> Distances]
  /\ saved \in [Stations -> [parent : Stations \cup {AUTO}, distance : Distances]]
  /\ failed \in [Stations -> 0..(SearchFailures + 1)]
  /\ search \in [Stations -> Stations \cup {NoSearch}]
  /\ replying \in [Stations -> SUBSET Devices]
  /\ pings \subseteq Devices \X Stations
  /\ replies \subseteq Stations \X Devices \X Distances
  /\ contact \subseteq Links /\ faults \in 0..MaxFaults
  /\ researched \subseteq Devices

(* A parent is nearer to the gateway than its child, unless one of the two  *)
(* gave up its distance to search again: answers that arrive late or that   *)
(* cross, and restarts in the middle of a save, never undo that.            *)
ParentIsCloser ==
  \A n \in Devices : isValidParent(parent[n]) =>
    \/ distance[parent[n]] < distance[n]
    \/ {n, parent[n]} \cap researched # {}

(* The stations of S only pass messages on to each other.                   *)
Trapped(S) == S # {} /\ \A n \in S : parent[n] \in S

(* A routing loop only comes from a node in it that searched again.         *)
LoopsComeFromSearches ==
  \A S \in SUBSET Devices : Trapped(S) => S \cap researched # {}

(* From n, a message that every station sends to its parent gets to the     *)
(* gateway: no set of devices keeps it, or has lost contact to go on.       *)
Connected(n) ==
  \A S \in SUBSET Devices :
    n \in S => \E m \in S : ParentInContact(m) /\ parent[m] \notin S

(* With all devices in contact with the gateway each of them gets connected,*)
(* whatever contact they lose to each other, although pings and answers     *)
(* collide and stations restart.                                            *)
EveryDeviceConnects == \A n \in Devices : <>[]Connected(n)

(* The library calls itself a self healing radio network: devices do not go *)
(* on for ever passing messages only to each other, where one of them always*)
(* is in contact with the gateway and all are with each other.              *)
MeshHeals == \A S \in SUBSET Devices : []<>~Trapped(S)
===============================================================================
