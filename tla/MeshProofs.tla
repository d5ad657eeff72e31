------------------------------ MODULE MeshProofs ------------------------------
(***************************************************************************)
(* Proofs about Mesh: for any set of devices and any radio contact, a      *)
(* routing loop only comes from a node in it that gave up its distance.    *)
(***************************************************************************)
EXTENDS Mesh, WellFoundedInduction, TLAPS

(* What a device that never searched again tells about its distance stays   *)
(* true: its EEPROM holds it, and the answers under way are no smaller.     *)
MeshInv ==
  /\ parent \in [Stations -> Stations \cup {AUTO}]
  /\ distance \in [Stations -> Distances]
  /\ saved \in [Stations -> [parent : Stations \cup {AUTO}, distance : Distances]]
  /\ replies \subseteq Stations \X Devices \X Distances
  /\ \A n \in Stations : saved[n].parent = parent[n]
  /\ \A n \in Stations \ researched :
       /\ saved[n].distance = distance[n]
       /\ parent[n] = AUTO => distance[n] = DISTANCE_INVALID
       /\ \A r \in replies : r[1] = n => distance[n] <= r[3]
  /\ ParentIsCloser

LessThan == {p \in Nat \X Nat : p[1] < p[2]}

(* A set of natural numbers that is not empty has a smallest element.       *)
LEMMA SmallestOf ==
  ASSUME NEW T, T \subseteq Nat, T # {}
  PROVE  \E x \in T : \A y \in T : ~(y < x)
<1>1. IsWellFoundedOn(LessThan, Nat)
  BY NatLessThanWellFounded DEF OpToRel, LessThan
<1>2. \E x \in T : \A y \in T : ~(<<y, x>> \in LessThan)
  BY <1>1, WFMin
<1>3. \A x, y \in Nat : y < x => <<y, x>> \in LessThan
  BY DEF LessThan
<1> QED
  BY <1>2, <1>3

(* The constants as the proofs use them: no station has the number AUTO.    *)
LEMMA StationNumbers ==
  /\ AUTO \notin Stations
  /\ GATEWAY_ADDRESS \in Stations /\ Devices \subseteq Stations
  /\ DISTANCE_INVALID \in Nat /\ DISTANCE_INVALID \in Distances
BY MeshAssumption DEF Stations, AUTO, GATEWAY_ADDRESS, Distances

(* A step that leaves parents, distances and EEPROMs alone, takes answers   *)
(* away at most, and forgets no search.                                     *)
LEMMA QuietStep ==
  ASSUME MeshInv, UNCHANGED <<nc, saved>>, replies' \subseteq replies, researched \subseteq researched'
  PROVE  MeshInv'
BY DEF MeshInv, nc, ParentIsCloser

(* A search makes an exception of every device that loses its distance.     *)
LEMMA SearchStep ==
  ASSUME MeshInv, NEW n \in Devices, NEW whom, NEW heard, NEW read,
         findParentNode(n, whom, heard, read), UNCHANGED <<parent, saved, replies>>
  PROVE  MeshInv'
<1>1. distance' \in [Stations -> Distances]
  BY StationNumbers DEF MeshInv, findParentNode
<1>2. \A m \in Stations \ researched' : m \notin researched /\ distance'[m] = distance[m]
  BY StationNumbers DEF MeshInv, findParentNode, isValidDistance
<1>3. \A m \in Devices : isValidParent(parent[m]) =>
        \/ distance'[parent[m]] < distance'[m]
        \/ {m, parent[m]} \cap researched' # {}
  <2> SUFFICES ASSUME NEW m \in Devices, isValidParent(parent[m]),
                      m \notin researched', parent[m] \notin researched'
               PROVE  distance'[parent[m]] < distance'[m]
    OBVIOUS
  <2>1. parent[m] \in Stations
    BY StationNumbers DEF MeshInv, isValidParent
  <2>2. m \notin researched /\ parent[m] \notin researched
    BY <1>2, <2>1, StationNumbers
  <2>3. distance[parent[m]] < distance[m]
    BY <2>2 DEF MeshInv, ParentIsCloser
  <2> QED
    BY <1>2, <2>1, <2>3, StationNumbers
<1> QED
  BY <1>1, <1>2, <1>3 DEF MeshInv, ParentIsCloser

(* The distance in an answer is that of now.                                *)
LEMMA AnswerStep ==
  ASSUME MeshInv, NEW n \in Stations, NEW s \in Devices, Answer(n, s)
  PROVE  MeshInv'
<1>1. <<n, s, distance[n]>> \in Stations \X Devices \X Distances
  BY DEF MeshInv
<1>2. replies' = replies \cup {<<n, s, distance[n]>>} /\ UNCHANGED <<parent, distance, saved, researched>>
  BY DEF Answer, nc
<1>3. distance[n] <= distance[n]
  BY StationNumbers DEF MeshInv, Distances
<1> QED
  BY <1>1, <1>2, <1>3 DEF MeshInv, ParentIsCloser

(* A device that takes a parent gets nearer to the gateway itself.          *)
LEMMA AcceptStep ==
  ASSUME MeshInv, NEW n \in Devices, NEW s \in Stations, NEW d \in Distances, AcceptAnswer(n, s, d)
  PROVE  MeshInv'
<1>1. d + 1 < distance[n] /\ d + 1 \in Distances /\ d < d + 1 /\ <<s, n, d>> \in replies
  BY StationNumbers DEF AcceptAnswer, IsCloser, Distances, MeshInv
<1>2. /\ parent' = [parent EXCEPT ![n] = s]
      /\ distance' = [distance EXCEPT ![n] = d + 1]
      /\ saved' = [saved EXCEPT ![n] = [parent |-> s, distance |-> d + 1]]
      /\ replies' \subseteq replies /\ UNCHANGED researched
  BY DEF AcceptAnswer
<1>3. s # AUTO /\ n \in Stations
  BY StationNumbers
<1>4. /\ parent' \in [Stations -> Stations \cup {AUTO}]
      /\ distance' \in [Stations -> Distances]
      /\ saved' \in [Stations -> [parent : Stations \cup {AUTO}, distance : Distances]]
      /\ replies' \subseteq Stations \X Devices \X Distances
      /\ \A m \in Stations : saved'[m].parent = parent'[m]
  BY <1>1, <1>2, <1>3 DEF MeshInv
<1>5. \A m \in Stations : distance'[m] <= distance[m] /\ (m # n => distance'[m] = distance[m])
  BY <1>1, <1>2, <1>3 DEF MeshInv, Distances
<1>6. ASSUME NEW m \in Stations \ researched
      PROVE  /\ saved'[m].distance = distance'[m]
             /\ parent'[m] = AUTO => distance'[m] = DISTANCE_INVALID
             /\ \A r \in replies' : r[1] = m => distance'[m] <= r[3]
  <2>1. saved'[m].distance = distance'[m] /\ (parent'[m] = AUTO => distance'[m] = DISTANCE_INVALID)
    BY <1>2, <1>3 DEF MeshInv
  <2>2. ASSUME NEW r \in replies', r[1] = m PROVE distance'[m] <= r[3]
    <3>1. distance[m] <= r[3] /\ r[3] \in Distances
      BY <1>2, <2>2 DEF MeshInv
    <3> QED
      BY <1>4, <1>5, <3>1 DEF MeshInv, Distances
  <2> QED
    BY <2>1, <2>2
<1>7. ASSUME NEW m \in Devices, isValidParent(parent'[m]), m \notin researched, parent'[m] \notin researched
      PROVE  distance'[parent'[m]] < distance'[m]
  <2>0. m \in Stations /\ parent'[m] \in Stations
    BY <1>4, <1>7, StationNumbers DEF isValidParent
  <2>1. CASE m = n
    <3>1. distance[s] <= d
      <4>1. s \in Stations \ researched
        BY <1>2, <1>3, <1>7, <2>1 DEF MeshInv
      <4> QED
        BY <1>1, <4>1 DEF MeshInv
    <3>2. s # n
      BY <1>1, <3>1 DEF MeshInv, Distances
    <3> QED
      BY <1>1, <1>2, <2>0, <2>1, <3>1, <3>2 DEF MeshInv, Distances
  <2>2. CASE m # n
    <3>1. parent'[m] = parent[m]
      BY <1>2, <2>2, <2>0 DEF MeshInv
    <3>2. distance[parent[m]] < distance[m]
      BY <1>7, <3>1 DEF MeshInv, ParentIsCloser, isValidParent
    <3> QED
      BY <1>4, <1>5, <2>0, <2>2, <3>1, <3>2 DEF MeshInv, Distances
  <2> QED
    BY <2>1, <2>2
<1> QED
  BY <1>2, <1>4, <1>6, <1>7 DEF MeshInv, ParentIsCloser

(* A station that starts finds what it knew, as long as it never lost its   *)
(* distance: the parent may be a newer one, if that is nearer.              *)
LEMMA BeginStep ==
  ASSUME MeshInv, NEW n \in Stations, NEW ee, NEW heard, begin(n, ee, heard),
         ee \in [parent : Stations \cup {AUTO}, distance : Distances],
         ee.distance = saved[n].distance,
         n \in Devices \/ ee = saved[n],
         \/ ee.parent = parent[n]
         \/ /\ ee.parent \in Stations
            /\ n \notin researched /\ ee.parent \notin researched
                 => distance[ee.parent] < distance[n]
  PROVE  MeshInv'
<1>1. /\ parent' = [parent EXCEPT ![n] = ee.parent]
      /\ saved' = [saved EXCEPT ![n] = ee]
      /\ replies' \subseteq replies /\ UNCHANGED researched
  BY DEF begin
<1>2. distance' = [distance EXCEPT ![n] = IF ee.parent # AUTO THEN ee.distance ELSE DISTANCE_INVALID]
  BY DEF begin, isValidParent
<1>3. /\ parent' \in [Stations -> Stations \cup {AUTO}]
      /\ distance' \in [Stations -> Distances]
      /\ saved' \in [Stations -> [parent : Stations \cup {AUTO}, distance : Distances]]
      /\ replies' \subseteq Stations \X Devices \X Distances
      /\ \A m \in Stations : saved'[m].parent = parent'[m]
  BY <1>1, <1>2, StationNumbers DEF MeshInv
<1>4. ee.parent = AUTO => parent[n] = AUTO
  BY StationNumbers
<1>5. \A m \in Stations \ researched : distance'[m] = distance[m]
  BY <1>2, <1>4 DEF MeshInv
<1>6. \A m \in Stations \ researched :
        /\ saved'[m].distance = distance'[m]
        /\ parent'[m] = AUTO => distance'[m] = DISTANCE_INVALID
        /\ \A r \in replies' : r[1] = m => distance'[m] <= r[3]
  BY <1>1, <1>2, <1>4, <1>5 DEF MeshInv
<1>7. ASSUME NEW m \in Devices, isValidParent(parent'[m]), m \notin researched, parent'[m] \notin researched
      PROVE  distance'[parent'[m]] < distance'[m]
  <2>0. m \in Stations /\ parent'[m] \in Stations
    BY <1>3, <1>7, StationNumbers DEF isValidParent
  <2>1. distance[parent'[m]] < distance[m]
    <3>1. CASE parent'[m] = parent[m]
      BY <1>7, <3>1 DEF MeshInv, ParentIsCloser
    <3>2. CASE parent'[m] # parent[m]
      BY <1>1, <1>7, <2>0, <3>2 DEF MeshInv
    <3> QED
      BY <3>1, <3>2
  <2> QED
    BY <1>5, <1>7, <2>0, <2>1
<1> QED
  BY <1>1, <1>3, <1>6, <1>7 DEF MeshInv, ParentIsCloser

(* The invariant holds in every reachable state.                            *)
THEOREM MeshInvariant == Spec => []MeshInv
<1>1. Init => MeshInv
  <2> SUFFICES ASSUME Init PROVE MeshInv
    OBVIOUS
  <2>1. /\ parent \in [Stations -> Stations \cup {AUTO}]
        /\ distance \in [Stations -> Distances]
        /\ \A n \in Devices : parent[n] = AUTO /\ distance[n] = DISTANCE_INVALID
        /\ parent[GATEWAY_ADDRESS] = GATEWAY_ADDRESS
    BY StationNumbers, MeshAssumption DEF Init, Stations, Distances, GATEWAY_ADDRESS
  <2>2. saved \in [Stations -> [parent : Stations \cup {AUTO}, distance : Distances]]
    BY <2>1 DEF Init
  <2>3. \A n \in Stations : saved[n].parent = parent[n] /\ saved[n].distance = distance[n]
    BY DEF Init
  <2>4. \A n \in Stations : parent[n] = AUTO => distance[n] = DISTANCE_INVALID
    BY <2>1, StationNumbers DEF Stations
  <2> QED
    BY <2>1, <2>2, <2>3, <2>4 DEF Init, MeshInv, ParentIsCloser, isValidParent
<1>2. MeshInv /\ [Next]_vars => MeshInv'
  <2> SUFFICES ASSUME MeshInv, [Next]_vars PROVE MeshInv'
    OBVIOUS
  <2>1. ASSUME NEW n \in Devices, NEW heard, sendRoute(n, heard) PROVE MeshInv'
    <3>1. CASE SendWithoutParent(n, heard)
      BY <3>1, SearchStep DEF SendWithoutParent
    <3>2. CASE SendFailsOnceMore(n, heard)
      BY <3>2, SearchStep DEF SendFailsOnceMore
    <3>3. CASE SendToParent(n) \/ SendFails(n)
      BY <3>3, QuietStep DEF SendToParent, SendFails, air
    <3> QED
      BY <2>1, <3>1, <3>2, <3>3 DEF sendRoute
  <2>2. ASSUME NEW n \in Devices, NEW s \in Devices, NEW heard, SearchForPing(n, s, heard) PROVE MeshInv'
    BY <2>2, SearchStep DEF SearchForPing
  <2>3. ASSUME NEW n \in Stations, NEW heard, Restart(n, heard) PROVE MeshInv'
    <3>1. saved[n] \in [parent : Stations \cup {AUTO}, distance : Distances] /\ saved[n].parent = parent[n]
      BY DEF MeshInv
    <3> QED
      BY <2>3, <3>1, BeginStep DEF Restart
  <2>4. ASSUME NEW n \in Devices, NEW s \in Stations, NEW d \in Distances, NEW heard,
               PowerLossInSave(n, s, d, heard)
        PROVE  MeshInv'
    <3> DEFINE ee == [parent |-> s, distance |-> saved[n].distance]
    <3>1. ee \in [parent : Stations \cup {AUTO}, distance : Distances] /\ ee.distance = saved[n].distance
      BY StationNumbers DEF MeshInv
    <3>2. n \notin researched /\ s \notin researched => distance[s] < distance[n]
      <4> SUFFICES ASSUME s \notin researched PROVE distance[s] < distance[n]
        OBVIOUS
      <4>1. d + 1 < distance[n] /\ <<s, n, d>> \in replies
        BY <2>4 DEF PowerLossInSave, IsCloser
      <4>2. distance[s] <= d
        BY <4>1 DEF MeshInv
      <4> QED
        BY <4>1, <4>2, StationNumbers DEF MeshInv, Distances
    <3>3. begin(n, ee, heard) /\ ee.parent = s /\ n \in Stations
      BY <2>4, StationNumbers DEF PowerLossInSave
    <3> HIDE DEF ee
    <3> QED
      BY <3>1, <3>2, <3>3, BeginStep
  <2>5. ASSUME NEW n \in Stations, NEW s \in Devices,
               IgnorePing(n, s) \/ AcceptPing(n, s) \/ AnswerLost(n, s)
        PROVE  MeshInv'
    BY <2>5, QuietStep DEF IgnorePing, AcceptPing, AnswerLost, air
  <2>6. ASSUME NEW n \in Stations, NEW s \in Devices, Answer(n, s) PROVE MeshInv'
    BY <2>6, AnswerStep
  <2>7. ASSUME NEW n \in Devices, EndSearch(n) PROVE MeshInv'
    BY <2>7, QuietStep DEF EndSearch, air
  <2>8. ASSUME NEW n \in Devices, NEW s \in Stations, NEW d \in Distances, AcceptAnswer(n, s, d)
        PROVE  MeshInv'
    BY <2>8, AcceptStep
  <2>9. ASSUME NEW n \in Devices, NEW s \in Stations, NEW d \in Distances, IgnoreAnswer(n, s, d)
        PROVE  MeshInv'
    BY <2>9, QuietStep DEF IgnoreAnswer
  <2>10. CASE ContactChanges
    BY <2>10, QuietStep DEF ContactChanges, air
  <2>11. CASE UNCHANGED vars
    BY <2>11, QuietStep DEF vars, air
  <2> QED
    BY <2>1, <2>2, <2>3, <2>4, <2>5, <2>6, <2>7, <2>8, <2>9, <2>10, <2>11, StationNumbers DEF Next
<1> QED
  BY <1>1, <1>2, PTL DEF Spec

(* A parent is nearer to the gateway than its child unless one of the two   *)
(* searched again: for any number of devices, in any radio contact.         *)
THEOREM ParentsAreCloser == Spec => []ParentIsCloser
<1>1. MeshInv => ParentIsCloser
  BY DEF MeshInv
<1> QED
  BY <1>1, MeshInvariant, PTL

(* Every routing loop contains a node that searched again: in a network     *)
(* where no device ever lost its parent there is none.                      *)
THEOREM LoopsAreExplained == Spec => []LoopsComeFromSearches
<1>1. MeshInv => LoopsComeFromSearches
  <2> SUFFICES ASSUME MeshInv, NEW S \in SUBSET Devices, Trapped(S), S \cap researched = {}
               PROVE  FALSE
    BY DEF LoopsComeFromSearches
  <2>1. \A n \in S : parent[n] \in S /\ distance[parent[n]] < distance[n]
    <3> SUFFICES ASSUME NEW n \in S PROVE parent[n] \in S /\ distance[parent[n]] < distance[n]
      OBVIOUS
    <3>1. parent[n] \in S /\ isValidParent(parent[n])
      BY StationNumbers DEF Trapped, isValidParent
    <3> QED
      BY <3>1 DEF MeshInv, ParentIsCloser
  <2>2. PICK x \in {distance[n] : n \in S} : \A y \in {distance[n] : n \in S} : ~(y < x)
    <3>1. {distance[n] : n \in S} \subseteq Nat /\ {distance[n] : n \in S} # {}
      BY StationNumbers DEF Trapped, MeshInv, Distances
    <3> QED
      BY <3>1, SmallestOf
  <2>3. PICK n \in S : distance[n] = x
    BY <2>2
  <2> QED
    BY <2>1, <2>2, <2>3
<1> QED
  BY <1>1, MeshInvariant, PTL
===============================================================================
