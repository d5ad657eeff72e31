---------------------------- MODULE MyGatewayProofs ----------------------------
(***************************************************************************)
(* Safety of MyGateway for every set of nodes, table size and id range, and *)
(* that it implements SensorRegistry; at the end, with the devices of      *)
(* NodeIdNet, when two of them may come to have one id.                    *)
(***************************************************************************)
EXTENDS NodeIdNet, FiniteSetTheorems, WellFoundedInduction, TLAPS

(* Scanning from the lowest number up finds one whenever there is one. *)
LEMMA MinIn ==
  ASSUME NEW S \in SUBSET Nat, S # {}
  PROVE  Min(S) \in S
<1> DEFINE Less == {p \in Nat \X Nat : p[1] < p[2]}
<1>1. IsWellFoundedOn(Less, Nat)
  <2>1. OpToRel(<, Nat) = Less
    BY Zenon DEF OpToRel
  <2>2. QED
    BY <2>1, NatLessThanWellFounded, Zenon
<1>2. PICK x \in S : \A y \in S : ~ (<<y, x>> \in Less)
  BY <1>1, WFMin, Zenon
<1>3. ASSUME NEW y \in S PROVE x <= y
  <2>1. x \in Nat /\ y \in Nat
    OBVIOUS
  <2>2. ~ (<<y, x>> \in Less)
    BY <1>2
  <2>3. QED
    BY <2>1, <2>2
<1>4. QED
  BY <1>3 DEF Min

(* The first slot that holds k is a slot that holds k. *)
LEMMA FirstSlot ==
  ASSUME NEW k, SlotsHolding(k) # {}
  PROVE  Min(SlotsHolding(k)) \in Slots /\ mySensors[Min(SlotsHolding(k))].key = k
<1>1. SlotsHolding(k) \in SUBSET Nat
  BY GatewayAssumption DEF SlotsHolding, Slots
<1>2. Min(SlotsHolding(k)) \in SlotsHolding(k)
  BY <1>1, MinIn
<1>3. QED
  BY <1>2 DEF SlotsHolding

(* The lowest free id is free and may be given. *)
LEMMA FirstFreeId ==
  ASSUME FreeIds # {}
  PROVE  Min(FreeIds) \in FirstId..LastId /\ Min(FreeIds) \notin nodeIds
<1>1. FreeIds \in SUBSET Nat
  BY GatewayAssumption DEF FreeIds
<1>2. Min(FreeIds) \in FreeIds
  BY <1>1, MinIn
<1>3. QED
  BY <1>2 DEF FreeIds

(* Ranges of the ids, apart from the other assumptions on the constants.    *)
LEMMA NodeRange ==
  ASSUME NEW n \in Nodes
  PROVE  n \in 1..(AUTO - 1)
<1>1. Nodes \subseteq 1..(AUTO - 1)
  BY GatewayAssumption, Zenon
<1>2. QED
  BY <1>1

(* The node of a slot is a radio node, or 0 in an empty slot. *)
LEMMA KeyNode ==
  ASSUME NEW k \in Keys \cup {NoKey}
  PROVE  k[1] \in Nodes \cup {0}
<1>1. CASE k \in Keys
  BY <1>1 DEF Keys
<1>2. CASE k = NoKey
  BY <1>2 DEF NoKey
<1>3. QED
  BY <1>1, <1>2

(* A file of node/sensor keys restores at most 254 distinct nodes. *)
LEMMA RestoredCount ==
  ASSUME NEW file \in [Slots -> Keys \cup {NoKey}]
  PROVE  /\ RestoredIds(file) \subseteq Nodes \cup {GATEWAY_ADDRESS, AUTO}
         /\ Cardinality(RestoredIds(file) \ {GATEWAY_ADDRESS, AUTO}) \in Nat
         /\ Cardinality(RestoredIds(file) \ {GATEWAY_ADDRESS, AUTO}) < UINT8
<1> DEFINE Others == RestoredIds(file) \ {GATEWAY_ADDRESS, AUTO}
<1>1. \A i \in Slots : file[i][1] \in Nodes \cup {0}
  BY KeyNode
<1>2. RestoredIds(file) \subseteq Nodes \cup {GATEWAY_ADDRESS, AUTO}
  BY <1>1 DEF RestoredIds, GATEWAY_ADDRESS
<1>3. Others \in SUBSET Nodes
  BY <1>2
<1>4. IsFiniteSet(Others) /\ Cardinality(Others) < AUTO
  <2>1. Nodes \in SUBSET (1..(AUTO - 1))
    BY NodeRange
  <2>2. Others \in SUBSET (1..(AUTO - 1))
    BY <1>3, <2>1
  <2>3. AUTO \in Int /\ AUTO > 1
    BY SMT DEF AUTO
  <2>4. IsFiniteSet(1..(AUTO - 1)) /\ Cardinality(1..(AUTO - 1)) = AUTO - 1
    BY <2>3, FS_Interval
  <2>5. IsFiniteSet(Others) /\ Cardinality(Others) <= AUTO - 1
    BY <2>2, <2>4, FS_Subset
  <2>6. QED
    BY <2>3, <2>5, FS_CardinalityType
<1>5. Cardinality(Others) \in Nat
  BY <1>4, FS_CardinalityType
<1> HIDE DEF Others
<1>6. Cardinality(Others) < UINT8
  BY <1>4, <1>5, SMT DEF AUTO, UINT8
<1>7. QED
  BY <1>2, <1>5, <1>6 DEF Others

-------------------------------------------------------------------------------
(* The fields of a message. *)
LEMMA MessageTyped ==
  ASSUME NEW m \in Messages
  PROVE  /\ m.sender \in Nodes \cup {AUTO}
         /\ m.sensor \in ChildIds \cup {AUTO}
         /\ m.value \in Values \cup {NoValue}
<1>1. CASE m \in [kind : {"SET"}, sender : Nodes, sensor : ChildIds, value : Values]
  BY <1>1
<1>2. CASE m \in [kind : {"PRESENTATION"}, sender : Nodes, sensor : ChildIds \cup {AUTO},
                  value : {NoValue}]
  BY <1>2
<1>3. CASE m \in [kind : {"CONFIG", "ID_REQUEST", "OTHER", "ACK"},
                  sender : Nodes \cup {AUTO}, sensor : {AUTO}, value : {NoValue}]
  BY <1>3
<1>4. QED
  BY <1>1, <1>2, <1>3, Zenon DEF Messages

(* A report is about a sensor of a radio node. *)
LEMMA ReportTyped ==
  ASSUME NEW m \in Messages, IsReport(m)
  PROVE  KeyOf(m) \in Keys /\ m.value \in Values \cup {NoValue}
<1>1. m.sender \in Nodes /\ m.sensor \in ChildIds
  <2>1. m.sender \in 1..(AUTO - 1) /\ m.sensor < AUTO
    BY DEF IsReport
  <2>2. AUTO \notin 1..(AUTO - 1) /\ ~ (AUTO < AUTO)
    BY SMT DEF AUTO
  <2>3. m.sender # AUTO /\ m.sensor # AUTO
    BY <2>1, <2>2
  <2>4. m.sender \in Nodes \cup {AUTO} /\ m.sensor \in ChildIds \cup {AUTO}
    BY MessageTyped
  <2>5. QED
    BY <2>3, <2>4
<1>2. QED
  BY <1>1, MessageTyped DEF KeyOf, Keys

(* Counters stay within their widths. *)
LEMMA Wraps ==
  ASSUME NEW n \in Nat
  PROVE  /\ n % UINT8 \in Nat /\ n % UINT8 < UINT8
         /\ n % UINT16 \in Nat /\ n % UINT16 < UINT16
BY SMT DEF UINT8, UINT16

(* What a step needs to know of a message that is not an acknowledgement.   *)
LEMMA NoticeSenderTyped ==
  ASSUME TypeOK, NEW m \in Messages, NEW added \in {0, 1}, NoticeSender(m, added)
  PROVE  /\ nodeIds' \subseteq Nodes \cup {GATEWAY_ADDRESS, AUTO}
         /\ numDetectedNodes' \in Nat /\ numDetectedNodes' < UINT8
         /\ numDetectedSensors' \in Nat /\ numDetectedSensors' < UINT16
         /\ status' \in [nodes : Nat, sensors : Nat]
<1> DEFINE new == IF m.sender \in nodeIds THEN 0 ELSE 1
<1>1. new \in {0, 1}
  OBVIOUS
<1>2. m.sender \in Nodes \cup {AUTO}
  BY MessageTyped
<1>3. nodeIds' \subseteq Nodes \cup {GATEWAY_ADDRESS, AUTO}
  <2>1. nodeIds' = nodeIds \cup {m.sender} /\ nodeIds \subseteq Nodes \cup {GATEWAY_ADDRESS, AUTO}
    BY Zenon DEF TypeOK, NoticeSender
  <2>2. QED
    BY <1>2, <2>1
<1> HIDE DEF new
<1>4. numDetectedNodes' = (numDetectedNodes + new) % UINT8 /\ numDetectedNodes \in Nat /\ numDetectedNodes < UINT8
  BY Zenon DEF TypeOK, NoticeSender, new
<1>5. numDetectedSensors' = (numDetectedSensors + added) % UINT16
      /\ numDetectedSensors \in Nat /\ numDetectedSensors < UINT16
  BY Zenon DEF TypeOK, NoticeSender
<1>6. numDetectedNodes' \in Nat /\ numDetectedNodes' < UINT8 /\ numDetectedSensors' \in Nat /\ numDetectedSensors' < UINT16
  BY <1>1, <1>4, <1>5, Wraps
<1>7. status' = [nodes |-> status.nodes + new, sensors |-> status.sensors + added]
      /\ status \in [nodes : Nat, sensors : Nat]
  BY Zenon DEF TypeOK, NoticeSender, new
<1>8. status' \in [nodes : Nat, sensors : Nat]
  BY <1>1, <1>7
<1>9. QED
  BY <1>3, <1>6, <1>8

(* All state stays within its types, whatever the nodes send: ids are those  *)
(* of radio nodes and the 8- and 16-bit counters fit their widths.           *)
THEOREM TypeInvariant == Spec => []TypeOK
<1> USE DEF TypeOK
<1>0. NoFile \in [Slots -> Keys \cup {NoKey}]
  BY DEF NoFile
<1>1. Init => TypeOK
  <2> SUFFICES ASSUME Init PROVE TypeOK
    OBVIOUS
  <2>1. nodeIds \subseteq Nodes \cup {GATEWAY_ADDRESS, AUTO}
    BY <1>0, RestoredCount DEF Init
  <2>2. mySensors \in [Slots -> [key : Keys \cup {NoKey}, value : Values \cup {NoValue}]]
    BY <1>0 DEF Init, RestoredTable
  <2>3. QED
    BY <1>0, <2>1, <2>2, SMT DEF Init, Silent, UINT8, UINT16
<1>2. TypeOK /\ [Next]_vars => TypeOK'
  <2> SUFFICES ASSUME TypeOK, [Next]_vars PROVE TypeOK'
    OBVIOUS
  <2>begin. ASSUME NEW file \in [Slots -> Keys \cup {NoKey}], begin(file), sensorsFile' = file
            PROVE  TypeOK'
    <3>1. mySensors' \in [Slots -> [key : Keys \cup {NoKey}, value : Values \cup {NoValue}]]
      BY <2>begin DEF begin, RestoredTable
    <3>2. nodeIds' \subseteq Nodes \cup {GATEWAY_ADDRESS, AUTO} /\ numDetectedNodes' \in Nat /\ numDetectedNodes' < UINT8
      BY <2>begin, RestoredCount DEF begin
    <3>3. QED
      BY <2>begin, <3>1, <3>2, SMT DEF begin, Silent, UINT16
  <2>1. ASSUME NEW m \in Messages, IgnoreAck(m) PROVE TypeOK'
    BY <2>1 DEF IgnoreAck, counters, table, Silent
  <2>2. ASSUME NEW m \in Messages, ReplyConfig(m) PROVE TypeOK'
    BY <2>2, NoticeSenderTyped DEF ReplyConfig, table, Silent
  <2>3. ASSUME NEW m \in Messages, AssignId(m) PROVE TypeOK'
    <3>1. Min(FreeIds) \in FirstId..LastId
      BY <2>3, FirstFreeId DEF AssignId
    <3>2. Min(FreeIds) \in Nodes
      BY <3>1, GatewayAssumption
    <3>3. nodeIds' \subseteq Nodes \cup {GATEWAY_ADDRESS, AUTO}
      BY <2>3, <3>2 DEF AssignId
    <3>4. out'.forwarded = {} /\ out'.trigger = 0
      BY <2>3 DEF AssignId, Silent
    <3>5. QED
      BY <2>3, <3>3, <3>4 DEF AssignId, counters, table
  <2>4. ASSUME NEW m \in Messages, NoIdLeft(m) PROVE TypeOK'
    BY <2>4 DEF NoIdLeft, counters, table, Silent
  <2>5. ASSUME NEW m \in Messages, UpdateSensor(m) PROVE TypeOK'
    <3> DEFINE i == Min(SlotsHolding(KeyOf(m)))
    <3>1. i \in Slots
      BY <2>5, FirstSlot DEF UpdateSensor
    <3>2. mySensors' \in [Slots -> [key : Keys \cup {NoKey}, value : Values \cup {NoValue}]]
      BY <2>5, <3>1 DEF UpdateSensor, Messages
    <3>3. out'.forwarded \subseteq Messages /\ out'.trigger \in Slots \cup {0}
      BY <2>5, <3>1 DEF UpdateSensor, Silent
    <3>4. QED
      BY <2>5, <3>2, <3>3, NoticeSenderTyped DEF UpdateSensor
  <2>6. ASSUME NEW m \in Messages, AddSensor(m) PROVE TypeOK'
    <3> DEFINE i == Min(SlotsHolding(NoKey))
    <3>1. i \in Slots
      BY <2>6, FirstSlot DEF AddSensor, NewSensor
    <3>2. KeyOf(m) \in Keys /\ m.value \in Values \cup {NoValue}
      BY <2>6, ReportTyped DEF AddSensor, NewSensor
    <3>3. mySensors' \in [Slots -> [key : Keys \cup {NoKey}, value : Values \cup {NoValue}]]
      BY <2>6, <3>1, <3>2 DEF AddSensor
    <3>4. sensorsFile' \in [Slots -> Keys \cup {NoKey}]
      BY <2>6, <3>3 DEF AddSensor
    <3>5. out'.forwarded \subseteq Messages /\ out'.trigger \in Slots \cup {0}
      BY <2>6, <3>1 DEF AddSensor, Silent
    <3>6. QED
      BY <2>6, <3>3, <3>4, <3>5, NoticeSenderTyped DEF AddSensor
  <2>7. ASSUME NEW m \in Messages, DropReport(m) PROVE TypeOK'
    BY <2>7, NoticeSenderTyped DEF DropReport, table, Silent
  <2>8. ASSUME NEW m \in Messages, PassOn(m) PROVE TypeOK'
    BY <2>8, NoticeSenderTyped DEF PassOn, table, Silent
  <2>9. ASSUME NEW m \in Messages, PowerLossInSave(m) PROVE TypeOK'
    BY <1>0, <2>9, <2>begin DEF PowerLossInSave
  <2>10. ASSUME NEW k \in UserKeys, onWsSetActuator(k) PROVE TypeOK'
    BY <2>10 DEF onWsSetActuator, counters, table, Silent
  <2>11. ASSUME NEW k \in UserKeys, RemoveSensor(k) PROVE TypeOK'
    <3>1. Min(SlotsHolding(k)) \in Slots
      BY <2>11, FirstSlot DEF RemoveSensor
    <3>2. QED
      BY <2>11, <3>1 DEF RemoveSensor, EmptySlot, counters, Silent
  <2>12. ASSUME NEW i \in Slots, setSensorValue(i) PROVE TypeOK'
    BY <2>12 DEF setSensorValue, counters, table, Silent
  <2>13. CASE Restart \/ FirmwareUpdate
    BY <1>0, <2>13, <2>begin DEF Restart, FirmwareUpdate
  <2>14. CASE UNCHANGED vars
    BY <2>14 DEF vars
  <2>15. QED
    BY <2>1, <2>2, <2>3, <2>4, <2>5, <2>6, <2>7, <2>8, <2>9, <2>10, <2>11, <2>12,
       <2>13, <2>14 DEF Next, incomingMessage
<1>3. QED
  BY <1>1, <1>2, PTL DEF Spec

-------------------------------------------------------------------------------
(* The table and the file are only coherent together.  An insertion looks   *)
(* for the sensor first, so it cannot duplicate it; a restart copies the    *)
(* file into the table, so the file must be free of duplicates as well; and *)
(* it is, because it was a copy of the table.                               *)
NoDuplicateSaved ==
  \A i, j \in Slots : sensorsFile[i] = sensorsFile[j] /\ sensorsFile[i] # NoKey => i = j

TableInv ==
  /\ TypeOK
  /\ NoDuplicateSensor
  /\ NoDuplicateSaved
  /\ SlotsAreSaved
  /\ NodesKnown
  /\ {GATEWAY_ADDRESS, AUTO} \subseteq nodeIds

(* NodesKnown survives a step that forgets no id and touches no slot. *)
LEMMA TableUntouched ==
  ASSUME TableInv, TypeOK', UNCHANGED table, nodeIds \subseteq nodeIds'
  PROVE  TableInv'
<1>1. mySensors' = mySensors /\ sensorsFile' = sensorsFile
  BY DEF table
<1>2. NoDuplicateSensor' /\ NoDuplicateSaved' /\ SlotsAreSaved'
  BY <1>1 DEF TableInv, NoDuplicateSensor, NoDuplicateSaved, SlotsAreSaved
<1>3. NodesKnown'
  BY <1>1 DEF TableInv, NodesKnown
<1>4. QED
  BY <1>2, <1>3 DEF TableInv

(* Restarting from any file free of duplicates is safe. *)
LEMMA RestartSafe ==
  ASSUME NEW file, begin(file), sensorsFile' = file, TypeOK',
         \A i, j \in Slots : file[i] = file[j] /\ file[i] # NoKey => i = j
  PROVE  TableInv'
<1>1. \A i \in Slots : mySensors'[i].key = file[i]
  BY DEF begin, RestoredTable
<1>2. NoDuplicateSensor' /\ NoDuplicateSaved' /\ SlotsAreSaved'
  BY <1>1 DEF NoDuplicateSensor, NoDuplicateSaved, SlotsAreSaved
<1>3. nodeIds' = RestoredIds(file)
  BY DEF begin
<1>4. NodesKnown'
  BY <1>1, <1>3 DEF NodesKnown, RestoredIds
<1>5. QED
  BY <1>2, <1>3, <1>4 DEF TableInv, RestoredIds

(* The inductive invariant of the table: saved slots mirror it, no sensor is *)
(* in two slots of either, and every node of either is known.                *)
LEMMA TableInvariant == Spec => []TableInv
<1>0. \A i, j \in Slots : NoFile[i] = NoFile[j] /\ NoFile[i] # NoKey => i = j
  BY DEF NoFile
<1>1. Init /\ TypeOK => TableInv
  <2> SUFFICES ASSUME Init, TypeOK PROVE TableInv
    OBVIOUS
  <2>1. \A i \in Slots : mySensors[i].key = NoKey /\ sensorsFile[i] = NoKey
    BY DEF Init, RestoredTable, NoFile
  <2>2. nodeIds = RestoredIds(NoFile)
    BY DEF Init
  <2>3. {GATEWAY_ADDRESS, AUTO} \subseteq nodeIds
    BY <2>2 DEF RestoredIds
  <2>4. NodesKnown
    BY <2>1, <2>3 DEF NodesKnown, NoKey, GATEWAY_ADDRESS
  <2>5. QED
    BY <2>1, <2>3, <2>4 DEF TableInv, NoDuplicateSensor, NoDuplicateSaved, SlotsAreSaved
<1>2. TableInv /\ TypeOK' /\ [Next]_vars => TableInv'
  <2> SUFFICES ASSUME TableInv, TypeOK', [Next]_vars PROVE TableInv'
    OBVIOUS
  <2>1. ASSUME NEW m \in Messages,
               IgnoreAck(m) \/ AssignId(m) \/ NoIdLeft(m)
        PROVE  TableInv'
    BY <2>1, TableUntouched DEF IgnoreAck, AssignId, NoIdLeft
  <2>2. ASSUME NEW m \in Messages,
               ReplyConfig(m) \/ DropReport(m) \/ PassOn(m)
        PROVE  TableInv'
    BY <2>2, TableUntouched DEF ReplyConfig, DropReport, PassOn, NoticeSender
  <2>3. ASSUME NEW m \in Messages, UpdateSensor(m) PROVE TableInv'
    <3>1. \A j \in Slots : mySensors'[j].key = mySensors[j].key
      <4>1. Min(SlotsHolding(KeyOf(m))) \in Slots
        BY <2>3, FirstSlot DEF UpdateSensor
      <4>2. QED
        BY <2>3, <4>1 DEF UpdateSensor, TableInv, TypeOK
    <3>2. sensorsFile' = sensorsFile /\ nodeIds \subseteq nodeIds'
      BY <2>3 DEF UpdateSensor, NoticeSender
    <3>3. NoDuplicateSensor' /\ NoDuplicateSaved' /\ SlotsAreSaved'
      BY <3>1, <3>2 DEF TableInv, NoDuplicateSensor, NoDuplicateSaved, SlotsAreSaved
    <3>4. NodesKnown'
      BY <3>1, <3>2 DEF TableInv, NodesKnown
    <3>5. QED
      BY <3>2, <3>3, <3>4 DEF TableInv
  <2>4. ASSUME NEW m \in Messages, AddSensor(m) PROVE TableInv'
    <3> DEFINE i == Min(SlotsHolding(NoKey))
               k == KeyOf(m)
    <3>1. i \in Slots
      BY <2>4, FirstSlot DEF AddSensor, NewSensor
    <3>2. mySensors' = [mySensors EXCEPT ![i] = [key |-> k, value |-> m.value]]
      BY <2>4 DEF AddSensor
    <3> HIDE DEF i, k
    <3>3. mySensors'[i].key = k /\ \A j \in Slots \ {i} : mySensors'[j] = mySensors[j]
      BY <3>1, <3>2 DEF TableInv, TypeOK
    <3>4. \A j \in Slots : mySensors[j].key # k
      BY <2>4 DEF AddSensor, NewSensor, SlotsHolding, k
    <3>5. NoDuplicateSensor'
      BY <3>3, <3>4 DEF TableInv, NoDuplicateSensor
    <3>6. \A j \in Slots : sensorsFile'[j] = mySensors'[j].key
      BY <2>4 DEF AddSensor
    <3>7. NoDuplicateSaved' /\ SlotsAreSaved'
      BY <3>5, <3>6 DEF NoDuplicateSensor, NoDuplicateSaved, SlotsAreSaved
    <3>8. nodeIds' = nodeIds \cup {m.sender} /\ k[1] = m.sender
      BY <2>4 DEF AddSensor, NoticeSender, KeyOf, k
    <3>9. NodesKnown'
      <4>1. \A j \in Slots : mySensors'[j].key[1] \in nodeIds'
        BY <3>3, <3>8 DEF TableInv, NodesKnown
      <4>2. QED
        BY <3>6, <4>1 DEF NodesKnown
    <3>10. QED
      BY <3>5, <3>7, <3>8, <3>9 DEF TableInv
  <2>5. ASSUME NEW m \in Messages, PowerLossInSave(m) PROVE TableInv'
    BY <1>0, <2>5, RestartSafe DEF PowerLossInSave
  <2>6. ASSUME NEW k \in UserKeys, onWsSetActuator(k) PROVE TableInv'
    BY <2>6, TableUntouched DEF onWsSetActuator
  <2>7. ASSUME NEW k \in UserKeys, RemoveSensor(k) PROVE TableInv'
    <3> DEFINE i == Min(SlotsHolding(k))
    <3>1. i \in Slots
      BY <2>7, FirstSlot DEF RemoveSensor
    <3>2. mySensors' = [mySensors EXCEPT ![i] = EmptySlot]
      BY <2>7 DEF RemoveSensor
    <3> HIDE DEF i
    <3>3. mySensors'[i].key = NoKey /\ \A j \in Slots \ {i} : mySensors'[j] = mySensors[j]
      BY <3>1, <3>2 DEF TableInv, TypeOK, EmptySlot
    <3>4. sensorsFile' = sensorsFile /\ nodeIds' = nodeIds
      BY <2>7 DEF RemoveSensor
    <3>5. NoDuplicateSensor' /\ NoDuplicateSaved' /\ SlotsAreSaved'
      BY <3>3, <3>4 DEF TableInv, NoDuplicateSensor, NoDuplicateSaved, SlotsAreSaved
    <3>6. NodesKnown'
      <4>1. NoKey[1] \in nodeIds'
        BY <3>4 DEF TableInv, NoKey, GATEWAY_ADDRESS
      <4>2. QED
        BY <3>3, <3>4, <4>1 DEF TableInv, NodesKnown
    <3>7. QED
      BY <3>4, <3>5, <3>6 DEF TableInv
  <2>8. ASSUME NEW i \in Slots, setSensorValue(i) PROVE TableInv'
    BY <2>8, TableUntouched DEF setSensorValue
  <2>9. CASE Restart \/ FirmwareUpdate
    BY <1>0, <2>9, RestartSafe DEF Restart, FirmwareUpdate, TableInv, NoDuplicateSaved
  <2>10. CASE UNCHANGED vars
    BY <2>10, TableUntouched DEF vars, table
  <2>11. QED
    BY <2>1, <2>2, <2>3, <2>4, <2>5, <2>6, <2>7, <2>8, <2>9, <2>10 DEF Next, incomingMessage
<1>3. QED
  BY <1>1, <1>2, TypeInvariant, PTL DEF Spec

-------------------------------------------------------------------------------
(* mySensors never holds a sensor twice, for any number of slots, nodes,    *)
(* removals and restarts.                                                   *)
THEOREM SensorsAreUnique == Spec => []NoDuplicateSensor
<1>1. TableInv => NoDuplicateSensor
  BY DEF TableInv
<1>2. QED
  BY <1>1, TableInvariant, PTL

(* Whatever slot is in use, sensors.json brings it back in the same place.  *)
THEOREM SlotsSurviveRestart == Spec => []SlotsAreSaved
<1>1. TableInv => SlotsAreSaved
  BY DEF TableInv
<1>2. QED
  BY <1>1, TableInvariant, PTL

(* Every node of the table or the file has its flag in nodeIds set.         *)
THEOREM TableNodesAreKnown == Spec => []NodesKnown
<1>1. TableInv => NodesKnown
  BY DEF TableInv
<1>2. QED
  BY <1>1, TableInvariant, PTL

(* incomingMessage answers an I_ID_REQUEST with an id that is not in use.   *)
THEOREM GivenIdsAreFresh == Spec => GivenIdIsFresh
<1> DEFINE Fresh == \A r \in out'.sent : r.kind = "ID_RESPONSE" =>
                      /\ r.arg \notin nodeIds
                      /\ \A i \in Slots : r.arg \notin {mySensors[i].key[1], sensorsFile[i][1]}
                      /\ r.arg \in nodeIds'
<1>1. TableInv /\ [Next]_vars => [Fresh]_vars
  <2> SUFFICES ASSUME TableInv, Next PROVE Fresh
    OBVIOUS
  <2>1. ASSUME NEW m \in Messages, AssignId(m) PROVE Fresh
    <3> DEFINE id == Min(FreeIds)
    <3>1. id \notin nodeIds
      BY <2>1, FirstFreeId DEF AssignId
    <3>2. \A i \in Slots : id \notin {mySensors[i].key[1], sensorsFile[i][1]}
      BY <3>1 DEF TableInv, NodesKnown
    <3>3. id \in nodeIds' /\ out'.sent = {ToNode("ID_RESPONSE", AUTO, id)}
      BY <2>1 DEF AssignId, Silent
    <3>4. QED
      BY <3>1, <3>2, <3>3 DEF ToNode
  <2>2. ASSUME NEW m \in Messages,
               IgnoreAck(m) \/ NoIdLeft(m) \/ DropReport(m) \/ PassOn(m)
                 \/ PowerLossInSave(m)
        PROVE  Fresh
    <3>1. out' = Silent \/ out' = [Silent EXCEPT !.forwarded = {m}]
      BY <2>2 DEF IgnoreAck, NoIdLeft, DropReport, PassOn, PowerLossInSave, begin
    <3>2. QED
      BY <3>1 DEF Silent
  <2>3. ASSUME NEW m \in Messages, UpdateSensor(m) PROVE Fresh
    BY <2>3 DEF UpdateSensor, Silent
  <2>4. ASSUME NEW m \in Messages, AddSensor(m) PROVE Fresh
    BY <2>4 DEF AddSensor, Silent
  <2>5. ASSUME NEW m \in Messages, ReplyConfig(m) PROVE Fresh
    BY <2>5 DEF ReplyConfig, ToNode, Silent
  <2>6. ASSUME NEW k \in UserKeys, onWsSetActuator(k) \/ RemoveSensor(k) PROVE Fresh
    BY <2>6 DEF onWsSetActuator, RemoveSensor, ToNode, Silent
  <2>7. ASSUME NEW i \in Slots, setSensorValue(i) PROVE Fresh
    BY <2>7 DEF setSensorValue, ToNode, Silent
  <2>8. CASE Restart \/ FirmwareUpdate
    BY <2>8 DEF Restart, FirmwareUpdate, begin, Silent
  <2>9. QED
    BY <2>1, <2>2, <2>3, <2>4, <2>5, <2>6, <2>7, <2>8 DEF Next, incomingMessage
<1>2. QED
  BY <1>1, TableInvariant, PTL DEF Spec, GivenIdIsFresh

(* No step, a restart included, puts another sensor in a slot that is in use. *)
THEOREM SlotsKeepTheirSensor == Spec => SlotKeepsItsSensor
<1> DEFINE Kept == \A i \in Slots : mySensors[i].key # NoKey =>
                     mySensors'[i].key \in {mySensors[i].key, NoKey}
<1>1. TableInv /\ [Next]_vars => [Kept]_vars
  <2> SUFFICES ASSUME TableInv, Next PROVE Kept
    OBVIOUS
  <2>1. ASSUME NEW m \in Messages, UpdateSensor(m) PROVE Kept
    <3>1. Min(SlotsHolding(KeyOf(m))) \in Slots
      BY <2>1, FirstSlot DEF UpdateSensor
    <3>2. QED
      BY <2>1, <3>1 DEF UpdateSensor, TableInv, TypeOK
  <2>2. ASSUME NEW m \in Messages, AddSensor(m) PROVE Kept
    <3> DEFINE i == Min(SlotsHolding(NoKey))
    <3>1. i \in Slots /\ mySensors[i].key = NoKey
      BY <2>2, FirstSlot DEF AddSensor, NewSensor
    <3>2. mySensors' = [mySensors EXCEPT ![i] = [key |-> KeyOf(m), value |-> m.value]]
      BY <2>2 DEF AddSensor
    <3> HIDE DEF i
    <3>3. QED
      BY <3>1, <3>2 DEF TableInv, TypeOK
  <2>3. ASSUME NEW k \in UserKeys, RemoveSensor(k) PROVE Kept
    <3>1. Min(SlotsHolding(k)) \in Slots
      BY <2>3, FirstSlot DEF RemoveSensor
    <3>2. QED
      BY <2>3, <3>1 DEF RemoveSensor, EmptySlot, TableInv, TypeOK
  <2>4. ASSUME NEW file, begin(file), file = sensorsFile \/ file = NoFile PROVE Kept
    <3>1. \A i \in Slots : mySensors'[i].key = file[i]
      BY <2>4 DEF begin, RestoredTable
    <3>2. CASE file = sensorsFile
      BY <3>1, <3>2 DEF TableInv, SlotsAreSaved
    <3>3. CASE file = NoFile
      BY <3>1, <3>3 DEF NoFile
    <3>4. QED
      BY <2>4, <3>2, <3>3
  <2>5. ASSUME NEW m \in Messages,
               IgnoreAck(m) \/ ReplyConfig(m) \/ AssignId(m) \/ NoIdLeft(m)
                 \/ DropReport(m) \/ PassOn(m)
        PROVE  Kept
    BY <2>5 DEF IgnoreAck, ReplyConfig, AssignId, NoIdLeft, DropReport, PassOn, table
  <2>6. ASSUME NEW k \in UserKeys, onWsSetActuator(k) PROVE Kept
    BY <2>6 DEF onWsSetActuator, table
  <2>7. ASSUME NEW i \in Slots, setSensorValue(i) PROVE Kept
    BY <2>7 DEF setSensorValue, table
  <2>8. QED
    BY <2>1, <2>2, <2>3, <2>4, <2>5, <2>6, <2>7
       DEF Next, incomingMessage, Restart, FirmwareUpdate, PowerLossInSave
<1>2. QED
  BY <1>1, TableInvariant, PTL DEF Spec, SlotKeepsItsSensor

-------------------------------------------------------------------------------
(* incomingMessage hands a C_SET to the controller, and runs the rules of a *)
(* slot, only once that slot holds the sensor and the value.                *)
THEOREM ForwardedValuesAreStored == Spec => []ForwardedIsStored
<1>1. Init => ForwardedIsStored
  BY DEF Init, Silent, ForwardedIsStored
<1>2. TableInv /\ TableInv' /\ ForwardedIsStored /\ [Next]_vars => ForwardedIsStored'
  <2> SUFFICES ASSUME TableInv, TableInv', ForwardedIsStored, [Next]_vars
               PROVE  ForwardedIsStored'
    OBVIOUS
  <2>quiet. ASSUME out'.forwarded = {} PROVE ForwardedIsStored'
    BY <2>quiet DEF ForwardedIsStored
  <2>stored. ASSUME NEW m, NEW i \in Slots, KeyOf(m) # NoKey,
                    out'.forwarded = {m}, m.kind = "SET" => out'.trigger = i,
                    mySensors'[i].key = KeyOf(m),
                    m.kind = "SET" => mySensors'[i].value = m.value
             PROVE  ForwardedIsStored'
    <3>1. \A j \in Slots : mySensors'[j].key = KeyOf(m) => j = i
      BY <2>stored DEF TableInv, NoDuplicateSensor
    <3>2. {j \in Slots : mySensors'[j].key = KeyOf(m)} = {i}
      BY <2>stored, <3>1
    <3>3. QED
      BY <2>stored, <3>2 DEF ForwardedIsStored, SlotsHolding
  <2>1. ASSUME NEW m \in Messages, UpdateSensor(m) PROVE ForwardedIsStored'
    <3> DEFINE i == Min(SlotsHolding(KeyOf(m)))
    <3>1. i \in Slots /\ mySensors[i].key = KeyOf(m)
      BY <2>1, FirstSlot DEF UpdateSensor
    <3>2. KeyOf(m) # NoKey
      BY <2>1, SMT DEF UpdateSensor, IsReport, KeyOf, NoKey
    <3>3. CASE m.kind = "SET"
      <4>1. mySensors' = [mySensors EXCEPT ![i].value = m.value]
        BY <2>1, <3>3 DEF UpdateSensor
      <4>2. out'.forwarded = {m} /\ out'.trigger = i
        BY <2>1, <3>3 DEF UpdateSensor, Silent
      <4> HIDE DEF i
      <4>3. mySensors'[i].key = KeyOf(m) /\ mySensors'[i].value = m.value
        BY <3>1, <4>1 DEF TableInv, TypeOK
      <4>4. QED
        BY <3>1, <3>2, <4>2, <4>3, <2>stored
    <3>4. CASE m.kind # "SET"
      BY <2>1, <3>4 DEF UpdateSensor, Silent, ForwardedIsStored
    <3>5. QED
      BY <3>3, <3>4
  <2>2. ASSUME NEW m \in Messages, AddSensor(m) PROVE ForwardedIsStored'
    <3> DEFINE i == Min(SlotsHolding(NoKey))
    <3>1. i \in Slots
      BY <2>2, FirstSlot DEF AddSensor, NewSensor
    <3>2. KeyOf(m) # NoKey
      BY <2>2, SMT DEF AddSensor, NewSensor, IsReport, KeyOf, NoKey
    <3>3. mySensors' = [mySensors EXCEPT ![i] = [key |-> KeyOf(m), value |-> m.value]]
      BY <2>2 DEF AddSensor
    <3>4. out'.forwarded = {m} /\ (m.kind = "SET" => out'.trigger = i)
      BY <2>2 DEF AddSensor, Silent
    <3> HIDE DEF i
    <3>5. mySensors'[i].key = KeyOf(m) /\ mySensors'[i].value = m.value
      BY <3>1, <3>3 DEF TableInv, TypeOK
    <3>6. QED
      BY <3>1, <3>2, <3>4, <3>5, <2>stored
  <2>3. ASSUME NEW m \in Messages, PassOn(m) PROVE ForwardedIsStored'
    <3>1. m.kind # "SET"
      <4>1. CASE m \in [kind : {"SET"}, sender : Nodes, sensor : ChildIds, value : Values]
        <5>1. m.sender \in 1..(AUTO - 1) /\ m.sensor \in 0..(AUTO - 1)
          BY <4>1, GatewayAssumption, Zenon
        <5>2. m.sensor < AUTO
          BY <5>1, SMT DEF AUTO
        <5>3. m.kind = "SET" => IsReport(m)
          BY <5>1, <5>2 DEF IsReport
        <5>4. QED
          BY <2>3, <5>3 DEF PassOn
      <4>2. QED
        BY <4>1 DEF Messages
    <3>2. QED
      BY <2>3, <3>1 DEF PassOn, Silent, ForwardedIsStored
  <2>4. ASSUME NEW m \in Messages,
               IgnoreAck(m) \/ ReplyConfig(m) \/ AssignId(m) \/ NoIdLeft(m)
                 \/ DropReport(m) \/ PowerLossInSave(m)
        PROVE  ForwardedIsStored'
    <3>1. out'.forwarded = {}
      BY <2>4 DEF IgnoreAck, ReplyConfig, AssignId, NoIdLeft, DropReport,
                  PowerLossInSave, begin, Silent
    <3>2. QED
      BY <3>1, <2>quiet
  <2>5. ASSUME NEW k \in UserKeys, onWsSetActuator(k) \/ RemoveSensor(k)
        PROVE  ForwardedIsStored'
    BY <2>5, <2>quiet DEF onWsSetActuator, RemoveSensor, Silent
  <2>6. ASSUME NEW i \in Slots, setSensorValue(i) PROVE ForwardedIsStored'
    BY <2>6, <2>quiet DEF setSensorValue, Silent
  <2>7. CASE Restart \/ FirmwareUpdate
    BY <2>7, <2>quiet DEF Restart, FirmwareUpdate, begin, Silent
  <2>8. CASE UNCHANGED vars
    BY <2>8 DEF vars, ForwardedIsStored, SlotsHolding
  <2>9. QED
    BY <2>1, <2>2, <2>3, <2>4, <2>5, <2>6, <2>7, <2>8 DEF Next, incomingMessage
<1>3. QED
  BY <1>1, <1>2, TableInvariant, PTL DEF Spec

-------------------------------------------------------------------------------
(* Adding an id that is not in use counts one more known node, and there    *)
(* are never more of them than an uint8_t can count.                        *)
LEMMA KnownNodesCount ==
  ASSUME NEW ids, ids \subseteq Nodes \cup {GATEWAY_ADDRESS, AUTO}
  PROVE  LET known == ids \ {GATEWAY_ADDRESS, AUTO}
         IN IsFiniteSet(known) /\ Cardinality(known) \in Nat /\ Cardinality(known) < AUTO
<1> DEFINE known == ids \ {GATEWAY_ADDRESS, AUTO}
<1>1. known \in SUBSET (1..(AUTO - 1))
  BY NodeRange
<1>2. AUTO \in Int /\ AUTO > 1
  BY SMT DEF AUTO
<1>3. IsFiniteSet(1..(AUTO - 1)) /\ Cardinality(1..(AUTO - 1)) = AUTO - 1
  BY <1>2, FS_Interval
<1>4. IsFiniteSet(known) /\ Cardinality(known) <= AUTO - 1
  BY <1>1, <1>3, FS_Subset
<1>5. QED
  BY <1>2, <1>4, FS_CardinalityType

(* A newly flagged id makes the number of known nodes one larger. *)
LEMMA OneMoreKnown ==
  ASSUME TableInv, NEW n \in Nodes \cup {AUTO}, n \notin nodeIds, nodeIds' = nodeIds \cup {n}
  PROVE  Cardinality(nodeIds' \ {GATEWAY_ADDRESS, AUTO})
           = Cardinality(nodeIds \ {GATEWAY_ADDRESS, AUTO}) + 1
<1>1. n \notin {GATEWAY_ADDRESS, AUTO}
  BY DEF TableInv
<1>2. nodeIds' \ {GATEWAY_ADDRESS, AUTO} = (nodeIds \ {GATEWAY_ADDRESS, AUTO}) \cup {n}
  BY <1>1
<1>3. IsFiniteSet(nodeIds \ {GATEWAY_ADDRESS, AUTO})
  BY KnownNodesCount DEF TableInv, TypeOK
<1>4. QED
  BY <1>2, <1>3, FS_AddElement

(* A message raises the count only together with the set of known nodes.    *)
LEMMA NoticeSenderCounts ==
  ASSUME TableInv, TypeOK', NodeCountBounded, NEW m \in Messages, NEW added \in {0, 1},
         NoticeSender(m, added)
  PROVE  NodeCountBounded'
<1> DEFINE C == Cardinality(nodeIds \ {GATEWAY_ADDRESS, AUTO})
           D == Cardinality(nodeIds' \ {GATEWAY_ADDRESS, AUTO})
<1>1. C \in Nat /\ D \in Nat /\ C < AUTO /\ D < AUTO
  BY KnownNodesCount DEF TableInv, TypeOK
<1>2. numDetectedNodes \in Nat /\ status.nodes \in Nat
  BY DEF TableInv, TypeOK
<1>3. numDetectedNodes <= C /\ status.nodes <= numDetectedNodes
  BY DEF NodeCountBounded
<1>4. CASE m.sender \in nodeIds
  <2>1. nodeIds' = nodeIds /\ status'.nodes = status.nodes + 0
        /\ numDetectedNodes' = (numDetectedNodes + 0) % UINT8
    BY <1>4 DEF NoticeSender
  <2>2. D = C
    BY <2>1
  <2> HIDE DEF C, D
  <2>3. numDetectedNodes' = numDetectedNodes
    BY <1>1, <1>2, <1>3, <2>1, SMT DEF AUTO, UINT8
  <2>4. QED
    BY <1>2, <1>3, <2>1, <2>2, <2>3 DEF NodeCountBounded, D
<1>5. CASE m.sender \notin nodeIds
  <2>1. nodeIds' = nodeIds \cup {m.sender} /\ status'.nodes = status.nodes + 1
        /\ numDetectedNodes' = (numDetectedNodes + 1) % UINT8
    BY <1>5 DEF NoticeSender
  <2>2. D = C + 1
    BY <1>5, <2>1, OneMoreKnown, MessageTyped
  <2> HIDE DEF C, D
  <2>3. numDetectedNodes' = numDetectedNodes + 1
    BY <1>1, <1>2, <1>3, <2>1, <2>2, SMT DEF AUTO, UINT8
  <2>4. numDetectedNodes' <= D /\ status'.nodes <= numDetectedNodes'
    BY <1>1, <1>2, <1>3, <2>1, <2>2, <2>3
  <2>5. QED
    BY <2>4 DEF NodeCountBounded, D
<1>6. QED
  BY <1>4, <1>5

(* numDetectedNodes never counts a node the gateway does not know, and so   *)
(* never wraps; web clients are shown no more than it.                      *)
THEOREM NodeCountIsBounded == Spec => []NodeCountBounded
<1>1. Init /\ TypeOK => NodeCountBounded
  <2> SUFFICES ASSUME Init, TypeOK PROVE NodeCountBounded
    OBVIOUS
  <2>1. Cardinality(nodeIds \ {GATEWAY_ADDRESS, AUTO}) \in Nat
    BY KnownNodesCount DEF TypeOK
  <2>2. numDetectedNodes = 0 /\ status.nodes = 0
    BY DEF Init
  <2>3. QED
    BY <2>1, <2>2 DEF NodeCountBounded
<1>2. TableInv /\ TypeOK' /\ NodeCountBounded /\ [Next]_vars => NodeCountBounded'
  <2> SUFFICES ASSUME TableInv, TypeOK', NodeCountBounded, [Next]_vars
               PROVE  NodeCountBounded'
    OBVIOUS
  <2>same. ASSUME nodeIds' = nodeIds, UNCHANGED counters PROVE NodeCountBounded'
    BY <2>same DEF NodeCountBounded, counters
  <2>restarted. ASSUME NEW file, begin(file) PROVE NodeCountBounded'
    <3>1. numDetectedNodes' = Cardinality(nodeIds' \ {GATEWAY_ADDRESS, AUTO})
      BY <2>restarted DEF begin
    <3>2. numDetectedNodes' \in Nat /\ status'.nodes = 0
      BY <2>restarted DEF begin, TypeOK
    <3>3. QED
      BY <3>1, <3>2 DEF NodeCountBounded
  <2>1. ASSUME NEW m \in Messages, AssignId(m) PROVE NodeCountBounded'
    <3> DEFINE C == Cardinality(nodeIds \ {GATEWAY_ADDRESS, AUTO})
               D == Cardinality(nodeIds' \ {GATEWAY_ADDRESS, AUTO})
    <3>1. Min(FreeIds) \in Nodes /\ Min(FreeIds) \notin nodeIds
      BY <2>1, FirstFreeId, GatewayAssumption DEF AssignId
    <3>2. D = C + 1
      BY <2>1, <3>1, OneMoreKnown DEF AssignId
    <3>3. C \in Nat
      BY KnownNodesCount DEF TableInv, TypeOK
    <3>4. numDetectedNodes \in Nat /\ numDetectedNodes <= C
      BY DEF TableInv, TypeOK, NodeCountBounded
    <3>5. status'.nodes <= numDetectedNodes' /\ numDetectedNodes' = numDetectedNodes
      BY <2>1 DEF AssignId, counters, NodeCountBounded
    <3> HIDE DEF C, D
    <3>6. numDetectedNodes' <= D
      BY <3>2, <3>3, <3>4, <3>5
    <3>7. QED
      BY <3>5, <3>6 DEF NodeCountBounded, D
  <2>2. ASSUME NEW m \in Messages,
               ReplyConfig(m) \/ UpdateSensor(m) \/ AddSensor(m) \/ DropReport(m) \/ PassOn(m)
        PROVE  NodeCountBounded'
    <3>1. NoticeSender(m, 0) \/ NoticeSender(m, 1)
      BY <2>2 DEF ReplyConfig, UpdateSensor, AddSensor, DropReport, PassOn
    <3>2. QED
      BY <3>1, NoticeSenderCounts
  <2>3. ASSUME NEW m \in Messages, IgnoreAck(m) \/ NoIdLeft(m) PROVE NodeCountBounded'
    BY <2>3, <2>same DEF IgnoreAck, NoIdLeft
  <2>4. ASSUME NEW m \in Messages, PowerLossInSave(m) PROVE NodeCountBounded'
    BY <2>4, <2>restarted DEF PowerLossInSave
  <2>5. ASSUME NEW k \in UserKeys, onWsSetActuator(k) \/ RemoveSensor(k)
        PROVE  NodeCountBounded'
    BY <2>5, <2>same DEF onWsSetActuator, RemoveSensor
  <2>6. ASSUME NEW i \in Slots, setSensorValue(i) PROVE NodeCountBounded'
    BY <2>6, <2>same DEF setSensorValue
  <2>7. CASE Restart \/ FirmwareUpdate
    BY <2>7, <2>restarted DEF Restart, FirmwareUpdate
  <2>8. CASE UNCHANGED vars
    BY <2>8, <2>same DEF vars, counters
  <2>9. QED
    BY <2>1, <2>2, <2>3, <2>4, <2>5, <2>6, <2>7, <2>8 DEF Next, incomingMessage
<1>3. QED
  BY <1>1, <1>2, TypeInvariant, TableInvariant, PTL DEF Spec

-------------------------------------------------------------------------------
(* MyGateway implements SensorRegistry.  What the registry sees of a table,  *)
(* a file and the flags:                                                    *)
Held(t) == {t[i].key : i \in Slots} \ {NoKey}
Saved(file) == {file[i] : i \in Slots} \ {NoKey}
Known(ids) == ids \ {GATEWAY_ADDRESS, AUTO}

(* A radio node has neither of the ids that are always flagged. *)
LEMMA NodesAreOthers ==
  ASSUME NEW n \in Nodes
  PROVE  n \notin {GATEWAY_ADDRESS, AUTO} /\ n # 0
BY NodeRange, SMT DEF GATEWAY_ADDRESS, AUTO

(* The keys of slots in use are sensors of the registry. *)
LEMMA KeysAreSensors ==
  ASSUME NEW k \in Keys
  PROVE  /\ k # NoKey /\ k[1] \in Nodes
         /\ k \in Nodes \X (ChildIds \cup {AUTO})
<1>1. k[1] \in Nodes /\ k \in Nodes \X (ChildIds \cup {AUTO})
  BY DEF Keys
<1>2. QED
  BY <1>1, NodesAreOthers DEF NoKey

(* What a restart knows are the nodes of what was saved. *)
LEMMA RestartMaps ==
  ASSUME NEW file \in [Slots -> Keys \cup {NoKey}]
  PROVE  /\ Held(RestoredTable(file)) = Saved(file)
         /\ Known(RestoredIds(file)) = {k[1] : k \in Saved(file)}
<1>1. Held(RestoredTable(file)) = Saved(file)
  BY DEF Held, Saved, RestoredTable
<1>2. ASSUME NEW n \in Known(RestoredIds(file)) PROVE n \in {k[1] : k \in Saved(file)}
  <2>1. PICK i \in Slots : n = file[i][1]
    BY DEF Known, RestoredIds
  <2>2. file[i] # NoKey
    BY <2>1 DEF Known, NoKey, GATEWAY_ADDRESS
  <2>3. QED
    BY <2>1, <2>2 DEF Saved
<1>3. ASSUME NEW k \in Saved(file) PROVE k[1] \in Known(RestoredIds(file))
  <2>1. PICK i \in Slots : k = file[i] /\ file[i] \in Keys
    BY DEF Saved
  <2>2. k[1] \notin {GATEWAY_ADDRESS, AUTO}
    BY <2>1, KeysAreSensors, NodesAreOthers
  <2>3. QED
    BY <2>1, <2>2 DEF Known, RestoredIds
<1>4. QED
  BY <1>1, <1>2, <1>3

LEMMA NothingSaved == Saved(NoFile) = {} /\ NoFile \in [Slots -> Keys \cup {NoKey}]
BY DEF Saved, NoFile

(* A table with an empty slot holds fewer sensors than it has slots. *)
LEMMA RoomForOne ==
  ASSUME NEW t, NEW i \in Slots, t[i].key = NoKey
  PROVE  Cardinality(Held(t)) < MaxSensors
<1> DEFINE Rest == Slots \ {i}
           KeysOf == {t[j].key : j \in Rest}
<1>1. MaxSensors \in Nat
  BY GatewayAssumption
<1>2. IsFiniteSet(Slots) /\ Cardinality(Slots) = MaxSensors
  <2>1. 1 \in Int /\ MaxSensors \in Int
    BY <1>1
  <2>2. IsFiniteSet(1..MaxSensors)
        /\ Cardinality(1..MaxSensors) = IF 1 > MaxSensors THEN 0 ELSE MaxSensors - 1 + 1
    BY <2>1, FS_Interval
  <2>3. QED
    BY <1>1, <2>2 DEF Slots
<1>3. IsFiniteSet(Rest) /\ Cardinality(Rest) = MaxSensors - 1
  BY <1>2, FS_RemoveElement
<1>4. IsFiniteSet(KeysOf) /\ Cardinality(KeysOf) <= Cardinality(Rest)
  <2> DEFINE KeyAt == [j \in Rest |-> t[j].key]
  <2>1. KeyAt \in Surjection(Rest, KeysOf)
    BY DEF Surjection
  <2>2. QED
    BY <1>3, <2>1, FS_Surjection
<1>5. Held(t) \in SUBSET KeysOf
  BY DEF Held
<1>6. IsFiniteSet(Held(t)) /\ Cardinality(Held(t)) <= Cardinality(KeysOf)
  BY <1>4, <1>5, FS_Subset
<1>7. Cardinality(Held(t)) \in Nat /\ Cardinality(KeysOf) \in Nat /\ Cardinality(Rest) \in Nat
  BY <1>3, <1>4, <1>6, FS_CardinalityType
<1> HIDE DEF Rest, KeysOf
<1>8. QED
  BY <1>1, <1>3, <1>4, <1>6, <1>7

(* Only the ids, the table and the saved file are seen by the registry. *)
LEMMA RegistryStutters ==
  ASSUME UNCHANGED table, Known(nodeIds') = Known(nodeIds)
  PROVE  UNCHANGED Registry!vars
BY DEF table, Known, Registry!vars

(* A message from a radio node whose sensor is not new is a Hear, and one   *)
(* from a node without an id goes unnoticed.                                *)
LEMMA NoticeSenderMaps ==
  ASSUME NEW m \in Messages, NoticeSender(m, 0), UNCHANGED <<Held(mySensors), Saved(sensorsFile)>>
  PROVE  [Registry!Next]_(Registry!vars)
<1>1. nodeIds' = nodeIds \cup {m.sender} /\ m.sender \in Nodes \cup {AUTO}
  BY MessageTyped DEF NoticeSender
<1>2. CASE m.sender = AUTO
  BY <1>1, <1>2 DEF Registry!vars, Held, Saved
<1>3. CASE m.sender \in Nodes
  <2>1. m.sender \notin {GATEWAY_ADDRESS, AUTO}
    BY <1>3, NodesAreOthers
  <2>2. Registry!Hear(m.sender)
    BY <1>1, <2>1 DEF Registry!Hear, Held, Saved
  <2>3. m.sender \in Registry!NodesOf(Nodes \X (ChildIds \cup {AUTO}))
    <3>1. <<m.sender, AUTO>> \in Nodes \X (ChildIds \cup {AUTO}) /\ <<m.sender, AUTO>>[1] = m.sender
      BY <1>3
    <3>2. QED
      BY <3>1 DEF Registry!NodesOf
  <2>4. QED
    BY <2>2, <2>3 DEF Registry!Next
<1>4. QED
  BY <1>1, <1>2, <1>3

(* A restart from a file that is the one saved, or from none. *)
LEMMA BeginMaps ==
  ASSUME TableInv, NEW file, begin(file), sensorsFile' = file, file = sensorsFile \/ file = NoFile
  PROVE  Registry!Next
<1>1. file \in [Slots -> Keys \cup {NoKey}]
  BY NothingSaved DEF TableInv, TypeOK
<1>2. Held(mySensors') = Saved(file) /\ Known(nodeIds') = {k[1] : k \in Saved(file)}
  BY <1>1, RestartMaps DEF begin
<1>3. CASE file = sensorsFile
  <2>1. Registry!Reboot
    BY <1>2, <1>3 DEF Registry!Reboot, Registry!NodesOf, Held, Saved, Known
  <2>2. QED
    BY <2>1 DEF Registry!Next
<1>4. CASE file = NoFile
  <2>1. Saved(file) = {}
    BY <1>4, NothingSaved
  <2>2. Registry!RebootEmpty
    BY <1>2, <2>1 DEF Registry!RebootEmpty, Held, Saved, Known
  <2>3. QED
    BY <2>2 DEF Registry!Next
<1>5. QED
  BY <1>3, <1>4

(* The registry counts as this module does. *)
LEMMA SameCardinality == \A S : Registry!Cardinality(S) = Cardinality(S)
BY Zenon DEF Registry!Cardinality, Cardinality

(* A new sensor takes a slot, and what is saved is the table. *)
LEMMA AddSensorMaps ==
  ASSUME TableInv, NEW m \in Messages, AddSensor(m)
  PROVE  Registry!Next
<1> DEFINE i == Min(SlotsHolding(NoKey))
           k == KeyOf(m)
<1>1. i \in Slots /\ mySensors[i].key = NoKey
  BY FirstSlot DEF AddSensor, NewSensor
<1>2. k \in Keys /\ k[1] = m.sender /\ k \in Nodes \X (ChildIds \cup {AUTO}) /\ k # NoKey
  BY ReportTyped, KeysAreSensors DEF AddSensor, NewSensor, KeyOf
<1>3. k[1] \notin {GATEWAY_ADDRESS, AUTO}
  BY <1>2, KeysAreSensors, NodesAreOthers
<1>4. /\ mySensors' = [mySensors EXCEPT ![i] = [key |-> k, value |-> m.value]]
      /\ sensorsFile' = [j \in Slots |-> mySensors'[j].key]
      /\ nodeIds' = nodeIds \cup {m.sender}
      /\ SlotsHolding(k) = {}
  BY DEF AddSensor, NewSensor, NoticeSender
<1>5. Cardinality(Held(mySensors)) < MaxSensors
  BY <1>1, RoomForOne
<1> HIDE DEF i, k
<1>6. \A j \in Slots : mySensors'[j].key = IF j = i THEN k ELSE mySensors[j].key
  BY <1>1, <1>4 DEF TableInv, TypeOK
<1>7. k \notin Held(mySensors)
  BY <1>4 DEF Held, SlotsHolding
<1>8. Held(mySensors') = Held(mySensors) \cup {k}
  <2>1. ASSUME NEW x \in Held(mySensors') PROVE x \in Held(mySensors) \cup {k}
    BY <1>6, <2>1 DEF Held
  <2>2. ASSUME NEW x \in Held(mySensors) PROVE x \in Held(mySensors')
    <3>1. PICK j \in Slots : x = mySensors[j].key /\ x # NoKey
      BY <2>2 DEF Held
    <3>2. mySensors'[j].key = x
      BY <1>1, <1>6, <3>1
    <3>3. QED
      BY <3>1, <3>2 DEF Held
  <2>3. k \in Held(mySensors')
    BY <1>1, <1>2, <1>6 DEF Held
  <2>4. QED
    BY <2>1, <2>2, <2>3
<1>9. Saved(sensorsFile') = Held(mySensors')
  BY <1>4 DEF Saved, Held
<1>10. Known(nodeIds') = Known(nodeIds) \cup {k[1]}
  BY <1>2, <1>3, <1>4 DEF Known
<1>11. Registry!Register(k)
  BY SameCardinality, <1>5, <1>7, <1>8, <1>9, <1>10 DEF Registry!Register, Held, Saved, Known
<1>12. QED
  BY <1>2, <1>11 DEF Registry!Next

(* The one slot of a sensor is cleared, and the file stays. *)
LEMMA RemoveSensorMaps ==
  ASSUME TableInv, NEW k \in UserKeys, RemoveSensor(k)
  PROVE  [Registry!Next]_(Registry!vars)
<1> DEFINE i == Min(SlotsHolding(k))
<1>1. i \in Slots /\ mySensors[i].key = k
  BY FirstSlot DEF RemoveSensor
<1>2. /\ mySensors' = [mySensors EXCEPT ![i] = EmptySlot]
      /\ UNCHANGED <<nodeIds, sensorsFile>>
  BY DEF RemoveSensor
<1> HIDE DEF i
<1>3. \A j \in Slots : mySensors'[j].key = IF j = i THEN NoKey ELSE mySensors[j].key
  BY <1>1, <1>2 DEF TableInv, TypeOK, EmptySlot
<1>4. Held(mySensors') = Held(mySensors) \ {k}
  <2>1. ASSUME NEW x \in Held(mySensors') PROVE x \in Held(mySensors) \ {k}
    <3>1. PICK j \in Slots : x = mySensors'[j].key /\ x # NoKey
      BY <2>1 DEF Held
    <3>2. j # i /\ x = mySensors[j].key
      BY <1>3, <3>1
    <3>3. x # k
      BY <1>1, <3>1, <3>2 DEF TableInv, NoDuplicateSensor
    <3>4. QED
      BY <3>1, <3>2, <3>3 DEF Held
  <2>2. ASSUME NEW x \in Held(mySensors) \ {k} PROVE x \in Held(mySensors')
    <3>1. PICK j \in Slots : x = mySensors[j].key /\ x # NoKey
      BY <2>2 DEF Held
    <3>2. j # i /\ mySensors'[j].key = x
      BY <1>1, <1>3, <2>2, <3>1
    <3>3. QED
      BY <3>1, <3>2 DEF Held
  <2>3. QED
    BY <2>1, <2>2
<1>5. CASE k \in Keys
  <2>1. Registry!Unregister(k)
    BY <1>2, <1>4 DEF Registry!Unregister, Held
  <2>2. QED
    BY <1>5, <2>1, KeysAreSensors DEF Registry!Next
<1>6. CASE k = NoKey
  <2>1. Held(mySensors') = Held(mySensors)
    BY <1>4, <1>6 DEF Held
  <2>2. QED
    BY <1>2, <2>1 DEF Registry!vars, Held
<1>7. QED
  BY <1>5, <1>6 DEF UserKeys

(* Whatever the three copies of what the gateway knows (flags, table and    *)
(* file) go through, to the outside it is the registry: ids are given only  *)
(* while they are unknown, sensors registered once, and never too many, and *)
(* a restart brings back exactly what was saved.                            *)
THEOREM GatewayIsARegistry == Spec => ImplementsRegistry
<1>1. Init => Registry!Init
  <2> SUFFICES ASSUME Init PROVE Registry!Init
    OBVIOUS
  <2>1. Saved(NoFile) = {} /\ NoFile \in [Slots -> Keys \cup {NoKey}]
    BY NothingSaved
  <2>2. Held(mySensors) = {} /\ Saved(sensorsFile) = {} /\ Known(nodeIds) = {k[1] : k \in {}}
    BY <2>1, RestartMaps DEF Init
  <2>3. QED
    BY <2>2 DEF Registry!Init, Held, Saved, Known
<1>2. TableInv /\ [Next]_vars => [Registry!Next]_(Registry!vars)
  <2> SUFFICES ASSUME TableInv, [Next]_vars PROVE [Registry!Next]_(Registry!vars)
    OBVIOUS
  <2>same. ASSUME UNCHANGED <<nodeIds, table>> PROVE UNCHANGED Registry!vars
    BY <2>same, RegistryStutters DEF table
  <2>1. ASSUME NEW m \in Messages, IgnoreAck(m) \/ NoIdLeft(m) PROVE UNCHANGED Registry!vars
    BY <2>1, <2>same DEF IgnoreAck, NoIdLeft, table
  <2>2. ASSUME NEW m \in Messages, ReplyConfig(m) \/ DropReport(m) \/ PassOn(m)
        PROVE  [Registry!Next]_(Registry!vars)
    BY <2>2, NoticeSenderMaps DEF ReplyConfig, DropReport, PassOn, table, Held, Saved
  <2>3. ASSUME NEW m \in Messages, AssignId(m) PROVE Registry!Next
    <3> DEFINE id == Min(FreeIds)
    <3>1. id \in FirstId..LastId /\ id \notin nodeIds
      BY <2>3, FirstFreeId DEF AssignId
    <3>2. id \in Nodes
      BY <3>1, GatewayAssumption
    <3>3. id \notin {GATEWAY_ADDRESS, AUTO}
      BY <3>2, NodesAreOthers
    <3>4. nodeIds' = nodeIds \cup {id} /\ UNCHANGED table
      BY <2>3 DEF AssignId
    <3> HIDE DEF id
    <3>5. Registry!Give(id)
      BY <3>1, <3>3, <3>4 DEF Registry!Give, table
    <3>6. QED
      BY <3>1, <3>5 DEF Registry!Next
  <2>4. ASSUME NEW m \in Messages, UpdateSensor(m) PROVE [Registry!Next]_(Registry!vars)
    <3>1. Min(SlotsHolding(KeyOf(m))) \in Slots
      BY <2>4, FirstSlot DEF UpdateSensor
    <3>2. \A j \in Slots : mySensors'[j].key = mySensors[j].key
      BY <2>4, <3>1 DEF UpdateSensor, TableInv, TypeOK
    <3>3. Held(mySensors') = Held(mySensors)
      BY <3>2 DEF Held
    <3>4. QED
      BY <2>4, <3>3, NoticeSenderMaps DEF UpdateSensor, Held, Saved
  <2>5. ASSUME NEW m \in Messages, AddSensor(m) PROVE Registry!Next
    BY <2>5, AddSensorMaps
  <2>6. ASSUME NEW m \in Messages, PowerLossInSave(m) PROVE Registry!Next
    BY <2>6, BeginMaps DEF PowerLossInSave
  <2>7. ASSUME NEW k \in UserKeys, onWsSetActuator(k) PROVE UNCHANGED Registry!vars
    BY <2>7, <2>same DEF onWsSetActuator
  <2>8. ASSUME NEW k \in UserKeys, RemoveSensor(k) PROVE [Registry!Next]_(Registry!vars)
    BY <2>8, RemoveSensorMaps
  <2>9. ASSUME NEW i \in Slots, setSensorValue(i) PROVE UNCHANGED Registry!vars
    BY <2>9, <2>same DEF setSensorValue
  <2>10. CASE Restart \/ FirmwareUpdate
    BY <2>10, BeginMaps DEF Restart, FirmwareUpdate
  <2>11. CASE UNCHANGED vars
    BY <2>11, <2>same DEF vars, table
  <2>12. QED
    BY <2>1, <2>2, <2>3, <2>4, <2>5, <2>6, <2>7, <2>8, <2>9, <2>10, <2>11
       DEF Next, incomingMessage
<1>3. QED
  BY <1>1, <1>2, TableInvariant, PTL DEF Spec, ImplementsRegistry, Registry!Spec

-------------------------------------------------------------------------------
(* When two devices may end up with one id, for any number of devices, ids *)
(* and sensors.                                                            *)

(* A device holds an id when it uses it, has it saved, or is about to read  *)
(* it in an answer.                                                         *)
Holds(d, id) == IdOf(d) = id \/ <<d, id>> \in answers

Unexplained(id) == id \notin shared \cup forgotten

(* An id nobody forgot and that reached one device only is held by at most  *)
(* one device, and the gateway knows it is in use.                          *)
HeldOnce ==
  \A d, e \in Devices, id \in Nodes :
    Unexplained(id) /\ Holds(d, id) /\ Holds(e, id) => d = e
HeldIsKnown ==
  \A d \in Devices, id \in Nodes : Unexplained(id) /\ Holds(d, id) => id \in nodeIds

(* A device that is on runs with the id it has saved. *)
RunsSavedId ==
  \A d \in Devices :
    /\ nodeId[d] # AUTO /\ savedId[d] # AUTO => nodeId[d] = savedId[d]
    /\ power[d] # "off" /\ savedId[d] # AUTO => nodeId[d] = savedId[d]

(* What devices and answers range over. *)
DevicesTyped ==
  /\ power \in [Devices -> {"off", "on", "halted"}]
  /\ nodeId \in [Devices -> Nodes \cup {AUTO}]
  /\ savedId \in [Devices -> Nodes \cup {AUTO}]
  /\ requests \subseteq Devices
  /\ answers \subseteq Devices \X (Nodes \cup {AUTO})

(* Strong enough to be kept by every step. *)
IdInv == DevicesTyped /\ RunsSavedId /\ HeldOnce /\ HeldIsKnown /\ AUTO \in nodeIds

-------------------------------------------------------------------------------
(* 255 says that a device has no id: no radio node carries it. *)
LEMMA AutoIsNoNode == AUTO \notin Nodes
<1>1. AUTO \notin 1..(AUTO - 1)
  BY SMT DEF AUTO
<1>2. QED
  BY <1>1, NodeRange

(* No message makes the gateway forget an id. *)
LEMMA MessagesForgetNothing ==
  ASSUME NEW m \in Messages, incomingMessage(m)
  PROVE  nodeIds \subseteq nodeIds'
BY DEF incomingMessage, IgnoreAck, ReplyConfig, AssignId, NoIdLeft, UpdateSensor, AddSensor,
       DropReport, PassOn, NoticeSender

(* A request is answered with one id at most, which was free until then.    *)
LEMMA AnswerIsFresh ==
  ASSUME NEW m \in Messages, m.kind = "ID_REQUEST", m.sender = AUTO, incomingMessage(m)
  PROVE  LET ids == {r.arg : r \in {s \in out'.sent : s.kind = "ID_RESPONSE"}}
         IN /\ ids \subseteq Nodes
            /\ ids \cap nodeIds = {}
            /\ ids \subseteq nodeIds'
            /\ \A i, j \in ids : i = j
<1> DEFINE ids == {r.arg : r \in {s \in out'.sent : s.kind = "ID_RESPONSE"}}
<1>1. AssignId(m) \/ NoIdLeft(m)
  BY DEF incomingMessage, IgnoreAck, ReplyConfig, UpdateSensor, AddSensor, NewSensor,
         DropReport, PassOn, IsReport
<1>2. CASE AssignId(m)
  <2> DEFINE id == Min(FreeIds)
  <2>1. id \in Nodes /\ id \notin nodeIds
    BY <1>2, FirstFreeId, GatewayAssumption DEF AssignId
  <2> DEFINE answer == [kind |-> "ID_RESPONSE", dest |-> AUTO, arg |-> id]
  <2>2. out'.sent = {answer} /\ nodeIds' = nodeIds \cup {id}
    BY <1>2 DEF AssignId, Silent, ToNode
  <2>a. answer.kind = "ID_RESPONSE" /\ answer.arg = id
    OBVIOUS
  <2> HIDE DEF id, answer
  <2>b. {s \in out'.sent : s.kind = "ID_RESPONSE"} = {answer}
    BY <2>2, <2>a
  <2>3. ids = {id}
    BY <2>a, <2>b
  <2>4. QED
    BY <2>1, <2>2, <2>3
<1>3. CASE NoIdLeft(m)
  <2>1. out'.sent = {}
    BY <1>3 DEF NoIdLeft, Silent
  <2>2. QED
    BY <2>1
<1>4. QED
  BY <1>1, <1>2, <1>3

(* Steps after which no device holds an id it did not hold before.          *)
LEMMA NothingNewIsHeld ==
  ASSUME HeldOnce, HeldIsKnown,
         shared \subseteq shared', forgotten \subseteq forgotten',
         nodeIds \ nodeIds' \subseteq forgotten',
         \A d \in Devices, id \in Nodes : Holds(d, id)' => Holds(d, id)
  PROVE  HeldOnce' /\ HeldIsKnown'
<1>1. \A id \in Nodes : Unexplained(id)' => Unexplained(id)
  BY DEF Unexplained
<1>2. HeldOnce'
  BY <1>1 DEF HeldOnce
<1>3. ASSUME NEW d \in Devices, NEW id \in Nodes, Unexplained(id)', Holds(d, id)'
      PROVE  id \in nodeIds'
  <2>1. id \in nodeIds
    BY <1>1, <1>3 DEF HeldIsKnown
  <2>2. id \notin forgotten'
    BY <1>3 DEF Unexplained
  <2>3. QED
    BY <2>1, <2>2
<1>4. HeldIsKnown'
  BY <1>3 DEF HeldIsKnown
<1>5. QED
  BY <1>2, <1>4
(* No device holds more after a step of its own, except an id whose answer  *)
(* it already had.                                                          *)
LEMMA DeviceStep ==
  ASSUME IdInv, NEW d \in Devices,
         PowerOn(d) \/ PowerOff(d) \/ requestNodeId(d) \/ SaveId(d) \/ LoseRequest(d)
           \/ \E id \in Nodes \cup {AUTO} : ReadAnswer(d, id)
  PROVE  IdInv'
<1> USE DEF IdInv
<1>1. CASE PowerOn(d)
  <2>1. DevicesTyped' /\ RunsSavedId'
    BY <1>1 DEF PowerOn, DevicesTyped, RunsSavedId
  <2>2. \A e \in Devices, id \in Nodes : Holds(e, id)' => Holds(e, id)
    BY <1>1, AutoIsNoNode DEF PowerOn, DevicesTyped, RunsSavedId, Holds, IdOf
  <2>3. HeldOnce' /\ HeldIsKnown' /\ AUTO \in nodeIds'
    BY <1>1, <2>2, NothingNewIsHeld DEF PowerOn, gateway, vars, history
  <2>4. QED
    BY <2>1, <2>3
<1>2. CASE PowerOff(d)
  <2>1. DevicesTyped' /\ RunsSavedId'
    BY <1>2 DEF PowerOff, DevicesTyped, RunsSavedId
  <2>2. \A e \in Devices, id \in Nodes : Holds(e, id)' => Holds(e, id)
    BY <1>2, AutoIsNoNode DEF PowerOff, DevicesTyped, RunsSavedId, Holds, IdOf
  <2>3. HeldOnce' /\ HeldIsKnown' /\ AUTO \in nodeIds'
    BY <1>2, <2>2, NothingNewIsHeld DEF PowerOff, gateway, vars, history
  <2>4. QED
    BY <2>1, <2>3
<1>3. CASE requestNodeId(d) \/ LoseRequest(d)
  <2>1. DevicesTyped' /\ RunsSavedId'
    BY <1>3 DEF requestNodeId, LoseRequest, device, DevicesTyped, RunsSavedId
  <2>2. \A e \in Devices, id \in Nodes : Holds(e, id)' => Holds(e, id)
    BY <1>3 DEF requestNodeId, LoseRequest, device, Holds, IdOf
  <2>3. HeldOnce' /\ HeldIsKnown' /\ AUTO \in nodeIds'
    BY <1>3, <2>2, NothingNewIsHeld DEF requestNodeId, LoseRequest, gateway, vars, history
  <2>4. QED
    BY <2>1, <2>3
<1>4. CASE SaveId(d)
  <2>1. DevicesTyped' /\ RunsSavedId'
    BY <1>4 DEF SaveId, air, DevicesTyped, RunsSavedId
  <2>2. \A e \in Devices, id \in Nodes : Holds(e, id)' => Holds(e, id)
    BY <1>4 DEF SaveId, air, DevicesTyped, Holds, IdOf
  <2>3. HeldOnce' /\ HeldIsKnown' /\ AUTO \in nodeIds'
    BY <1>4, <2>2, NothingNewIsHeld DEF SaveId, gateway, vars, history
  <2>4. QED
    BY <2>1, <2>3
<1>5. ASSUME NEW n \in Nodes \cup {AUTO}, ReadAnswer(d, n) PROVE IdInv'
  <2>1. DevicesTyped'
    BY <1>5 DEF ReadAnswer, DevicesTyped
  <2>2. RunsSavedId'
    BY <1>5 DEF ReadAnswer, DevicesTyped, RunsSavedId
  <2>3. \A e \in Devices, id \in Nodes : Holds(e, id)' => Holds(e, id)
    BY <1>5, AutoIsNoNode DEF ReadAnswer, DevicesTyped, Holds, IdOf
  <2>4. HeldOnce' /\ HeldIsKnown' /\ AUTO \in nodeIds'
    BY <1>5, <2>3, NothingNewIsHeld DEF ReadAnswer, gateway, vars, history
  <2>5. QED
    BY <2>1, <2>2, <2>4
<1>6. QED
  BY <1>1, <1>2, <1>3, <1>4, <1>5

(* A request that is answered gives the listeners an id nobody held.        *)
LEMMA RequestStep ==
  ASSUME IdInv, NEW d \in Devices, NEW heard \in SUBSET Devices, HandleRequest(d, heard)
  PROVE  IdInv'
<1> DEFINE ids == {r.arg : r \in {s \in out'.sent : s.kind = "ID_RESPONSE"}}
<1> USE DEF IdInv
<1>1. PICK m \in Messages : m.kind = "ID_REQUEST" /\ m.sender = AUTO /\ incomingMessage(m)
  BY DEF HandleRequest
<1>2. /\ ids \subseteq Nodes /\ ids \cap nodeIds = {} /\ ids \subseteq nodeIds'
      /\ \A i, j \in ids : i = j
  BY <1>1, AnswerIsFresh
<1>3. nodeIds \subseteq nodeIds'
  BY <1>1, MessagesForgetNothing
<1>4. /\ answers' = answers \cup (heard \X ids)
      /\ shared' = IF \E e, f \in heard : e # f THEN shared \cup ids ELSE shared
      /\ forgotten' = forgotten
      /\ requests' \subseteq requests
      /\ power' = power /\ nodeId' = nodeId /\ savedId' = savedId
  BY DEF HandleRequest, device
<1> HIDE DEF ids
<1>5. DevicesTyped'
  BY <1>2, <1>4 DEF DevicesTyped
<1>6. RunsSavedId'
  BY <1>4 DEF RunsSavedId
<1>7. \A e \in Devices, id \in Nodes :
        Holds(e, id)' => Holds(e, id) \/ (e \in heard /\ id \in ids)
  BY <1>4 DEF Holds, IdOf
<1>8. \A id \in Nodes : Unexplained(id)' => Unexplained(id)
  BY <1>4 DEF Unexplained
<1>9. HeldIsKnown'
  BY <1>2, <1>3, <1>7, <1>8 DEF HeldIsKnown
<1>10. HeldOnce'
  <2> SUFFICES ASSUME NEW e \in Devices, NEW f \in Devices, NEW id \in Nodes,
                      Unexplained(id)', Holds(e, id)', Holds(f, id)'
               PROVE  e = f
    BY DEF HeldOnce
  <2>1. CASE id \notin ids
    BY <1>7, <1>8, <2>1 DEF HeldOnce
  <2>2. CASE id \in ids
    <3>1. ~Holds(e, id) /\ ~Holds(f, id)
      BY <1>2, <1>8, <2>2 DEF HeldIsKnown
    <3>2. e \in heard /\ f \in heard
      BY <1>7, <3>1
    <3>3. ~(\E g, h \in heard : g # h)
      BY <1>4, <2>2 DEF Unexplained
    <3>4. QED
      BY <3>2, <3>3
  <2>3. QED
    BY <2>1, <2>2
<1>11. QED
  BY <1>3, <1>5, <1>6, <1>9, <1>10
(* What devices tell the gateway, what users do and restarts give nobody an *)
(* id; a restart only forgets some.                                         *)
LEMMA GatewayStep ==
  ASSUME IdInv,
         \/ \E d \in Devices, m \in Messages : HearDevice(d, m)
         \/ GatewayCommand
         \/ GatewayRestart
  PROVE  IdInv'
<1> USE DEF IdInv
<1>1. UNCHANGED <<power, nodeId, savedId, answers, shared>> /\ requests' \subseteq requests
  BY DEF HearDevice, GatewayCommand, GatewayRestart, device, air, history
<1>2. DevicesTyped' /\ RunsSavedId'
  BY <1>1 DEF DevicesTyped, RunsSavedId
<1>3. \A d \in Devices, id \in Nodes : Holds(d, id)' => Holds(d, id)
  BY <1>1 DEF Holds, IdOf
<1>4. AUTO \in nodeIds'
  <2>1. CASE \E d \in Devices, m \in Messages : HearDevice(d, m)
    BY <2>1, MessagesForgetNothing DEF HearDevice
  <2>2. CASE GatewayCommand
    BY <2>2 DEF GatewayCommand, onWsSetActuator, RemoveSensor, setSensorValue
  <2>3. CASE GatewayRestart
    BY <2>3 DEF GatewayRestart, Restart, FirmwareUpdate, PowerLossInSave, begin, RestoredIds
  <2>4. QED
    BY <2>1, <2>2, <2>3
<1>5. nodeIds \ nodeIds' \subseteq forgotten' /\ forgotten \subseteq forgotten'
  <2>1. CASE \E d \in Devices, m \in Messages : HearDevice(d, m)
    BY <2>1, MessagesForgetNothing DEF HearDevice, history
  <2>2. CASE GatewayCommand
    BY <2>2 DEF GatewayCommand, onWsSetActuator, RemoveSensor, setSensorValue, history
  <2>3. CASE GatewayRestart
    BY <2>3 DEF GatewayRestart
  <2>4. QED
    BY <2>1, <2>2, <2>3
<1>6. HeldOnce' /\ HeldIsKnown'
  BY <1>1, <1>3, <1>5, NothingNewIsHeld
<1>7. QED
  BY <1>2, <1>4, <1>6

(* The inductive invariant of devices and gateway together: an id in use or  *)
(* on its way is known to the gateway, or was forgotten by it.               *)
LEMMA IdInvariant == NetSpec => []IdInv
<1>1. NetInit => IdInv
  <2> SUFFICES ASSUME NetInit PROVE IdInv
    OBVIOUS
  <2>1. DevicesTyped /\ RunsSavedId
    BY DEF NetInit, DevicesTyped, RunsSavedId
  <2>2. \A d \in Devices, id \in Nodes : ~Holds(d, id)
    BY AutoIsNoNode DEF NetInit, Holds, IdOf
  <2>3. AUTO \in nodeIds
    BY DEF NetInit, Init, RestoredIds
  <2>4. QED
    BY <2>1, <2>2, <2>3 DEF IdInv, HeldOnce, HeldIsKnown
<1>2. IdInv /\ [NetNext]_netVars => IdInv'
  <2> SUFFICES ASSUME IdInv, [NetNext]_netVars PROVE IdInv'
    OBVIOUS
  <2>1. CASE UNCHANGED netVars
    BY <2>1 DEF netVars, gateway, vars, device, air, history, IdInv, DevicesTyped,
                RunsSavedId, HeldOnce, HeldIsKnown, Holds, IdOf, Unexplained
  <2>2. CASE NetNext
    BY <2>2, DeviceStep, RequestStep, GatewayStep DEF NetNext
  <2>3. QED
    BY <2>1, <2>2
<1>3. QED
  BY <1>1, <1>2, PTL DEF NetSpec

(* However requests, answers, presentations and power cuts interleave, two  *)
(* devices have one id only if an answer of the gateway reached them both   *)
(* or the gateway forgot the id in a restart.                               *)
THEOREM SharedIdsAreExplained == NetSpec => []IdsAreSharedForAReason
<1>1. IdInv => IdsAreSharedForAReason
  <2> SUFFICES ASSUME IdInv, NEW d \in Devices, NEW e \in Devices,
                      d # e, IdOf(d) = IdOf(e), IdOf(d) # AUTO
               PROVE  IdOf(d) \in shared \cup forgotten
    BY DEF IdsAreSharedForAReason
  <2>1. IdOf(d) \in Nodes
    BY DEF IdInv, DevicesTyped, IdOf
  <2>2. Holds(d, IdOf(d)) /\ Holds(e, IdOf(d))
    BY DEF Holds
  <2>3. QED
    BY <2>1, <2>2 DEF IdInv, HeldOnce, Unexplained
<1>2. QED
  BY <1>1, IdInvariant, PTL

(* process() never changes an id that a device has in its EEPROM.           *)
THEOREM SavedIdsAreKept == NetSpec => SavedIdIsKept
<1> DEFINE Kept == \A d \in Devices : savedId[d] # AUTO =>
                     savedId'[d] = savedId[d] /\ nodeId'[d] \in {savedId[d], AUTO}
<1>1. IdInv /\ [NetNext]_netVars => [Kept]_netVars
  <2> SUFFICES ASSUME IdInv, NetNext, NEW d \in Devices, savedId[d] # AUTO
               PROVE  savedId'[d] = savedId[d] /\ nodeId'[d] \in {savedId[d], AUTO}
    OBVIOUS
  <2>0. nodeId[d] \in {savedId[d], AUTO} /\ (power[d] # "off" => nodeId[d] = savedId[d])
    BY DEF IdInv, RunsSavedId
  <2>1. ASSUME NEW e \in Devices, PowerOn(e) \/ PowerOff(e) \/ SaveId(e)
        PROVE  savedId'[d] = savedId[d] /\ nodeId'[d] \in {savedId[d], AUTO}
    BY <2>0, <2>1 DEF PowerOn, PowerOff, SaveId, IdInv, DevicesTyped
  <2>2. ASSUME NEW e \in Devices, NEW n \in Nodes \cup {AUTO}, ReadAnswer(e, n)
        PROVE  savedId'[d] = savedId[d] /\ nodeId'[d] \in {savedId[d], AUTO}
    BY <2>0, <2>2 DEF ReadAnswer, IdInv, DevicesTyped
  <2>3. ASSUME UNCHANGED <<nodeId, savedId>>
        PROVE  savedId'[d] = savedId[d] /\ nodeId'[d] \in {savedId[d], AUTO}
    BY <2>0, <2>3
  <2>4. QED
    BY <2>1, <2>2, <2>3 DEF NetNext, requestNodeId, LoseRequest, HearDevice, HandleRequest,
                            GatewayCommand, GatewayRestart, device
<1>2. QED
  BY <1>1, IdInvariant, PTL DEF NetSpec, SavedIdIsKept
===============================================================================
