------------------------------- MODULE MyGateway -------------------------------
(***************************************************************************)
(* The MyGateway class (app/MyGateway.cpp): the sensor table mySensors,    *)
(* the node ids it has seen or given away, the file sensors.json they are  *)
(* restored from, and every handler that changes them.                     *)
(*                                                                         *)
(* Everything runs on one thread: a handler is one step.  A restart or a   *)
(* power failure may come between any two handlers, and in the middle of   *)
(* the one that writes the file.                                           *)
(*                                                                         *)
(* Left out: the type of a slot and the two packet counters, which are     *)
(* only displayed, and the web socket notifications.                       *)
(***************************************************************************)
EXTENDS Integers, FiniteSets, FiniteSetsExt

CONSTANTS
  Nodes,        \* ids that radio nodes may carry
  FirstId,      \* GW_FIRST_SENSORID
  LastId,       \* GW_LAST_SENSORID
  ChildIds,     \* sensor numbers a node may use for its sensors
  Values,       \* payloads of C_SET messages
  NoValue,      \* the empty String
  MaxSensors,   \* MAX_MY_SENSORS
  MaxDetected   \* bound: sensors detected between two restarts

GATEWAY_ADDRESS == 0
AUTO == 255               \* also the broadcast address and NODE_SENSOR_ID
UINT8 == 256              \* values of an uint8_t, an uint16_t
UINT16 == 65536

ASSUME GatewayAssumption ==
  /\ Nodes \subseteq 1..(AUTO - 1)
  /\ FirstId \in Nat /\ LastId \in Nat
  /\ FirstId..LastId \subseteq Nodes
  /\ ChildIds \subseteq 0..(AUTO - 1)
  /\ MaxSensors \in Nat
  /\ MaxDetected \in Nat

Slots == 1..MaxSensors

Keys == Nodes \X ChildIds
NoKey == <<0, 0>>
EmptySlot == [key |-> NoKey, value |-> NoValue]

(* The messages a gateway hears.  OTHER stands for C_REQ, C_STREAM and the  *)
(* internal types the gateway has no case for; ACK for any acknowledgement. *)
Messages ==
  [kind : {"SET"}, sender : Nodes, sensor : ChildIds, value : Values]
    \cup [kind : {"PRESENTATION"}, sender : Nodes, sensor : ChildIds \cup {AUTO},
          value : {NoValue}]
    \cup [kind : {"CONFIG", "ID_REQUEST", "OTHER", "ACK"},
          sender : Nodes \cup {AUTO}, sensor : {AUTO}, value : {NoValue}]

VARIABLES
  nodeIds,             \* the ids whose flag nodeIds[id] is set
  mySensors,           \* the table: slot -> [key, value]
  sensorsFile,         \* sensors.json: slot -> key, NoKey where it is "0/0";
                       \* a missing or unreadable file restores nothing either
  numDetectedNodes,    \* uint8_t
  numDetectedSensors,  \* uint16_t
  status,              \* MyStatus: [nodes, sensors] shown to web clients
  out                  \* what the last handler handed out, see Silent

vars == <<nodeIds, mySensors, sensorsFile, numDetectedNodes,
          numDetectedSensors, status, out>>
table == <<mySensors, sensorsFile>>
counters == <<numDetectedNodes, numDetectedSensors, status>>

(* sent: radio messages passed to gw.sendRoute; forwarded: messages passed  *)
(* on to msgRx; trigger: the slot whose "sensor<id>" rules were run, or 0.  *)
Silent == [sent |-> {}, forwarded |-> {}, trigger |-> 0]

ToNode(kind, dest, arg) == [kind |-> kind, dest |-> dest, arg |-> arg]

KeyOf(m) == <<m.sender, m.sensor>>
SlotsHolding(k) == {i \in Slots : mySensors[i].key = k}

IsReport(m) ==
  m.kind \in {"SET", "PRESENTATION"} /\ m.sender \in 1..(AUTO - 1) /\ m.sensor < AUTO

-------------------------------------------------------------------------------
(* What begin restores from a sensors.json that holds file.                 *)
(* Faults (an operator named ...Fault is a slip the properties must catch,  *)
(* it is no part of Next): a loop that stops one slot short, and ids that   *)
(* are not marked.                                                          *)
RestoredTableFault(file) ==
  [i \in Slots |-> IF i = MaxSensors THEN EmptySlot ELSE [key |-> file[i], value |-> NoValue]]
RestoredIdsFault(file) == {GATEWAY_ADDRESS, AUTO}

RestoredTable(file) == [i \in Slots |-> [key |-> file[i], value |-> NoValue]]
RestoredIds(file) == {GATEWAY_ADDRESS, AUTO} \cup {file[i][1] : i \in Slots}
NoFile == [i \in Slots |-> NoKey]

Init ==
  /\ sensorsFile = NoFile
  /\ mySensors = RestoredTable(NoFile)
  /\ nodeIds = RestoredIds(NoFile)
  /\ numDetectedNodes = 0 /\ numDetectedSensors = 0
  /\ status = [nodes |-> 0, sensors |-> 0]
  /\ out = Silent

begin(file) ==
  /\ mySensors' = RestoredTable(file)
  /\ nodeIds' = RestoredIds(file)
  /\ numDetectedNodes' = Cardinality(RestoredIds(file) \ {GATEWAY_ADDRESS, AUTO})
  /\ numDetectedSensors' = 0
  /\ status' = [nodes |-> 0, sensors |-> 0]
  /\ out' = Silent

(* Every message that is not an acknowledgement first makes its sender      *)
(* known; added is 1 when it also brings a new sensor.                      *)
NoticeSenderFault(m, added) ==   \* without the test of nodeIds
  /\ nodeIds' = nodeIds \cup {m.sender}
  /\ numDetectedNodes' = (numDetectedNodes + 1) % UINT8
  /\ numDetectedSensors' = (numDetectedSensors + added) % UINT16
  /\ status' = [nodes |-> status.nodes + 1, sensors |-> status.sensors + added]

NoticeSender(m, added) ==
  LET new == IF m.sender \in nodeIds THEN 0 ELSE 1
  IN /\ nodeIds' = nodeIds \cup {m.sender}
     /\ numDetectedNodes' = (numDetectedNodes + new) % UINT8
     /\ numDetectedSensors' = (numDetectedSensors + added) % UINT16
     /\ status' = [nodes |-> status.nodes + new, sensors |-> status.sensors + added]

IgnoreAck(m) ==
  /\ m.kind = "ACK"
  /\ out' = Silent
  /\ UNCHANGED <<nodeIds, counters, table>>

ReplyConfig(m) ==
  /\ m.kind = "CONFIG"
  /\ NoticeSender(m, 0)
  /\ out' = [Silent EXCEPT !.sent = {ToNode("CONFIG", m.sender, "M")}]
  /\ UNCHANGED table

FreeIdsFault == (FirstId..(LastId + 1)) \ nodeIds
FreeIds == (FirstId..LastId) \ nodeIds

AssignIdFault(m) ==   \* the id is not marked
  /\ m.kind = "ID_REQUEST" /\ m.sender = AUTO
  /\ FreeIds # {}
  /\ out' = [Silent EXCEPT !.sent = {ToNode("ID_RESPONSE", AUTO, Min(FreeIds))}]
  /\ UNCHANGED <<nodeIds, counters, table>>

AssignId(m) ==
  /\ m.kind = "ID_REQUEST" /\ m.sender = AUTO
  /\ FreeIds # {}
  /\ LET id == Min(FreeIds)
     IN /\ out' = [Silent EXCEPT !.sent = {ToNode("ID_RESPONSE", AUTO, id)}]
        /\ nodeIds' = nodeIds \cup {id}
  /\ UNCHANGED <<counters, table>>

NoIdLeft(m) ==
  /\ m.kind = "ID_REQUEST" /\ m.sender = AUTO
  /\ FreeIds = {}
  /\ out' = Silent
  /\ UNCHANGED <<nodeIds, counters, table>>

(* A report of a sensor that has a slot: the first slot found is updated.   *)
UpdateSensor(m) ==
  /\ IsReport(m)
  /\ SlotsHolding(KeyOf(m)) # {}
  /\ NoticeSender(m, 0)
  /\ LET i == Min(SlotsHolding(KeyOf(m)))
     IN IF m.kind = "SET"
        THEN /\ mySensors' = [mySensors EXCEPT ![i].value = m.value]
             /\ out' = [Silent EXCEPT !.forwarded = {m}, !.trigger = i]
        ELSE /\ out' = [Silent EXCEPT !.forwarded = {m}]
             /\ UNCHANGED mySensors
  /\ UNCHANGED sensorsFile

(* A report of a new sensor takes the first empty slot and is saved. *)
NewSensorFault(m) ==   \* one loop for both: an empty slot ends the search
  /\ IsReport(m)
  /\ SlotsHolding(NoKey) # {}
  /\ \A i \in SlotsHolding(KeyOf(m)) : Min(SlotsHolding(NoKey)) < i
  /\ numDetectedSensors < MaxDetected

NewSensor(m) ==
  /\ IsReport(m)
  /\ SlotsHolding(KeyOf(m)) = {}
  /\ SlotsHolding(NoKey) # {}
  /\ numDetectedSensors < MaxDetected

AddSensorFault(m) ==   \* saved before it is added
  /\ NewSensor(m)
  /\ NoticeSender(m, 1)
  /\ LET i == Min(SlotsHolding(NoKey))
     IN /\ mySensors' = [mySensors EXCEPT ![i] = [key |-> KeyOf(m), value |-> m.value]]
        /\ out' = [Silent EXCEPT !.forwarded = {m},
                                 !.trigger = IF m.kind = "SET" THEN i ELSE 0]
  /\ sensorsFile' = [i \in Slots |-> mySensors[i].key]

AddSensor(m) ==
  /\ NewSensor(m)
  /\ NoticeSender(m, 1)
  /\ LET i == Min(SlotsHolding(NoKey))
     IN /\ mySensors' = [mySensors EXCEPT ![i] = [key |-> KeyOf(m), value |-> m.value]]
        /\ out' = [Silent EXCEPT !.forwarded = {m},
                                 !.trigger = IF m.kind = "SET" THEN i ELSE 0]
  /\ sensorsFile' = [i \in Slots |-> mySensors'[i].key]

(* The table is full: the report is dropped, not even forwarded. *)
DropReportFault(m) ==   \* the return is missing
  /\ IsReport(m)
  /\ SlotsHolding(KeyOf(m)) = {} /\ SlotsHolding(NoKey) = {}
  /\ NoticeSender(m, 0)
  /\ out' = [Silent EXCEPT !.forwarded = {m}]
  /\ UNCHANGED table

DropReport(m) ==
  /\ IsReport(m)
  /\ SlotsHolding(KeyOf(m)) = {} /\ SlotsHolding(NoKey) = {}
  /\ NoticeSender(m, 0)
  /\ out' = Silent
  /\ UNCHANGED table

(* Anything else is passed on as it came. *)
PassOn(m) ==
  /\ ~IsReport(m)
  /\ m.kind \notin {"ACK", "CONFIG"}
  /\ ~(m.kind = "ID_REQUEST" /\ m.sender = AUTO)
  /\ NoticeSender(m, 0)
  /\ out' = [Silent EXCEPT !.forwarded = {m}]
  /\ UNCHANGED table

incomingMessage(m) ==
  \/ IgnoreAck(m)
  \/ ReplyConfig(m)
  \/ AssignId(m) \/ NoIdLeft(m)
  \/ UpdateSensor(m) \/ AddSensor(m) \/ DropReport(m)
  \/ PassOn(m)

-------------------------------------------------------------------------------
(* Web socket and web page commands.  The key comes from the user: 0/0 is   *)
(* found too, in any empty slot.                                            *)
UserKeys == Keys \cup {NoKey}

onWsSetActuator(k) ==
  /\ SlotsHolding(k) # {}
  /\ out' = [Silent EXCEPT !.sent = {ToNode("SET", k[1], k[2])}]
  /\ UNCHANGED <<nodeIds, counters, table>>

(* removeSensor, over the web socket or as a POST: the slot is zeroed, the  *)
(* file is not written and nothing is uncounted.                            *)
RemoveSensorFault(k) ==   \* the slots above move down
  /\ SlotsHolding(k) # {}
  /\ LET gone == Min(SlotsHolding(k))
     IN mySensors' = [i \in Slots |-> IF i < gone THEN mySensors[i]
                                     ELSE IF i = MaxSensors THEN EmptySlot
                                     ELSE mySensors[i + 1]]
  /\ out' = Silent
  /\ UNCHANGED <<nodeIds, sensorsFile, counters>>

RemoveSensor(k) ==
  /\ SlotsHolding(k) # {}
  /\ mySensors' = [mySensors EXCEPT ![Min(SlotsHolding(k))] = EmptySlot]
  /\ out' = Silent
  /\ UNCHANGED <<nodeIds, sensorsFile, counters>>

(* SetObjectValue("sensor<i>", v) of a script: the slot may be empty. *)
setSensorValue(i) ==
  /\ out' = [Silent EXCEPT
               !.sent = {ToNode("SET", mySensors[i].key[1], mySensors[i].key[2])}]
  /\ UNCHANGED <<nodeIds, counters, table>>

Restart ==
  /\ begin(sensorsFile)
  /\ UNCHANGED sensorsFile

(* fileSetContent truncates the file before it writes it: power lost in     *)
(* between leaves a file that begin cannot parse.                           *)
PowerLossInSave(m) ==
  /\ NewSensor(m)
  /\ sensorsFile' = NoFile
  /\ begin(NoFile)

(* An update of the gateway restarts it from its other ROM, with the new    *)
(* file system that was downloaded with it.                                 *)
FirmwareUpdate ==
  /\ sensorsFile' = NoFile
  /\ begin(NoFile)

Next ==
  \/ \E m \in Messages : incomingMessage(m) \/ PowerLossInSave(m)
  \/ \E k \in UserKeys : onWsSetActuator(k) \/ RemoveSensor(k)
  \/ \E i \in Slots : setSensorValue(i)
  \/ Restart \/ FirmwareUpdate

Spec == Init /\ [][Next]_vars

-------------------------------------------------------------------------------
TypeOK ==
  /\ nodeIds \subseteq Nodes \cup {GATEWAY_ADDRESS, AUTO}
  /\ mySensors \in [Slots -> [key : Keys \cup {NoKey}, value : Values \cup {NoValue}]]
  /\ sensorsFile \in [Slots -> Keys \cup {NoKey}]
  /\ numDetectedNodes \in Nat /\ numDetectedNodes < UINT8
  /\ numDetectedSensors \in Nat /\ numDetectedSensors < UINT16
  /\ status \in [nodes : Nat, sensors : Nat]
  /\ out.forwarded \subseteq Messages
  /\ out.trigger \in Slots \cup {0}

(* A sensor never has two slots, whatever was removed, re-added or restored *)
(* in between: lookup and insertion scan the table separately, and only the *)
(* first match is updated, read by rules or removed.                        *)
NoDuplicateSensor ==
  \A i, j \in Slots :
    mySensors[i].key = mySensors[j].key /\ mySensors[i].key # NoKey => i = j

(* Rules name a sensor by its slot ("sensor<id>"), so a slot must hold the  *)
(* same sensor after any restart: every slot in use is saved in its place,  *)
(* although removals are never written.                                     *)
SlotsAreSaved ==
  \A i \in Slots : mySensors[i].key # NoKey => sensorsFile[i] = mySensors[i].key

(* Every node of the table or of the file is known, so its id is not free.  *)
NodesKnown ==
  \A i \in Slots : mySensors[i].key[1] \in nodeIds /\ sensorsFile[i][1] \in nodeIds

(* The 8-bit node counter never counts more nodes than there are known ids, *)
(* so it cannot wrap, and web clients never see more than it.               *)
NodeCountBounded ==
  /\ numDetectedNodes <= Cardinality(nodeIds \ {GATEWAY_ADDRESS, AUTO})
  /\ status.nodes <= numDetectedNodes

(* What the controller or a rule is told of, the table holds: after a       *)
(* handler forwarded a C_SET, the sensor's one slot has that very value and *)
(* it is the slot whose rules ran.                                          *)
ForwardedIsStored ==
  \A m \in out.forwarded : m.kind = "SET" =>
    /\ SlotsHolding(KeyOf(m)) = {out.trigger}
    /\ mySensors[out.trigger].value = m.value

(* An id that is given away belongs to no node heard since the last restart *)
(* or saved before it, and is not given twice.                              *)
GivenIdIsFresh ==
  [][\A r \in out'.sent : r.kind = "ID_RESPONSE" =>
       /\ r.arg \notin nodeIds
       /\ \A i \in Slots : r.arg \notin {mySensors[i].key[1], sensorsFile[i][1]}
       /\ r.arg \in nodeIds']_vars

(* A slot in use changes hands only through removal: no step, restart       *)
(* included, puts another sensor in it.                                     *)
SlotKeepsItsSensor ==
  [][\A i \in Slots : mySensors[i].key # NoKey =>
       mySensors'[i].key \in {mySensors[i].key, NoKey}]_vars

(* The abstract registry this class implements. *)
Registry == INSTANCE SensorRegistry WITH
  Pool <- FirstId..LastId, Sensors <- Nodes \X (ChildIds \cup {AUTO}), Capacity <- MaxSensors,
  known <- nodeIds \ {GATEWAY_ADDRESS, AUTO},
  registered <- {mySensors[i].key : i \in Slots} \ {NoKey},
  saved <- {sensorsFile[i] : i \in Slots} \ {NoKey}

(* Each handler, restart and power failure is a step of SensorRegistry. *)
ImplementsRegistry == Registry!Spec
===============================================================================
