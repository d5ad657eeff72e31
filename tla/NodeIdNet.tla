------------------------------- MODULE NodeIdNet -------------------------------
(***************************************************************************)
(* How nodes without an id get one: MyGateway together with the devices of *)
(* libraries/MySensors/MySensor.cpp that ask it for an id (AUTO mode), over *)
(* a radio that loses messages.                                            *)
(*                                                                         *)
(* A device asks again and again, adopts the id of any answer it hears,    *)
(* presents itself, and only then writes the id to its EEPROM.  Answers    *)
(* have no address: every device without an id listens to them.  Devices   *)
(* and the gateway lose power at any moment.  The parent of a device is    *)
(* taken as found; routing is not part of this module.                     *)
(***************************************************************************)
EXTENDS MyGateway

CONSTANT Devices

VARIABLES
  power,      \* "off", "on", or "halted": stuck in while (1), no id left
  nodeId,     \* nc.nodeId, AUTO while a device has none
  savedId,    \* the byte at EEPROM_NODE_ID_ADDRESS
  requests,   \* devices with an I_ID_REQUEST the gateway has not read yet
  answers,    \* <<d, id>>: an I_ID_RESPONSE that device d has not read yet
  shared,     \* history: ids whose answer reached more than one device
  forgotten   \* history: ids a restart of the gateway forgot

device == <<power, nodeId, savedId>>
air == <<requests, answers>>
history == <<shared, forgotten>>
gateway == vars
netVars == <<gateway, device, air, history>>

NetInit ==
  /\ Init
  /\ power = [d \in Devices |-> "off"]
  /\ nodeId = [d \in Devices |-> AUTO]
  /\ savedId = [d \in Devices |-> AUTO]
  /\ requests = {} /\ answers = {}
  /\ shared = {} /\ forgotten = {}

Listening == {d \in Devices : power[d] = "on" /\ nodeId[d] = AUTO}

-------------------------------------------------------------------------------
(* Devices.  (Operators named ...Fault are slips the properties must catch, *)
(* they are not part of NetNext.)                                           *)

(* begin(): the id comes from the EEPROM, or is asked for. *)
PowerOn(d) ==
  /\ power[d] = "off"
  /\ power' = [power EXCEPT ![d] = "on"]
  /\ nodeId' = [nodeId EXCEPT ![d] = savedId[d]]
  /\ requests' = IF savedId[d] = AUTO THEN requests \cup {d} ELSE requests
  /\ UNCHANGED <<gateway, savedId, answers, history>>

(* sendRoute() of a device without an id sends a request instead. *)
requestNodeIdFault(d) ==   \* only the request of begin() is ever sent
  /\ d \in Listening \cap requests
  /\ UNCHANGED netVars

requestNodeId(d) ==
  /\ d \in Listening
  /\ requests' = requests \cup {d}
  /\ UNCHANGED <<gateway, device, answers, history>>

(* process() of an I_ID_RESPONSE; a device that has an id ignores it. *)
ReadAnswerFault(d, id) ==   \* the id is taken although there is one
  /\ <<d, id>> \in answers /\ power[d] = "on"
  /\ answers' = answers \ {<<d, id>>}
  /\ nodeId' = [nodeId EXCEPT ![d] = id]
  /\ savedId' = [savedId EXCEPT ![d] = id]
  /\ UNCHANGED <<gateway, power, requests, history>>

ReadAnswer(d, id) ==
  /\ <<d, id>> \in answers /\ power[d] = "on"
  /\ answers' = answers \ {<<d, id>>}
  /\ IF nodeId[d] = AUTO
     THEN /\ nodeId' = [nodeId EXCEPT ![d] = id]
          /\ power' = [power EXCEPT ![d] = IF id = AUTO THEN "halted" ELSE "on"]
     ELSE UNCHANGED <<nodeId, power>>
  /\ UNCHANGED <<gateway, savedId, requests, history>>

(* The write to EEPROM that follows setupNode(). *)
SaveId(d) ==
  /\ power[d] = "on" /\ nodeId[d] # AUTO /\ savedId[d] = AUTO
  /\ savedId' = [savedId EXCEPT ![d] = nodeId[d]]
  /\ UNCHANGED <<gateway, power, nodeId, air, history>>

PowerOff(d) ==
  /\ power[d] # "off"
  /\ power' = [power EXCEPT ![d] = "off"]
  /\ nodeId' = [nodeId EXCEPT ![d] = AUTO]
  /\ answers' = {a \in answers : a[1] # d}
  /\ UNCHANGED <<gateway, savedId, requests, history>>

-------------------------------------------------------------------------------
(* Device and gateway. *)

(* What d may send once it has an id; before setupNode() is done, only      *)
(* about itself, not about its sensors.                                     *)
Sends(d, m) ==
  /\ power[d] = "on" /\ nodeId[d] # AUTO
  /\ m.sender = nodeId[d] /\ m.kind # "ID_REQUEST"
  /\ savedId[d] = AUTO => m.kind \in {"PRESENTATION", "CONFIG", "OTHER"} /\ m.sensor = AUTO

HearDevice(d, m) ==
  /\ Sends(d, m)
  /\ incomingMessage(m)
  /\ UNCHANGED <<device, air, history>>

(* The gateway answers a request; the devices in heard get the answer.      *)
HandleRequest(d, heard) ==
  /\ d \in requests
  /\ heard \subseteq Listening
  /\ \E m \in Messages : m.kind = "ID_REQUEST" /\ m.sender = AUTO /\ incomingMessage(m)
  /\ LET ids == {r.arg : r \in {s \in out'.sent : s.kind = "ID_RESPONSE"}}
     IN /\ answers' = answers \cup (heard \X ids)
        /\ shared' = IF \E e, f \in heard : e # f THEN shared \cup ids ELSE shared
  /\ requests' = requests \ {d}
  /\ UNCHANGED <<device, forgotten>>

LoseRequest(d) ==
  /\ d \in requests
  /\ requests' = requests \ {d}
  /\ UNCHANGED <<gateway, device, answers, history>>

GatewayCommand ==
  /\ \/ \E k \in UserKeys : onWsSetActuator(k) \/ RemoveSensor(k)
     \/ \E i \in Slots : setSensorValue(i)
  /\ UNCHANGED <<device, air, history>>

(* A restart, possibly into a new firmware or in the middle of a save that  *)
(* d caused.                                                                *)
GatewayRestart ==
  /\ \/ Restart \/ FirmwareUpdate
     \/ \E d \in Devices, m \in Messages : Sends(d, m) /\ PowerLossInSave(m)
  /\ requests' = {}
  /\ forgotten' = forgotten \cup (nodeIds \ nodeIds')
  /\ UNCHANGED <<device, answers, shared>>

NetNext ==
  \/ \E d \in Devices :
       \/ PowerOn(d) \/ PowerOff(d) \/ requestNodeId(d) \/ SaveId(d) \/ LoseRequest(d)
       \/ \E id \in Nodes \cup {AUTO} : ReadAnswer(d, id)
       \/ \E m \in Messages : HearDevice(d, m)
       \/ \E heard \in SUBSET Devices : HandleRequest(d, heard)
  \/ GatewayCommand
  \/ GatewayRestart

(* A device runs its loop; the radio does not lose every request of it, nor *)
(* every answer to it.                                                      *)
NetFairness ==
  \A d \in Devices :
    /\ WF_netVars(requestNodeId(d))
    /\ WF_netVars(SaveId(d))
    /\ WF_netVars(\E id \in Nodes \cup {AUTO} : ReadAnswer(d, id))
    /\ SF_netVars(\E heard \in SUBSET Devices : d \in heard /\ HandleRequest(d, heard))

NetSpec == NetInit /\ [][NetNext]_netVars
FairNetSpec == NetSpec /\ NetFairness

-------------------------------------------------------------------------------
NetTypeOK ==
  /\ power \in [Devices -> {"off", "on", "halted"}]
  /\ nodeId \in [Devices -> Nodes \cup {AUTO}]
  /\ savedId \in [Devices -> Nodes \cup {AUTO}]
  /\ requests \subseteq Devices
  /\ answers \subseteq Devices \X (Nodes \cup {AUTO})
  /\ shared \subseteq Nodes /\ forgotten \subseteq Nodes

(* The id a device uses, or will use when it is switched on. *)
IdOf(d) == IF nodeId[d] # AUTO THEN nodeId[d] ELSE savedId[d]

(* Two devices use one id only for two reasons: one answer reached both, or *)
(* the gateway forgot in a restart that it had given the id away.           *)
IdsAreSharedForAReason ==
  \A d, e \in Devices :
    d # e /\ IdOf(d) = IdOf(e) /\ IdOf(d) # AUTO => IdOf(d) \in shared \cup forgotten

(* An id that is written to the EEPROM of a device is its id for good, and  *)
(* the one it runs with: a late answer to an earlier request changes neither.*)
SavedIdIsKept ==
  [][\A d \in Devices : savedId[d] # AUTO =>
       savedId'[d] = savedId[d] /\ nodeId'[d] \in {savedId[d], AUTO}]_netVars

(* A device that stays on gets an id once there is always a free one: lost  *)
(* requests and answers, restarts of the gateway, and ids that go to other  *)
(* devices or to nobody only delay it.                                      *)
EveryDeviceGetsAnId ==
  \A d \in Devices :
    <>[](power[d] # "off") /\ <>[](FreeIds # {}) => <>[](nodeId[d] # AUTO)

(* A comment in process() says that the gateway returns the highest id when *)
(* all are taken, on which a node stops asking: when the ids are used up    *)
(* for good, a device that stays on has an id or is told.                   *)
EveryDeviceIsAnswered ==
  \A d \in Devices :
    <>[](power[d] # "off") /\ <>[](FreeIds = {}) => <>(nodeId[d] # AUTO \/ power[d] = "halted")
===============================================================================
