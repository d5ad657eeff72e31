----------------------------- MODULE CloudGateway -----------------------------
(***************************************************************************)
(* A gateway for the cloud: IOExpansion with CloudController, the way      *)
(* app/application.cpp connects them.  A change of a pin is published to   *)
(* the topic of the thing; a message that is sent may still be lost with   *)
(* its connection.  Rules are no part of this module.                      *)
(***************************************************************************)
EXTENDS CloudController, IOExpansion

VARIABLE shown   \* what the service was told last of an object: whose and what

vars == <<cloudVars, ioVars, shown>>

Nothing == [thing |-> NoToken, value |-> 0]

Init ==
  /\ CloudInit /\ ExpansionInit
  /\ shown = [o \in Objects |-> Nothing]

(* notifyChange for each object told; the service gets the ones delivered.  *)
Delivering == mqtt.link = "connected" /\ wifi

notifyChange(told, delivered) ==
  /\ delivered \subseteq told /\ (delivered # {} => Delivering)
  /\ shown' = [o \in Objects |->
       IF o \in delivered THEN [thing |-> mqtt_thing_topic, value |-> cached'[o]] ELSE shown[o]]

i2cChange(told, delivered) ==
  /\ i2cCheckDigitalState(told) \/ i2cCheckAnalogState(told)
  /\ notifyChange(told, delivered)
  /\ UNCHANGED cloudVars

Starts ==
  /\ Restart \/ \E token \in Tokens \cup {NoToken} : PowerLossInSave(token)
  /\ ExpansionRestart
  /\ UNCHANGED shown

CloudStep ==
  /\ \/ oneSecondTimerHandler
     \/ \E token \in Tokens \cup {NoToken} : onActivateDataSent(token)
     \/ ActivationFails
     \/ WifiChanges \/ MqttConnects \/ MqttCloses
  /\ UNCHANGED <<ioVars, shown>>

PinStep ==
  /\ \E o \in Objects : PinChanges(o)
  /\ UNCHANGED <<cloudVars, shown>>

Next ==
  \/ CloudStep \/ Starts \/ PinStep
  \/ \E told \in SUBSET Objects, delivered \in SUBSET Objects : i2cChange(told, delivered)

(* Timers fire.  The service answers one of many activations, and one of    *)
(* many connections comes about, one of many subscriptions succeeds, one of *)
(* many messages arrives.                                                   *)
Stays == UNCHANGED <<ioVars, shown>>
Answers == \E token \in Tokens : onActivateDataSent(token)
Subscribes == MqttTick /\ state' = MqttSubscribed

Fairness ==
  /\ WF_vars(oneSecondTimerHandler /\ Stays)
  /\ WF_vars(ActivationFails /\ Stays)
  /\ SF_vars(Answers /\ Stays)
  /\ SF_vars(MqttConnects /\ Stays)
  /\ SF_vars(Subscribes /\ Stays)
  /\ WF_vars(\E delivered \in SUBSET Objects, told \in SUBSET Objects :
       i2cCheckAnalogState(told) /\ notifyChange(told, delivered) /\ UNCHANGED cloudVars)
  /\ SF_vars(i2cCheckAnalogState(Analog) /\ notifyChange(Analog, Analog) /\ UNCHANGED cloudVars)

Spec == Init /\ [][Next]_vars /\ Fairness

-------------------------------------------------------------------------------
TypeOK ==
  /\ wifi \in BOOLEAN /\ credentials \in BOOLEAN /\ activation \in BOOLEAN
  /\ cloudDeviceToken \in Tokens \cup {NoToken}
  /\ state \in StateInit..MqttSubscribed
  /\ mqtt \in [link : {"none", "connecting", "connected", "closed"}, session : Tokens \cup {NoToken}]
  /\ mqtt_thing_topic \in Tokens \cup {NoToken}
  /\ numChecks \in 0..(NumChecks + 1)
  /\ pins \in [Objects -> Levels] /\ cached \in [Objects -> Levels]
  /\ forcePublish \in 1..FORCE_PUBLISH_ANALOG_IVL
  /\ changes \in 0..MaxChanges
  /\ shown \in [Objects -> [thing : Tokens \cup {NoToken}, value : Levels]]

(* Whatever activation answers come late, the MQTT session is one under the *)
(* token the service gave last, and there is a client and a topic, in every *)
(* state in which they are used.                                            *)
SessionIsCurrent ==
  state >= MqttConnecting =>
    /\ mqtt.link # "none" /\ mqtt_thing_topic # NoToken
    /\ mqtt.session = cloudDeviceToken /\ cloudDeviceToken # NoToken

(* With WiFi that stays the gateway gets subscribed, unless it got no token *)
(* or the count of checks passed its limit: from then on every check only   *)
(* starts another connection.                                               *)
GetsSubscribed ==
  <>[](wifi /\ credentials) =>
    []<>(state = MqttSubscribed \/ cloudDeviceToken = NoToken \/ numChecks > NumChecks)

(* An analog value that changed while there was no connection gets to the   *)
(* service once there is one, unless it goes to the topic of an old token.  *)
AnalogReachesCloud ==
  <>[](Delivering /\ mqtt_thing_topic = cloudDeviceToken) =>
    []<>(\A o \in Analog : shown[o] = [thing |-> cloudDeviceToken, value |-> cached[o]])
================================================================================
