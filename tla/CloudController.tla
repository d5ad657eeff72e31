---------------------------- MODULE CloudController ----------------------------
(***************************************************************************)
(* The controller of the cloud service (app/CloudController.cpp): a timer  *)
(* of one second takes it from the WiFi connection over the activation,    *)
(* which returns the token of the gateway, to an MQTT session under that   *)
(* token.  The HTTP client, the MQTT client and the station belong to the  *)
(* SDK: the first two finish, fail or break at any moment.                 *)
(***************************************************************************)
EXTENDS Integers

CONSTANTS
  Tokens,       \* names of things the service knows
  NoToken,      \* the empty token, and no topic
  NumChecks     \* checks of a connection before it is made anew: 10

ASSUME CloudAssumption == NoToken \notin Tokens /\ NumChecks \in Nat

VARIABLES
  wifi,              \* WifiStation.isConnected()
  credentials,       \* AppSettings.cloudLogin and cloudPassword are there
  cloudDeviceToken,  \* of AppSettings, in RAM and in the file
  state,
  activation,        \* a request of the HTTP client is under way
  mqtt,              \* link: "none" if there is no client, else its TCP
                     \* connection; session: the token of the last connect()
  mqtt_thing_topic,  \* the token in it
  numChecks

settings == <<credentials, cloudDeviceToken>>
client == <<mqtt, mqtt_thing_topic, numChecks>>
cloudVars == <<wifi, settings, state, activation, client>>

StateInit == 0
WaitingWifi == 1
WifiConnected == 2
Activated == 3
MqttConnecting == 4
MqttConnected == 5
MqttSubscribed == 6

NoClient == [link |-> "none", session |-> NoToken]
isProcessing == mqtt.link \in {"connecting", "connected"}

(* The gateway starts, its settings as saved.                               *)
Start ==
  /\ wifi' = FALSE
  /\ state' = StateInit
  /\ activation' = FALSE
  /\ mqtt' = NoClient /\ mqtt_thing_topic' = NoToken /\ numChecks' = 0

CloudInit ==
  /\ wifi = FALSE
  /\ credentials = TRUE /\ cloudDeviceToken = NoToken
  /\ state = StateInit
  /\ activation = FALSE
  /\ mqtt = NoClient /\ mqtt_thing_topic = NoToken /\ numChecks = 0

-------------------------------------------------------------------------------
(* oneSecondTimerHandler, by state.  (Operators named ...Fault are slips    *)
(* the properties must catch, they are no part of the next-state relation.) *)
LostConnection ==
  /\ ~wifi /\ state > WaitingWifi
  /\ state' = WaitingWifi
  /\ UNCHANGED <<wifi, settings, activation, client>>

WaitForWifi ==
  /\ \/ state = StateInit /\ state' = WaitingWifi
     \/ state = WaitingWifi /\ wifi /\ state' = WifiConnected
  /\ UNCHANGED <<wifi, settings, activation, client>>

(* The HTTP client refuses a request while one is under way.                *)
activate ==
  /\ wifi /\ state = WifiConnected
  /\ credentials /\ ~activation
  /\ activation' = TRUE
  /\ UNCHANGED <<wifi, settings, state, client>>

startMqttClientFault ==   \* a slip to be caught: only a new client connects
  /\ cloudDeviceToken # NoToken
  /\ mqtt_thing_topic' = cloudDeviceToken
  /\ state' = MqttConnecting
  /\ mqtt' = IF mqtt.link = "none"
             THEN [link |-> "connecting", session |-> cloudDeviceToken] ELSE mqtt
  /\ UNCHANGED numChecks

startMqttClient ==
  /\ cloudDeviceToken # NoToken
  /\ mqtt_thing_topic' = IF mqtt_thing_topic = NoToken THEN cloudDeviceToken ELSE mqtt_thing_topic
  /\ state' = MqttConnecting
  /\ mqtt' = [link |-> "connecting", session |-> cloudDeviceToken]
  /\ UNCHANGED numChecks

subscribe ==
  state' \in {MqttConnected, MqttSubscribed}

checkMqttClientFault ==   \* a slip to be caught: a closed connection is waited for
  \/ numChecks > NumChecks /\ startMqttClient
  \/ /\ numChecks <= NumChecks /\ mqtt.link = "connected"
     /\ numChecks' = 0
     /\ subscribe
     /\ UNCHANGED <<mqtt, mqtt_thing_topic>>

checkMqttClientCountFault ==   \* a slip to be caught: the count has no limit
  \/ ~isProcessing /\ startMqttClient
  \/ /\ isProcessing
     /\ \/ mqtt.link = "connected" /\ numChecks' = 0 /\ subscribe
        \/ mqtt.link # "connected" /\ numChecks' = numChecks + 1 /\ UNCHANGED state
     /\ UNCHANGED <<mqtt, mqtt_thing_topic>>

checkMqttClient ==
  \/ (~isProcessing \/ numChecks > NumChecks) /\ startMqttClient
  \/ /\ isProcessing /\ numChecks <= NumChecks
     /\ \/ /\ state = MqttConnecting /\ mqtt.link = "connected"
           /\ numChecks' = 0
           /\ subscribe
        \/ /\ state = MqttConnecting /\ mqtt.link # "connected"
           /\ numChecks' = numChecks + 1
           /\ UNCHANGED state
        \/ /\ state = MqttConnected
           /\ subscribe
           /\ UNCHANGED numChecks
     /\ UNCHANGED <<mqtt, mqtt_thing_topic>>

MqttTick ==
  /\ wifi
  /\ \/ state = Activated /\ startMqttClient
     \/ state \in {MqttConnecting, MqttConnected} /\ checkMqttClient
  /\ UNCHANGED <<wifi, settings, activation>>

oneSecondTimerHandler == LostConnection \/ WaitForWifi \/ activate \/ MqttTick

-------------------------------------------------------------------------------
(* The service answers the activation, or the request fails.  An answer may *)
(* be without a token.                                                      *)
onActivateDataSent(token) ==
  /\ activation
  /\ activation' = FALSE
  /\ cloudDeviceToken' = token
  /\ state' = Activated
  /\ UNCHANGED <<wifi, credentials, client>>

ActivationFails ==
  /\ activation
  /\ activation' = FALSE
  /\ UNCHANGED <<wifi, settings, state, client>>

WifiChanges ==
  /\ wifi' = ~wifi
  /\ UNCHANGED <<settings, state, activation, client>>

MqttConnects ==
  /\ mqtt.link = "connecting" /\ wifi
  /\ mqtt' = [mqtt EXCEPT !.link = "connected"]
  /\ UNCHANGED <<wifi, settings, state, activation, mqtt_thing_topic, numChecks>>

MqttCloses ==
  /\ isProcessing
  /\ mqtt' = [mqtt EXCEPT !.link = "closed"]
  /\ UNCHANGED <<wifi, settings, state, activation, mqtt_thing_topic, numChecks>>

Restart ==
  /\ Start
  /\ UNCHANGED settings

(* Power is lost while a new token is saved, and the settings with it.      *)
PowerLossInSave(token) ==
  /\ activation /\ token # cloudDeviceToken
  /\ Start
  /\ cloudDeviceToken' = NoToken /\ credentials' = FALSE

CloudNext ==
  \/ oneSecondTimerHandler
  \/ \E token \in Tokens \cup {NoToken} : onActivateDataSent(token) \/ PowerLossInSave(token)
  \/ ActivationFails
  \/ WifiChanges \/ MqttConnects \/ MqttCloses
  \/ Restart
================================================================================
