-------------------------- MODULE CloudGatewayProofs --------------------------
(***************************************************************************)
(* The MQTT session of a gateway for the cloud is never one of an old      *)
(* token, for any tokens, limits and pins.                                 *)
(***************************************************************************)
EXTENDS CloudGateway, TLAPS

USE DEF StateInit, WaitingWifi, WifiConnected, Activated, MqttConnecting,
        MqttConnected, MqttSubscribed

(* What it needs besides: the types of the state, of the token and of the   *)
(* client, because every action on the link keeps the rest of the client.   *)
Clients ==
  [link : {"none", "connecting", "connected", "closed"}, session : Tokens \cup {NoToken}]

SessionInv ==
  /\ state \in StateInit..MqttSubscribed
  /\ cloudDeviceToken \in Tokens \cup {NoToken}
  /\ mqtt \in Clients
  /\ SessionIsCurrent

LEMMA TimerKeepsSession ==
  ASSUME SessionInv, oneSecondTimerHandler PROVE SessionInv'
<1> USE CloudAssumption DEF SessionInv, SessionIsCurrent, Clients
<1>1. CASE LostConnection
  BY <1>1 DEF LostConnection, settings, client
<1>2. CASE WaitForWifi
  BY <1>2 DEF WaitForWifi, settings, client
<1>3. CASE activate
  BY <1>3 DEF activate, settings, client
<1>4. CASE MqttTick
  <2>1. cloudDeviceToken' = cloudDeviceToken
    BY <1>4 DEF MqttTick, settings
  <2>2. CASE startMqttClient
    BY <2>1, <2>2 DEF startMqttClient
  <2>3. CASE /\ state \in {MqttConnecting, MqttConnected}
             /\ state' \in {state, MqttConnected, MqttSubscribed}
             /\ UNCHANGED <<mqtt, mqtt_thing_topic>>
    BY <2>1, <2>3
  <2>4. QED
    BY <1>4, <2>2, <2>3 DEF MqttTick, checkMqttClient, subscribe
<1>5. QED
  BY <1>1, <1>2, <1>3, <1>4 DEF oneSecondTimerHandler

LEMMA LinkKeepsSession ==
  ASSUME SessionInv, MqttConnects \/ MqttCloses PROVE SessionInv'
<1>1. UNCHANGED <<state, cloudDeviceToken, mqtt_thing_topic>>
  BY DEF MqttConnects, MqttCloses, settings
<1>2. mqtt' \in {[mqtt EXCEPT !.link = "connected"], [mqtt EXCEPT !.link = "closed"]}
  BY DEF MqttConnects, MqttCloses
<1>3. mqtt' \in Clients /\ mqtt'.link # "none" /\ mqtt'.session = mqtt.session
  BY <1>2 DEF SessionInv, Clients
<1>4. QED
  BY <1>1, <1>3 DEF SessionInv, SessionIsCurrent

(* In every state that uses the MQTT client there is one, with a topic, and *)
(* its session is under the token the service gave last.                    *)
THEOREM SessionsAreCurrent == Spec => []SessionIsCurrent
<1>1. Init => SessionInv
  BY DEF Init, CloudInit, NoClient, Clients, SessionInv, SessionIsCurrent
<1>2. SessionInv /\ [Next]_vars => SessionInv'
  <2> SUFFICES ASSUME SessionInv, [Next]_vars PROVE SessionInv'
    OBVIOUS
  <2>1. ASSUME NEW token \in Tokens \cup {NoToken}, onActivateDataSent(token)
        PROVE  SessionInv'
    BY <2>1 DEF onActivateDataSent, client, SessionInv, SessionIsCurrent
  <2>2. ASSUME UNCHANGED <<state, settings, mqtt, mqtt_thing_topic>> PROVE SessionInv'
    BY <2>2 DEF SessionInv, SessionIsCurrent, settings
  <2>3. ASSUME Start, cloudDeviceToken' \in {cloudDeviceToken, NoToken} PROVE SessionInv'
    BY <2>3 DEF Start, NoClient, Clients, SessionInv, SessionIsCurrent
  <2>4. CASE CloudStep
    <3>1. ASSUME ActivationFails \/ WifiChanges PROVE SessionInv'
      BY <2>2, <3>1 DEF ActivationFails, WifiChanges, client
    <3>2. QED
      BY <2>1, <2>4, <3>1, TimerKeepsSession, LinkKeepsSession DEF CloudStep
  <2>5. CASE Starts
    BY <2>3, <2>5 DEF Starts, Restart, PowerLossInSave, settings
  <2>6. CASE PinStep
    BY <2>2, <2>6 DEF PinStep, cloudVars, client
  <2>7. CASE \E told \in SUBSET Objects, delivered \in SUBSET Objects : i2cChange(told, delivered)
    BY <2>2, <2>7 DEF i2cChange, cloudVars, client
  <2>8. CASE UNCHANGED vars
    BY <2>2, <2>8 DEF vars, cloudVars, client
  <2>9. QED
    BY <2>4, <2>5, <2>6, <2>7, <2>8 DEF Next
<1>3. SessionInv => SessionIsCurrent
  BY DEF SessionInv
<1>4. QED
  BY <1>1, <1>2, <1>3, PTL DEF Spec
===============================================================================
