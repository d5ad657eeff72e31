-------------------------------- MODULE OpenHab --------------------------------
(***************************************************************************)
(* The build with OpenHabMqttController: the MQTT client of app/mqtt.cpp,   *)
(* which sends what sensors report and receives what is to be sent to them, *)
(* and its settings page.  The packets it sends and receives are counted in *)
(* MyStatus.                                                                *)
(*                                                                         *)
(* A topic is the sequence of its levels, a prefix of topics too; numbers   *)
(* are written as numerals, and so are the names of types.  WiFi,           *)
(* the MQTT client of the SDK and the server are external: a connection may *)
(* break unnoticed, and a message may get lost or come late.  What the code *)
(* does with a client it has deleted is undefined: the model stops there.   *)
(***************************************************************************)
EXTENDS Integers, Sequences, FiniteSets, TLC

CONSTANTS
  MqttSettings,     \* what users may save: records of server, sensorPfx, controllerPfx
  NoServer,         \* the name of the server is empty, or its port is 0
  Types,            \* of the values that sensors report
  MaxConfigs,       \* bound: settings saved
  MaxInAir          \* bound: messages between the client and a server

VARIABLES
  online,           \* SDK: WifiStation.isConnected, or AppSettings.wired
  mqttSettings,     \* AppSettings, as they are saved
  mqtt,             \* the client: its state, and the server it was made for
  MqttConfigured,   \* what the display shows
  inAir,            \* messages to or from a server
  toSensor,         \* what was last sent to a sensor because of a message
  configs,
  savedOffline      \* history: settings saved offline, no client made since

clientVars == <<mqttSettings, mqtt, MqttConfigured, configs, savedOffline>>
openHabVars == <<online, clientVars, inAir, toSensor>>

NoClient == [state |-> "none", server |-> NoServer]
version == <<"", "ESP", "version">>
memory == <<"memory">>
query == <<"", "?">>

(* The settings page of a gateway that was never configured.                *)
OpenHabInit ==
  /\ online = FALSE
  /\ mqttSettings = [server |-> NoServer, sensorPfx |-> <<"">>, controllerPfx |-> <<"">>]
  /\ mqtt = NoClient /\ MqttConfigured = FALSE
  /\ inAir = {} /\ toSensor = <<>>
  /\ configs = 0 /\ savedOffline = FALSE

-------------------------------------------------------------------------------
(* The names of types and their numbers: there are numbers without a name,  *)
(* and any other name is 255.                                               *)
NamedTypes == 0..39 \cup 60..63
getSensorTypeString(type) == IF type \in NamedTypes THEN "V_" \o ToString(type) ELSE "V_"
getSensorTypeFromString(name) ==
  IF \E t \in NamedTypes : getSensorTypeString(t) = name
  THEN CHOOSE t \in NamedTypes : getSensorTypeString(t) = name ELSE 255

(* What the report of a sensor of node 22 is called.                        *)
report(type) == <<"22", "1", getSensorTypeString(type)>>

-------------------------------------------------------------------------------
(* mqtt.cpp *)

startsWith(topic, prefix) ==
  Len(prefix) < Len(topic) /\ SubSeq(topic, 1, Len(prefix)) = prefix

(* A published message is on its way, or lost at once.                      *)
publish(air, topic, server) ==
  {air} \cup IF Cardinality(air) = MaxInAir THEN {}
             ELSE {air \cup {[topic |-> topic, server |-> server]}}

(* What happens to the client that is replaced, when none takes its place:  *)
(* the pointer stays.                                                       *)
Deleted(client) ==
  CASE client.state = "none"  -> client
    [] client.state = "freed" -> [client EXCEPT !.state = "undefined"]
    [] OTHER                  -> [client EXCEPT !.state = "freed"]

startMqttClientFault(s, configured) ==   \* a client there is connects once more
  /\ s.server # NoServer /\ mqtt.state # "freed"
  /\ mqtt' = [state |-> "connecting", server |-> IF mqtt.state = "none" THEN s.server ELSE mqtt.server]
  /\ MqttConfigured' = TRUE
  /\ inAir' \in publish(inAir, version, s.server)
  /\ savedOffline' = FALSE

startMqttClient(s, configured) ==
  \/ /\ s.server = NoServer \/ mqtt.state = "freed"
     /\ mqtt' = Deleted(mqtt) /\ MqttConfigured' = configured
     /\ UNCHANGED <<inAir, savedOffline>>
  \/ /\ s.server # NoServer /\ mqtt.state # "freed"
     /\ mqtt' = [state |-> "connecting", server |-> s.server]
     /\ MqttConfigured' = TRUE
     /\ inAir' \in publish(inAir, version, s.server)
     /\ savedOffline' = FALSE

(* Every second.  A client that was freed may seem to work.                 *)
checkConnection ==
  /\ online /\ mqtt.state \notin {"connecting", "connected", "undefined"}
  /\ startMqttClient(mqttSettings, MqttConfigured)
  /\ UNCHANGED <<mqttSettings, configs, online, toSensor>>

(* Whoever opens the page, the display asks for a configuration again.      *)
onMqttConfig ==
  /\ mqtt.state # "undefined"
  /\ MqttConfigured' = FALSE
  /\ UNCHANGED <<mqttSettings, mqtt, configs, savedOffline, online, inAir, toSensor>>

postMqttConfig(s) ==
  /\ mqtt.state # "undefined" /\ configs < MaxConfigs
  /\ configs' = configs + 1
  /\ mqttSettings' = s
  /\ \/ online /\ startMqttClient(s, FALSE)
     \/ ~online /\ savedOffline' = TRUE /\ MqttConfigured' = FALSE /\ UNCHANGED <<mqtt, inAir>>
  /\ UNCHANGED <<online, toSensor>>

(* A report of a sensor, or the free memory.                                *)
notifyChange(object) ==
  /\ \/ mqtt.state = "none" /\ UNCHANGED <<mqtt, inAir>>
     \/ mqtt.state = "freed" /\ mqtt' = Deleted(mqtt) /\ UNCHANGED inAir
     \/ /\ mqtt.state \in {"closed", "connecting", "connected"} /\ UNCHANGED mqtt
        /\ inAir' \in publish(inAir, mqttSettings.sensorPfx \o object, mqtt.server)
  /\ UNCHANGED <<mqttSettings, MqttConfigured, configs, savedOffline, online, toSensor>>

(* What stands at an index of a topic, and as a number.                     *)
getValue(topic, index) == IF index < Len(topic) THEN topic[index + 1] ELSE ""
toInt(level) == IF level \in {"22", "1"} THEN level ELSE "0"

(* A message under controllerPfx is sent to a sensor, by the levels after   *)
(* the first one, however many the prefix has.  The client subscribes to    *)
(* every topic, so its own messages come back too.                          *)
onMessageReceived(m) ==
  /\ mqtt.state = "connected" /\ m.server = mqtt.server
  /\ toSensor' = IF startsWith(m.topic, mqttSettings.controllerPfx)
                 THEN <<toInt(getValue(m.topic, 1)), toInt(getValue(m.topic, 2)),
                        getSensorTypeFromString(getValue(m.topic, 3))>>
                 ELSE toSensor
  /\ inAir' \in IF m.topic = query THEN publish(inAir \ {m}, version, m.server) ELSE {inAir \ {m}}
  /\ UNCHANGED <<clientVars, online>>

-------------------------------------------------------------------------------
(* External: the SDK, servers and the controller behind them.               *)

ControllerSends(topic) ==
  /\ mqtt.state # "none" /\ Cardinality(inAir) < MaxInAir
  /\ inAir' = inAir \cup {[topic |-> topic, server |-> mqtt.server]}
  /\ UNCHANGED <<clientVars, online, toSensor>>

LoseMessage(m) ==
  /\ inAir' = inAir \ {m}
  /\ UNCHANGED <<clientVars, online, toSensor>>

Turns(from, to) ==
  /\ mqtt.state = from /\ mqtt' = [mqtt EXCEPT !.state = to]
  /\ UNCHANGED <<mqttSettings, MqttConfigured, configs, savedOffline, online, inAir, toSensor>>

Connects == online /\ Turns("connecting", "connected")
ConnectFails == Turns("connecting", "closed")
Breaks == Turns("connected", "closed")

WifiChanges ==
  /\ online' = ~online
  /\ UNCHANGED <<clientVars, inAir, toSensor>>

OpenHabNext ==
  \/ checkConnection \/ onMqttConfig
  \/ \E s \in MqttSettings : postMqttConfig(s)
  \/ notifyChange(memory) \/ \E t \in Types : notifyChange(report(t))
  \/ \E m \in inAir : onMessageReceived(m) \/ LoseMessage(m)
  \/ \E t \in Types, s \in MqttSettings : ControllerSends(s.controllerPfx \o report(t))
  \/ ControllerSends(query)
  \/ Connects \/ ConnectFails \/ Breaks \/ WifiChanges

(* The timer fires while there is WiFi; a server that is there now and then *)
(* long enough is reached in the end.                                       *)
OpenHabSpec ==
  /\ OpenHabInit /\ [][OpenHabNext]_openHabVars
  /\ WF_openHabVars(checkConnection) /\ WF_openHabVars(ConnectFails) /\ SF_openHabVars(Connects)

-------------------------------------------------------------------------------
(* While the gateway stays online it gets connected to the server that the  *)
(* settings name, again and again, whatever breaks and however often the    *)
(* settings change - unless they named none, which leaves a client that was *)
(* freed, or they were saved offline and the old connection outlived that.  *)
SettingsGetUsed ==
  <>[](online /\ ~savedOffline /\ mqttSettings.server # NoServer /\ mqtt.state \notin {"freed", "undefined"})
    => []<>(mqtt.state = "connected" /\ mqtt.server = mqttSettings.server)
================================================================================
