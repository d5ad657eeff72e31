-------------------------------- MODULE MyStatus -------------------------------
(***************************************************************************)
(* What web pages show of the gateway: MyStatus, the web sockets of         *)
(* app/HTTP.cpp, and the scripts of the two pages that listen to them,      *)
(* spiffs/status.html and spiffs/maintenance.html.  Pages do not meet, so   *)
(* one stands for all.  A page is the function from what it shows to the    *)
(* values; the values of a key that matter are two, except for the state of *)
(* the firmware.  A socket breaks unnoticed, and messages arrive at once.   *)
(* Whatever is counted or connected elsewhere changes here at any time.  An *)
(* operator named ...Fault is a slip that a property must catch, and no     *)
(* part of the next-state relation.                                         *)
(***************************************************************************)
EXTENDS Integers

CONSTANT MaxStatusChanges   \* bound: changes of what pages show

VARIABLES
  now,            \* what is so, by key; firmwareSt is MyStatus::firmwareState
  freeHeapSize,   \* the free memory, as it was told last
  updateTimer,    \* started: notifyCounters is called when it fires
  page,           \* the page that is open: values by key
  socket,         \* its web socket works
  calm,           \* history: no news was kept from the page since it asked last
  statusChanges

myStatusVars == <<now, freeHeapSize, updateTimer, page, socket, calm, statusChanges>>
restOfStatus == <<freeHeapSize, updateTimer>>
browserVars == <<page, socket, calm>>

StatusPage == {"detected", "packets", "freeHeap", "startTime", "gwIp", "mqttStatus"}
MaintenancePage == {"firmwareSt", "startTime"}
NoPage == [k \in {} |-> 0]
Started == [k \in StatusPage \cup MaintenancePage |-> IF k = "firmwareSt" THEN "systemReady" ELSE 0]
NoHeapSize == 2

MyStatusInit ==
  /\ now = Started /\ freeHeapSize = NoHeapSize /\ updateTimer = FALSE
  /\ page = NoPage /\ socket = FALSE /\ calm = FALSE
  /\ statusChanges = 0

Changes(key, value) ==
  /\ statusChanges < MaxStatusChanges /\ statusChanges' = statusChanges + 1
  /\ now' = [now EXCEPT ![key] = value]
Flips(key) == Changes(key, 1 - now[key])

-------------------------------------------------------------------------------
(* Every web socket gets the message, which is one for pages of this type:  *)
(* such a page shows the value from now on.                                 *)
notifyWsClients(type, key, value) ==
  page' = IF socket /\ DOMAIN page = type THEN [page EXCEPT ![key] = value] ELSE page

(* News of the status is dropped during a download, and not repeated.       *)
notifyUpdate(key, value) ==
  /\ IF now.firmwareSt = "downloadStarted" THEN UNCHANGED page
     ELSE notifyWsClients(StatusPage, key, value)
  /\ UNCHANGED <<socket, calm>>

(* A packet of the radio or of MQTT: the timer is started unless it runs.   *)
updatePackets ==
  /\ Flips("packets")
  /\ updateTimer' = TRUE /\ UNCHANGED <<freeHeapSize, browserVars>>

(* A packet of the pong command starts no timer.                            *)
updateSensorStateInt ==
  /\ Flips("packets")
  /\ calm' = FALSE /\ UNCHANGED <<restOfStatus, page, socket>>

notifyCounters ==
  /\ updateTimer /\ updateTimer' = FALSE
  /\ notifyUpdate("packets", now.packets) /\ UNCHANGED <<now, freeHeapSize, statusChanges>>

updateDetectedSensorsFault ==   \* told before they are counted
  /\ Flips("detected")
  /\ notifyUpdate("detected", now.detected) /\ UNCHANGED restOfStatus

updateDetectedSensors ==
  /\ Flips("detected")
  /\ notifyUpdate("detected", now'.detected) /\ UNCHANGED restOfStatus

(* The first time that the clock is set.                                    *)
setStartupTime ==
  /\ now.startTime = 0 /\ Changes("startTime", 1)
  /\ notifyUpdate("startTime", now'.startTime) /\ UNCHANGED restOfStatus

updateGWIpConnection ==
  /\ Flips("gwIp")
  /\ notifyUpdate("gwIp", now'.gwIp) /\ UNCHANGED restOfStatus

(* A new MQTT client is not connected yet; nobody is told when it is, or    *)
(* when its connection breaks.                                              *)
updateMqttConnection ==
  /\ Changes("mqttStatus", 0)
  /\ notifyUpdate("mqttStatus", now'.mqttStatus) /\ UNCHANGED restOfStatus

MqttChanges == Flips("mqttStatus") /\ UNCHANGED <<restOfStatus, browserVars>>
HeapChanges == Flips("freeHeap") /\ UNCHANGED <<restOfStatus, browserVars>>

(* What is new is new to MyStatus, a page may have asked in between.        *)
updateFreeHeapSize ==
  /\ freeHeapSize # now.freeHeap /\ freeHeapSize' = now.freeHeap
  /\ notifyUpdate("freeHeap", now.freeHeap) /\ UNCHANGED <<now, updateTimer, statusChanges>>

setFirmwareDldStart ==
  /\ Changes("firmwareSt", "downloadStarted")
  /\ notifyWsClients(MaintenancePage, "firmwareSt", "downloadStarted")
  /\ calm' = (calm /\ DOMAIN page = MaintenancePage)
  /\ UNCHANGED <<restOfStatus, socket>>

setFirmwareDldEnd(state) ==
  /\ now.firmwareSt = "downloadStarted"
  /\ now' = [now EXCEPT !.firmwareSt = state]
  /\ notifyWsClients(MaintenancePage, "firmwareSt", state)
  /\ UNCHANGED <<restOfStatus, socket, calm, statusChanges>>

(* After an update, a command, or for whatever reason.                      *)
StatusRestart ==
  /\ statusChanges < MaxStatusChanges /\ statusChanges' = statusChanges + 1
  /\ now' = [Started EXCEPT !.freeHeap = now.freeHeap]
  /\ freeHeapSize' = NoHeapSize /\ updateTimer' = FALSE
  /\ socket' = FALSE /\ calm' = FALSE /\ UNCHANGED page

-------------------------------------------------------------------------------
(* The answers to what a page asks as soon as its socket is open, and again *)
(* later.                                                                   *)
onWsGetStatus == [k \in StatusPage |-> now[k]]
onWsGetDldStatus == [k \in MaintenancePage |-> now[k]]

wsMessageReceived(command) ==
  /\ page' = IF command = "getStatus" THEN onWsGetStatus ELSE onWsGetDldStatus
  /\ calm' = (command = "getDldStatus" \/ now.firmwareSt # "downloadStarted")
  /\ socket' = TRUE
  /\ UNCHANGED <<now, restOfStatus, statusChanges>>

StartWebSocket == page = NoPage /\ \E command \in {"getStatus", "getDldStatus"} : wsMessageReceived(command)

(* The status page asks every minute, the maintenance page every three      *)
(* seconds once a download was started; whoever gets no answer, or learns   *)
(* that the socket is closed, asks on a new one.                            *)
reCheckSocket ==
  \/ DOMAIN page = StatusPage /\ wsMessageReceived("getStatus")
  \/ DOMAIN page = MaintenancePage /\ wsMessageReceived("getDldStatus")

PageCloses ==
  /\ page # NoPage /\ page' = NoPage /\ socket' = FALSE /\ calm' = FALSE
  /\ UNCHANGED <<now, restOfStatus, statusChanges>>

SocketBreaks ==
  /\ socket /\ socket' = FALSE /\ calm' = FALSE
  /\ UNCHANGED <<now, restOfStatus, page, statusChanges>>

MyStatusNext ==
  \/ updatePackets \/ updateSensorStateInt \/ notifyCounters \/ updateDetectedSensors
  \/ setStartupTime \/ updateGWIpConnection \/ updateMqttConnection \/ MqttChanges
  \/ HeapChanges \/ updateFreeHeapSize
  \/ setFirmwareDldStart \/ \E s \in {"downloadFailed", "downloadSuccess"} : setFirmwareDldEnd(s)
  \/ StatusRestart
  \/ StartWebSocket \/ reCheckSocket \/ PageCloses \/ SocketBreaks

-------------------------------------------------------------------------------
(* What pages are told of as it changes: the rest shows when they ask.      *)
Announced == {"detected", "gwIp", "firmwareSt"} \cup IF DOMAIN page = StatusPage THEN {"startTime"} ELSE {}

(* Unless a download, a broken socket or the pong command kept news from    *)
(* it, a page shows what MyStatus announces as it is, whatever happened     *)
(* since it asked; the counters of packets may be late, while the timer     *)
(* that tells them runs.                                                    *)
PageIsCurrent ==
  calm => /\ \A k \in DOMAIN page \cap Announced : page[k] = now[k]
          /\ "packets" \in DOMAIN page => page["packets"] = now["packets"] \/ updateTimer
================================================================================
