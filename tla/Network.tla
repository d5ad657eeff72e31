-------------------------------- MODULE Network --------------------------------
(***************************************************************************)
(* NetworkClass (app/Network.cpp) in wireless mode, with its NTP client:   *)
(* the events of the WiFi station, the access point users configure the    *)
(* gateway through, and the flag isNetworkConnected of application.cpp.    *)
(*                                                                         *)
(* The station itself belongs to the SDK.  Its states:                     *)
(*   off      not enabled, or told to disconnect                           *)
(*   trying   searching for its network, again and again                   *)
(*   linked   connected, no address yet                                    *)
(*   online   connected, with an address                                   *)
(*   leaving  disconnecting because its configuration changed              *)
(* Left out: the portal login, which changes nothing, and wired mode.      *)
(***************************************************************************)
EXTENDS NtpClient

CONSTANT NotFoundLimit   \* how often the network is not found before a pause

ASSUME NetworkAssumption == NotFoundLimit \in Nat \ {0}

VARIABLES
  apMode,               \* AppSettings.apMode, saved
  ssid,                 \* AppSettings.ssid is not empty, saved
  station,              \* SDK
  softAp,               \* SDK: the access point is enabled
  connected,
  haveIp,
  numApNotFound,
  reconnectTimer,       \* started: connect is called when it fires
  apTimer,              \* softApSetPasswordTimer
  isNetworkConnected    \* application.cpp

settings == <<apMode, ssid>>
sdk == <<station, softAp>>
flags == <<connected, haveIp, numApNotFound, isNetworkConnected>>
timers == <<reconnectTimer, apTimer>>
networkVars == <<settings, sdk, flags, timers, ntpVars>>

ApModes == {"always", "never", "whenDisconnected"}
Online == station = "online"

(* The access point after softApEnable and softApDisable, link being the    *)
(* value of connected they see.                                             *)
softApEnable(link) ==
  IF apMode = "never" \/ (apMode = "whenDisconnected" /\ link) THEN softAp ELSE TRUE
softApDisable(link) ==
  IF apMode = "always" \/ (apMode = "whenDisconnected" /\ ~link) THEN softAp ELSE FALSE

-------------------------------------------------------------------------------
NetworkInit ==
  /\ apMode \in ApModes /\ ssid \in BOOLEAN
  /\ station = "off" /\ softAp = (apMode # "never")
  /\ connected = FALSE /\ haveIp = FALSE /\ numApNotFound = 0
  /\ isNetworkConnected = FALSE
  /\ reconnectTimer = ssid /\ apTimer = FALSE
  /\ NtpInit

(* A restart: of the user's, or to make a new apMode effective.             *)
NetworkRestart ==
  /\ apMode' \in ApModes
  /\ station' = "off" /\ softAp' = (apMode' # "never")
  /\ connected' = FALSE /\ haveIp' = FALSE /\ numApNotFound' = 0
  /\ isNetworkConnected' = FALSE
  /\ reconnectTimer' = ssid /\ apTimer' = FALSE
  /\ NtpRestart
  /\ UNCHANGED ssid

(* The settings page is posted: connect is called half a second later.      *)
onIpConfig ==
  /\ ssid' \in BOOLEAN
  /\ apTimer' \in {apTimer, TRUE}
  /\ reconnectTimer' = TRUE
  /\ UNCHANGED <<apMode, sdk, flags, ntpVars>>

apEnable ==
  /\ apTimer
  /\ apTimer' = FALSE
  /\ softAp' = softApEnable(connected)
  /\ UNCHANGED <<settings, station, flags, reconnectTimer, ntpVars>>

(* A station that is up already only leaves if its configuration changed.   *)
connect ==
  /\ reconnectTimer
  /\ reconnectTimer' = FALSE
  /\ station' \in IF station \in {"linked", "online"} THEN {station, "leaving"}
                  ELSE IF station = "leaving" THEN {station} ELSE {"trying"}
  /\ UNCHANGED <<settings, softAp, flags, apTimer, ntpVars>>

-------------------------------------------------------------------------------
(* handleEvent *)

Connected ==
  /\ station = "trying" /\ ssid
  /\ station' = "linked"
  /\ connected' = TRUE
  /\ UNCHANGED <<settings, softAp, haveIp, numApNotFound, isNetworkConnected,
                 timers, ntpVars>>

(* The address comes, or is renewed. *)
GotIp ==
  /\ station \in {"linked", "online"}
  /\ station' = "online"
  /\ IF haveIp THEN UNCHANGED <<isNetworkConnected, softAp>>
     ELSE isNetworkConnected' = TRUE /\ softAp' = softApDisable(connected)
  /\ haveIp' = TRUE
  /\ requestTime(TRUE, connectionTimer, timeoutTimer)
  /\ UNCHANGED <<settings, connected, numApNotFound, timers>>

(* What every EVENT_STAMODE_DISCONNECTED ends with.  (Operators named       *)
(* ...Fault are slips the properties must catch, they are not part of NetworkNext.) *)
LinkLostFault ==   \* connected is reset after softApEnable
  /\ connected' = FALSE
  /\ softAp' = IF connected THEN softApEnable(connected) ELSE softAp
  /\ isNetworkConnected' = FALSE
  /\ UNCHANGED <<settings, haveIp, apTimer, ntpVars>>
LinkLostSilentlyFault ==   \* the application is not told
  /\ connected' = FALSE
  /\ softAp' = IF connected THEN softApEnable(FALSE) ELSE softAp
  /\ UNCHANGED <<settings, haveIp, isNetworkConnected, apTimer, ntpVars>>

LinkLost ==
  /\ connected' = FALSE
  /\ softAp' = IF connected THEN softApEnable(FALSE) ELSE softAp
  /\ isNetworkConnected' = FALSE
  /\ UNCHANGED <<settings, haveIp, apTimer, ntpVars>>

(* The network was not found; after NotFoundLimit times the station is      *)
(* stopped and connect is called a minute later.                            *)
ApNotFoundFault ==   \* stopped, and never started again
  /\ station = "trying"
  /\ IF numApNotFound + 1 = NotFoundLimit
     THEN station' = "off" /\ numApNotFound' = 0
     ELSE numApNotFound' = numApNotFound + 1 /\ UNCHANGED station
  /\ LinkLost
  /\ UNCHANGED reconnectTimer

ApNotFoundCountFault ==   \* the counter is not reset
  /\ station = "trying"
  /\ numApNotFound' = numApNotFound + 1
  /\ IF numApNotFound' = NotFoundLimit
     THEN station' = "off" /\ reconnectTimer' = TRUE
     ELSE UNCHANGED <<station, reconnectTimer>>
  /\ LinkLost

ApNotFound ==
  /\ station = "trying"
  /\ IF numApNotFound + 1 = NotFoundLimit
     THEN station' = "off" /\ reconnectTimer' = TRUE /\ numApNotFound' = 0
     ELSE numApNotFound' = numApNotFound + 1 /\ UNCHANGED <<station, reconnectTimer>>
  /\ LinkLost

(* Any other reason: the SDK tries again by itself. *)
Disconnected ==
  /\ station # "off"
  /\ station' = "trying"
  /\ numApNotFound' = 0
  /\ LinkLost
  /\ UNCHANGED reconnectTimer

NetworkNext ==
  \/ NetworkRestart
  \/ onIpConfig \/ apEnable \/ connect
  \/ Connected \/ GotIp \/ ApNotFound \/ Disconnected
  \/ NtpNext(Online) /\ UNCHANGED <<settings, sdk, flags, timers>>

(* Timers fire.  The SDK finishes what it started, and finds the network    *)
(* and gets an address if it keeps trying; the DNS server answers, and not  *)
(* every NTP exchange is lost or overtaken by its timeout.                  *)
Ntp(A) == A /\ UNCHANGED <<settings, sdk, flags, timers>>
Leaves == station = "leaving" /\ Disconnected
GetsIp == station = "linked" /\ GotIp
LookedUp == Ntp(\E b \in BOOLEAN : staticDnsResponse(b))
ClockAnswered == Ntp(onReceive(TRUE))
ClockAsked == Ntp(ConnectionTimerFires(Online))
ClockRetried == Ntp(TimeoutTimerFires(Online))

Fairness ==
  /\ WF_networkVars(connect) /\ WF_networkVars(Leaves)
  /\ SF_networkVars(Connected) /\ SF_networkVars(GetsIp)
  /\ WF_networkVars(ClockAsked) /\ WF_networkVars(ClockRetried) /\ WF_networkVars(LookedUp)
  /\ SF_networkVars(ClockAnswered)

NetworkSpec == NetworkInit /\ [][NetworkNext]_networkVars
FairNetworkSpec == NetworkSpec /\ Fairness

-------------------------------------------------------------------------------
NetworkTypeOK ==
  /\ apMode \in ApModes /\ ssid \in BOOLEAN
  /\ station \in {"off", "trying", "linked", "online", "leaving"}
  /\ softAp \in BOOLEAN /\ connected \in BOOLEAN /\ haveIp \in BOOLEAN
  /\ numApNotFound \in 0..(NotFoundLimit - 1)
  /\ reconnectTimer \in BOOLEAN /\ apTimer \in BOOLEAN
  /\ isNetworkConnected \in BOOLEAN
  /\ NtpTypeOK

(* The gateway can be reached: while the station is not connected the       *)
(* access point is on, unless the user turned it off for good, and then it  *)
(* is never on.                                                             *)
ApWhenDisconnected ==
  IF apMode = "never" THEN ~softAp ELSE (~connected \/ apMode = "always") => softAp

(* The application is told of a connection only while there is one. *)
NotifiedWhileConnected ==
  isNetworkConnected => connected /\ haveIp /\ station \in {"online", "leaving"}

(* A station that was stopped, or not started yet, is started by a timer.   *)
StationIsStarted == (station = "off" /\ ssid) => reconnectTimer

(* A gateway with a network to connect to is online again and again.        *)
ComesOnline == <>[]ssid => []<>Online

(* A station that stays online learns the time, unless requests go on       *)
(* failing in a way that is not retried.                                    *)
ClockGetsSet == <>[]Online /\ <>[](failure = "none") => <>clockSet

(* The apMode command says of whenDisconnected: only enable the AP when     *)
(* disconnected from the network.                                           *)
ApOnlyWhenDisconnected == apMode = "whenDisconnected" /\ Online => ~softAp
===============================================================================
