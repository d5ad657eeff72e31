--------------------------- MODULE GatewayPartsProofs --------------------------
(***************************************************************************)
(* Safety of the parts of the gateway that share no state: the network and  *)
(* its clock (Network, NtpClient), the update of the gateway (Ota), the     *)
(* driver of the crypto chip (Atsha204), web pages (MyStatus) and rules      *)
(* (Automation).  A lemma ...Initially and a lemma ...Step say that an       *)
(* inductive invariant of a part holds at its start and is kept by its       *)
(* steps; theorems about the part follow, and at the end one about all of   *)
(* them in GatewayParts.                                                    *)
(***************************************************************************)
EXTENDS GatewayParts, TLAPS

-------------------------------------------------------------------------------
(* The network and its clock (Network, NtpClient).                          *)

(* NetworkClass keeps connected in step with the station: this is what makes *)
(* the decisions of softApEnable and softApDisable the right ones.          *)
ConnectedIsLinked == connected <=> station \in {"linked", "online", "leaving"}

NetworkInv ==
  /\ NetworkTypeOK
  /\ ConnectedIsLinked
  /\ ApWhenDisconnected
  /\ NotifiedWhileConnected
  /\ StationIsStarted
  /\ RequestIsCarriedOn

-------------------------------------------------------------------------------
(* requestTime, called by a timer or with an address, leaves something that  *)
(* carries the request on, or ends it with a recorded failure.               *)
LEMMA RequestStep ==
  ASSUME NtpTypeOK, NEW up \in BOOLEAN, NEW polling \in BOOLEAN, NEW timing \in BOOLEAN,
         requestTime(up, polling, timing)
  PROVE  NtpTypeOK' /\ RequestIsCarriedOn'
<1> USE NtpAssumption DEF NtpTypeOK, RequestIsCarriedOn
<1>1. CASE ~up
  BY <1>1 DEF requestTime
<1>2. CASE internalRequestTime /\ connectionTimer' = polling /\ UNCHANGED <<lookups, clockSet>>
  BY <1>2 DEF internalRequestTime
<1>3. CASE /\ lookups < MaxLookups /\ lookups' = lookups + 1
           /\ connectionTimer' = polling /\ timeoutTimer' = timing /\ failure' = "none"
           /\ UNCHANGED <<answers, clockSet>>
  BY <1>3
<1>4. CASE /\ connectionTimer' = polling /\ timeoutTimer' = timing /\ failure' = "lookup"
           /\ UNCHANGED <<lookups, answers, clockSet>>
  BY <1>4
<1>5. QED
  BY <1>1, <1>2, <1>3, <1>4 DEF requestTime

(* The steps of the NTP client keep a request alive until the clock is set,  *)
(* online or not.                                                           *)
LEMMA NtpStep ==
  ASSUME NtpTypeOK, RequestIsCarriedOn, NEW up \in BOOLEAN, NtpNext(up)
  PROVE  NtpTypeOK' /\ RequestIsCarriedOn'
<1>1. CASE ConnectionTimerFires(up) \/ TimeoutTimerFires(up)
  <2>1. connectionTimer \in BOOLEAN /\ timeoutTimer \in BOOLEAN
    BY DEF NtpTypeOK
  <2>2. PICK polling \in BOOLEAN, timing \in BOOLEAN : requestTime(up, polling, timing)
    BY <1>1, <2>1 DEF ConnectionTimerFires, TimeoutTimerFires
  <2>3. QED
    BY <2>2, RequestStep
<1>2. CASE staticDnsResponse(TRUE) \/ staticDnsResponse(FALSE)
  <2>1. NtpTypeOK'
    <3>1. CASE staticDnsResponse(TRUE)
      BY <3>1, NtpAssumption DEF staticDnsResponse, internalRequestTime, NtpTypeOK
    <3>2. CASE staticDnsResponse(FALSE)
      BY <3>2, NtpAssumption DEF staticDnsResponse, NtpTypeOK
    <3>3. QED
      BY <1>2, <3>1, <3>2
  <2>2. RequestIsCarriedOn'
    BY <1>2, Zenon DEF staticDnsResponse, internalRequestTime, RequestIsCarriedOn
  <2>3. QED
    BY <2>1, <2>2
<1>3. CASE onReceive(TRUE) \/ onReceive(FALSE)
  <2>1. lookups' \in 0..MaxLookups /\ answers' \in 0..MaxAnswers
    BY <1>3, NtpAssumption DEF onReceive, NtpTypeOK
  <2>2. RequestIsCarriedOn' /\ connectionTimer' \in BOOLEAN /\ timeoutTimer' \in BOOLEAN
          /\ clockSet' \in BOOLEAN /\ failure' \in {"never", "none", "lookup", "answer"}
    BY <1>3, Zenon DEF onReceive, NtpTypeOK, RequestIsCarriedOn
  <2>3. QED
    BY <2>1, <2>2 DEF NtpTypeOK
<1>4. CASE LoseAnswer
  BY <1>4, NtpAssumption DEF LoseAnswer, NtpTypeOK, RequestIsCarriedOn
<1>5. \A b \in BOOLEAN : b = TRUE \/ b = FALSE
  OBVIOUS
<1>6. QED
  BY <1>1, <1>2, <1>3, <1>4, <1>5, Zenon DEF NtpNext

-------------------------------------------------------------------------------
LEMMA NetworkInitially == NetworkInit => NetworkInv
<1> USE NetworkAssumption DEF ApModes
<1> SUFFICES ASSUME NetworkInit PROVE NetworkInv
  OBVIOUS
<1>1. 0 \in 0..(NotFoundLimit - 1) /\ 0 \in 0..MaxLookups /\ 0 \in 0..MaxAnswers
  BY NtpAssumption
<1>2. NetworkTypeOK
  BY <1>1, Zenon DEF NetworkInit, NtpInit, NetworkTypeOK, NtpTypeOK
<1>3. ConnectedIsLinked /\ ApWhenDisconnected
  BY DEF NetworkInit, ConnectedIsLinked, ApWhenDisconnected
<1>4. NotifiedWhileConnected /\ StationIsStarted /\ RequestIsCarriedOn
  BY Zenon DEF NetworkInit, NtpInit, NotifiedWhileConnected, StationIsStarted, RequestIsCarriedOn
<1>5. QED
  BY <1>2, <1>3, <1>4 DEF NetworkInv

(* handleEvent and the timers keep connected and the station in step, the    *)
(* access point on when it must be, and a stopped station about to be started. *)
LEMMA NetworkStep == NetworkInv /\ [NetworkNext]_networkVars => NetworkInv'
<1> USE NetworkAssumption DEF ApModes
<1> SUFFICES ASSUME NetworkInv, [NetworkNext]_networkVars PROVE NetworkInv'
  OBVIOUS
<1> USE DEF NetworkInv
<1> DEFINE NetworkPart == /\ ConnectedIsLinked /\ ApWhenDisconnected
                          /\ NotifiedWhileConnected /\ StationIsStarted
<1>0. ASSUME UNCHANGED ntpVars PROVE NtpTypeOK' /\ RequestIsCarriedOn'
  BY <1>0 DEF ntpVars, NetworkTypeOK, NtpTypeOK, RequestIsCarriedOn
<1>1. CASE NetworkRestart
  <2>1. 0 \in 0..(NotFoundLimit - 1) /\ 0 \in 0..MaxLookups /\ 0 \in 0..MaxAnswers
    BY NtpAssumption
  <2>2. NetworkTypeOK'
    BY <1>1, <2>1, Zenon DEF NetworkRestart, NtpRestart, NetworkTypeOK, NtpTypeOK
  <2>3. ConnectedIsLinked' /\ ApWhenDisconnected'
    BY <1>1 DEF NetworkRestart, ConnectedIsLinked, ApWhenDisconnected
  <2>4. NotifiedWhileConnected' /\ StationIsStarted' /\ RequestIsCarriedOn'
    BY <1>1, Zenon DEF NetworkRestart, NtpRestart, NotifiedWhileConnected, StationIsStarted,
       RequestIsCarriedOn
  <2>5. QED
    BY <2>2, <2>3, <2>4
<1>2. CASE onIpConfig
  <2>1. NetworkTypeOK' /\ RequestIsCarriedOn'
    BY <1>2, <1>0 DEF onIpConfig, NetworkTypeOK, sdk, flags
  <2>2. NetworkPart'
    BY <1>2 DEF onIpConfig, sdk, flags, ConnectedIsLinked, ApWhenDisconnected,
       NotifiedWhileConnected, StationIsStarted
  <2>3. QED
    BY <2>1, <2>2
<1>3. CASE apEnable
  <2>1. NetworkTypeOK' /\ RequestIsCarriedOn'
    BY <1>3, <1>0 DEF apEnable, softApEnable, NetworkTypeOK, settings, flags
  <2>2. NetworkPart'
    BY <1>3 DEF apEnable, softApEnable, settings, flags, NetworkTypeOK, ConnectedIsLinked,
       ApWhenDisconnected, NotifiedWhileConnected, StationIsStarted
  <2>3. QED
    BY <2>1, <2>2
<1>4. CASE connect
  <2>1. NetworkTypeOK' /\ RequestIsCarriedOn'
    BY <1>4, <1>0 DEF connect, NetworkTypeOK, settings, flags
  <2>2. NetworkPart'
    BY <1>4 DEF connect, settings, flags, NetworkTypeOK, ConnectedIsLinked,
       ApWhenDisconnected, NotifiedWhileConnected, StationIsStarted
  <2>3. QED
    BY <2>1, <2>2
<1>5. CASE Connected
  <2>1. NetworkTypeOK' /\ RequestIsCarriedOn'
    BY <1>5, <1>0 DEF Connected, NetworkTypeOK, settings, timers
  <2>2. NetworkPart'
    BY <1>5 DEF Connected, settings, timers, NetworkTypeOK, ConnectedIsLinked,
       ApWhenDisconnected, NotifiedWhileConnected, StationIsStarted
  <2>3. QED
    BY <2>1, <2>2
<1>6. CASE GotIp
  <2>1. NtpTypeOK' /\ RequestIsCarriedOn'
    <3>1. requestTime(TRUE, connectionTimer, timeoutTimer)
      BY <1>6 DEF GotIp
    <3>2. NtpTypeOK /\ connectionTimer \in BOOLEAN /\ timeoutTimer \in BOOLEAN
      BY DEF NetworkTypeOK, NtpTypeOK
    <3>3. QED
      BY <3>1, <3>2, RequestStep
  <2>2. NetworkTypeOK'
    BY <1>6, <2>1 DEF GotIp, softApDisable, NetworkTypeOK, settings, timers
  <2>3. NetworkPart'
    BY <1>6 DEF GotIp, softApDisable, settings, timers, NetworkTypeOK, ConnectedIsLinked,
       ApWhenDisconnected, NotifiedWhileConnected, StationIsStarted
  <2>4. QED
    BY <2>1, <2>2, <2>3
<1>7. CASE ApNotFound
  <2>1. LinkLost /\ NtpTypeOK' /\ RequestIsCarriedOn'
    BY <1>7, <1>0 DEF ApNotFound, LinkLost
  <2>2. numApNotFound' \in 0..(NotFoundLimit - 1)
    BY <1>7 DEF ApNotFound, NetworkTypeOK
  <2>3. station' \in {"off", "trying", "linked", "online", "leaving"} /\ reconnectTimer' \in BOOLEAN
    BY <1>7, Zenon DEF ApNotFound, NetworkTypeOK
  <2>4. softAp' \in BOOLEAN
    BY <2>1 DEF LinkLost, softApEnable, NetworkTypeOK
  <2>5. NetworkTypeOK'
    BY <2>1, <2>2, <2>3, <2>4, Zenon DEF LinkLost, NetworkTypeOK, settings
  <2>6. NetworkPart'
    BY <1>7 DEF ApNotFound, LinkLost, softApEnable, settings, NetworkTypeOK, ConnectedIsLinked,
       ApWhenDisconnected, NotifiedWhileConnected, StationIsStarted
  <2>7. QED
    BY <2>1, <2>5, <2>6
<1>8. CASE Disconnected
  <2>1. LinkLost /\ NtpTypeOK' /\ RequestIsCarriedOn'
    BY <1>8, <1>0 DEF Disconnected, LinkLost
  <2>2. numApNotFound' \in 0..(NotFoundLimit - 1)
    BY <1>8 DEF Disconnected, NetworkTypeOK
  <2>3. station' \in {"off", "trying", "linked", "online", "leaving"} /\ reconnectTimer' \in BOOLEAN
    BY <1>8, Zenon DEF Disconnected, NetworkTypeOK
  <2>4. softAp' \in BOOLEAN
    BY <2>1 DEF LinkLost, softApEnable, NetworkTypeOK
  <2>5. NetworkTypeOK'
    BY <2>1, <2>2, <2>3, <2>4, Zenon DEF LinkLost, NetworkTypeOK, settings
  <2>6. NetworkPart'
    BY <1>8 DEF Disconnected, LinkLost, softApEnable, settings, NetworkTypeOK, ConnectedIsLinked,
       ApWhenDisconnected, NotifiedWhileConnected, StationIsStarted
  <2>7. QED
    BY <2>1, <2>5, <2>6
<1>9. CASE NtpNext(Online) /\ UNCHANGED <<settings, sdk, flags, timers>>
  <2>1. NtpTypeOK' /\ RequestIsCarriedOn'
    <3>1. NtpTypeOK /\ Online \in BOOLEAN
      BY DEF NetworkTypeOK, Online
    <3>2. QED
      BY <1>9, <3>1, NtpStep
  <2>2. NetworkTypeOK' /\ NetworkPart'
    BY <1>9, <2>1 DEF NetworkTypeOK, settings, sdk, flags, timers, ConnectedIsLinked,
       ApWhenDisconnected, NotifiedWhileConnected, StationIsStarted
  <2>3. QED
    BY <2>1, <2>2
<1>10. CASE UNCHANGED networkVars
  <2>1. NetworkTypeOK' /\ RequestIsCarriedOn'
    BY <1>10, <1>0 DEF networkVars, settings, sdk, flags, timers, NetworkTypeOK
  <2>2. NetworkPart'
    BY <1>10 DEF networkVars, settings, sdk, flags, timers, ConnectedIsLinked,
       ApWhenDisconnected, NotifiedWhileConnected, StationIsStarted
  <2>3. QED
    BY <2>1, <2>2
<1>11. QED
  BY <1>1, <1>2, <1>3, <1>4, <1>5, <1>6, <1>7, <1>8, <1>9, <1>10 DEF NetworkNext

(* So they are, in every reachable state.                                   *)
LEMMA NetworkInvariant == NetworkSpec => []NetworkInv
<1>1. QED
  BY NetworkInitially, NetworkStep, PTL DEF NetworkSpec

(* While the station is not connected the access point is on, unless it is  *)
(* switched off for good.                                                   *)
THEOREM AccessPointWhenDisconnected == NetworkSpec => []ApWhenDisconnected
<1>1. NetworkInv => ApWhenDisconnected
  BY DEF NetworkInv
<1>2. QED
  BY <1>1, NetworkInvariant, PTL

(* wifiCb is never left believing in a connection that is gone. *)
THEOREM NoStaleNotification == NetworkSpec => []NotifiedWhileConnected
<1>1. NetworkInv => NotifiedWhileConnected
  BY DEF NetworkInv
<1>2. QED
  BY <1>1, NetworkInvariant, PTL

(* A station that is stopped has its reconnectTimer running, whatever the   *)
(* number of failures after which it is stopped.                            *)
THEOREM StoppedStationRestarts == NetworkSpec => []StationIsStarted
<1>1. NetworkInv => StationIsStarted
  BY DEF NetworkInv
<1>2. QED
  BY <1>1, NetworkInvariant, PTL

(* No order of timers, lookups, packets and disconnections drops a request   *)
(* for the time that has not failed.                                        *)
THEOREM RequestsAreCarriedOn == NetworkSpec => []RequestIsCarriedOn
<1>1. NetworkInv => RequestIsCarriedOn
  BY DEF NetworkInv
<1>2. QED
  BY <1>1, NetworkInvariant, PTL

-------------------------------------------------------------------------------
(* The update of the gateway (Ota).                                         *)

LEMMA SlotsAreTwo == \A s \in Slots : 1 - s \in Slots /\ 1 - s # s
BY DEF Slots

LEMMA LoadedTyped ==
  ASSUME NEW file \in Settings \cup {NoSettings, CutShort}, NEW ram \in Settings
  PROVE  Loaded(file, ram) \in Settings
BY OtaAssumption DEF Loaded

LEMMA BootTyped ==
  ASSUME NEW slot \in Slots, NEW files \in [Slots -> Settings \cup {NoSettings, CutShort}],
         boot(slot, files)
  PROVE  /\ current' \in Slots /\ saved' \in [Slots -> Settings \cup {NoSettings, CutShort}]
         /\ AppSettings' \in Settings /\ otaBaseUrl' \in Builds
         /\ otaStartTimer' \in BOOLEAN
         /\ otaUpdater' \in [item : {"none", "rom", "fs"}, url : Builds]
         /\ numOtaTrials' \in Nat /\ attempts' \in Nat
         /\ firmwareState' \in {"systemReady", "downloadStarted", "downloadFailed"}
<1>1. files[slot] \in Settings \cup {NoSettings, CutShort}
  OBVIOUS
<1>2. AppSettings' \in Settings
  BY <1>1, LoadedTyped, OtaAssumption DEF boot
<1>3. otaStartTimer' \in BOOLEAN
  BY Zenon DEF boot
<1>4. QED
  BY <1>2, <1>3, OtaAssumption DEF boot, Idle

LEMMA OtaTypedInitially == OtaInit => OtaTypeOK
<1> SUFFICES ASSUME OtaInit PROVE OtaTypeOK
  OBVIOUS
<1>1. rom \in [Slots -> Builds \cup {Partial}] /\ fs \in [Slots -> Builds \cup {Partial}]
  BY OtaAssumption DEF OtaInit
<1>2. saved \in [Slots -> Settings \cup {NoSettings, CutShort}]
  BY DEF OtaInit
<1>3. 0 \in 0..MaxRequests
  BY OtaAssumption
<1>4. QED
  BY <1>1, <1>2, <1>3, OtaAssumption DEF OtaInit, OtaTypeOK, Slots, Idle

(* Starts, saves and downloads keep all values in their types.              *)
LEMMA OtaTypedStep == OtaTypeOK /\ [OtaNext]_otaVars => OtaTypeOK'
<1> SUFFICES ASSUME OtaTypeOK, [OtaNext]_otaVars PROVE OtaTypeOK'
  OBVIOUS
<1>target. Target \in Slots /\ Target # current
  BY SlotsAreTwo DEF OtaTypeOK, Target, Other
<1>loaded. Loaded(saved[current], AppSettings) \in Settings
  BY LoadedTyped DEF OtaTypeOK
<1> HIDE DEF Target
<1>1. ASSUME NEW chosen \in Settings, SaveSettings(chosen) PROVE OtaTypeOK'
  BY <1>1 DEF SaveSettings, OtaTypeOK, trial
<1>2. ASSUME NEW url \in Builds, RequestUpdate(url) PROVE OtaTypeOK'
  <2>1. saved' \in [Slots -> Settings \cup {NoSettings, CutShort}] /\ AppSettings' \in Settings
    BY <1>2, <1>loaded DEF RequestUpdate, onMaintenance, OtaTypeOK
  <2>2. requests' \in 0..MaxRequests /\ numOtaTrials' \in Nat /\ attempts' \in Nat
    BY <1>2, OtaAssumption DEF RequestUpdate, onMaintenance, StartOtaUpdate, OtaTypeOK
  <2>3. otaStartTimer' \in BOOLEAN
    BY <1>2, Zenon DEF RequestUpdate, onMaintenance, StartOtaUpdate
  <2>4. QED
    BY <1>2, <2>1, <2>2, <2>3 DEF RequestUpdate, onMaintenance, StartOtaUpdate, OtaTypeOK
<1>3. CASE otaUpdateHandler
  <2>1. otaStartTimer' \in BOOLEAN
    BY <1>3, Zenon DEF otaUpdateHandler
  <2>2. QED
    BY <1>3, <2>1 DEF otaUpdateHandler, OtaTypeOK, flash
<1>4. CASE WriteBlock
  BY <1>4, <1>target DEF WriteBlock, OtaTypeOK, trial
<1>5. CASE RomDownloaded
  BY <1>5, <1>target DEF RomDownloaded, OtaTypeOK, trial
<1>6. ASSUME NEW entry \in Settings \cup {NoSettings, CutShort},
             fs' = [fs EXCEPT ![Target] = otaUpdater.url],
             UNCHANGED <<rom, requests>>,
             \/ boot(Target, [saved EXCEPT ![Target] = entry])
             \/ boot(current, [saved EXCEPT ![Target] = entry])
      PROVE  OtaTypeOK'
  <2>1. [saved EXCEPT ![Target] = entry] \in [Slots -> Settings \cup {NoSettings, CutShort}]
    BY <1>6, <1>target DEF OtaTypeOK
  <2>2. fs' \in [Slots -> Builds \cup {Partial}] /\ current \in Slots
    BY <1>6, <1>target DEF OtaTypeOK
  <2>3. QED
    BY <1>6, <1>target, <2>1, <2>2, BootTyped DEF OtaTypeOK
<1>7. CASE Downloaded
  BY <1>6, <1>7, <1>loaded DEF Downloaded
<1>8. CASE DownloadFails
  <2>1. numOtaTrials' \in Nat
    BY <1>8 DEF DownloadFails, StartOtaUpdate, OtaTypeOK
  <2>2. otaStartTimer' \in BOOLEAN
    BY <1>8, Zenon DEF DownloadFails, StartOtaUpdate, OtaTypeOK
  <2>3. firmwareState' \in {"systemReady", "downloadStarted", "downloadFailed"}
    BY <1>8 DEF DownloadFails, StartOtaUpdate
  <2>4. QED
    BY <1>8, <2>1, <2>2, <2>3, OtaAssumption DEF DownloadFails, OtaTypeOK, flash, Idle
<1>9. CASE OtaRestart
  BY <1>9, BootTyped DEF OtaRestart, OtaTypeOK
<1>10. CASE PowerLossInSave
  <2>1. CASE boot(current, [saved EXCEPT ![current] = CutShort]) /\ UNCHANGED fs
    <3>1. [saved EXCEPT ![current] = CutShort] \in [Slots -> Settings \cup {NoSettings, CutShort}]
      BY DEF OtaTypeOK
    <3>2. QED
      BY <1>10, <2>1, <3>1, BootTyped DEF PowerLossInSave, OtaTypeOK
  <2>2. CASE /\ fs' = [fs EXCEPT ![Target] = otaUpdater.url]
             /\ boot(current, [saved EXCEPT ![Target] = CutShort])
    BY <1>6, <1>10, <2>2 DEF PowerLossInSave
  <2>3. QED
    BY <1>10, <2>1, <2>2 DEF PowerLossInSave
<1>11. CASE UNCHANGED otaVars
  BY <1>11 DEF otaVars, OtaTypeOK, flash, trial
<1>12. QED
  BY <1>1, <1>2, <1>3, <1>4, <1>5, <1>7, <1>8, <1>9, <1>10, <1>11 DEF OtaNext

(* Every reachable state is well typed.                                     *)
THEOREM OtaTyped == OtaSpec => []OtaTypeOK
<1>1. QED
  BY OtaTypedInitially, OtaTypedStep, PTL DEF OtaSpec

-------------------------------------------------------------------------------
(* What is needed besides: the first item of a running updater, once it is  *)
(* done, is the ROM of its URL, and RAM and file agree about the settings.  *)
OtaInv ==
  /\ BootsCompleteBuild
  /\ otaUpdater.item = "fs" => rom[Target] = otaUpdater.url
  /\ AppSettings = Loaded(saved[current], Defaults)

LEMMA OtaInitially == OtaInit => OtaInv
BY OtaAssumption DEF OtaInit, OtaInv, BootsCompleteBuild, Slots, Idle, Loaded

(* What the updater writes goes to the slot that does not run.              *)
LEMMA OtaStep == OtaTypeOK /\ OtaInv /\ [OtaNext]_otaVars => OtaInv'
<1> SUFFICES ASSUME OtaTypeOK, OtaInv, [OtaNext]_otaVars PROVE OtaInv'
  OBVIOUS
<1>target. Target \in Slots /\ current \in Slots /\ Target # current
  BY SlotsAreTwo DEF OtaTypeOK, Target, Other
<1>same. current' = current => Target' = Target
  BY DEF Target, Other
<1> USE DEF OtaInv, BootsCompleteBuild
<1>1. ASSUME NEW chosen \in Settings, SaveSettings(chosen) PROVE OtaInv'
  BY <1>1, <1>same, <1>target, OtaAssumption DEF SaveSettings, Loaded, OtaTypeOK
<1>2. ASSUME NEW url \in Builds, RequestUpdate(url) PROVE OtaInv'
  <2>1. AppSettings' = AppSettings
    BY <1>2 DEF RequestUpdate, onMaintenance, Loaded
  <2>2. saved'[current] = saved[current] \/ saved'[current] = AppSettings
    BY <1>2, <1>target, <2>1 DEF RequestUpdate, onMaintenance, OtaTypeOK
  <2>3. AppSettings' = Loaded(saved'[current], Defaults)
    <3>1. AppSettings \notin {NoSettings, CutShort}
      BY OtaAssumption DEF OtaTypeOK
    <3>2. Loaded(AppSettings, Defaults) = AppSettings
      BY <3>1 DEF Loaded
    <3>3. QED
      BY <2>1, <2>2, <3>2
  <2>4. QED
    BY <1>2, <1>same, <2>3 DEF RequestUpdate, onMaintenance
<1>3. CASE otaUpdateHandler
  BY <1>3, <1>same DEF otaUpdateHandler, flash
<1>4. CASE WriteBlock
  <2>1. UNCHANGED <<current, AppSettings, otaUpdater>>
        /\ rom'[current] = rom[current] /\ fs'[current] = fs[current]
        /\ saved'[current] = saved[current]
    BY <1>4, <1>target DEF WriteBlock, OtaTypeOK
  <2>2. otaUpdater.item = "fs" => rom' = rom
    BY <1>4 DEF WriteBlock
  <2>3. QED
    BY <1>same, <2>1, <2>2 DEF Loaded
<1>5. CASE RomDownloaded
  BY <1>5, <1>same, <1>target DEF RomDownloaded, OtaTypeOK
<1>6. CASE Downloaded
  <2> DEFINE files == [saved EXCEPT ![Target] = Loaded(saved[current], AppSettings)]
  <2>1. fs'[Target] = otaUpdater.url /\ fs'[current] = fs[current] /\ rom' = rom
    BY <1>6, <1>target DEF Downloaded, OtaTypeOK
  <2>2. rom[Target] = otaUpdater.url /\ otaUpdater.url # Partial
    BY <1>6, OtaAssumption DEF Downloaded, OtaTypeOK
  <2>3. boot(Target, files) \/ boot(current, files)
    BY <1>6 DEF Downloaded
  <2>4. ASSUME NEW slot \in {Target, current}, boot(slot, files) PROVE OtaInv'
    <3>1. rom'[slot] = fs'[slot] /\ rom'[slot] # Partial
      BY <2>1, <2>2
    <3>2. current' = slot /\ AppSettings' = Loaded(saved'[current'], Defaults)
      BY <2>4 DEF boot
    <3>3. otaUpdater'.item = "none"
      BY <2>4 DEF boot, Idle
    <3>4. QED
      BY <3>1, <3>2, <3>3
  <2>5. QED
    BY <2>3, <2>4
<1>7. CASE DownloadFails
  BY <1>7, <1>same DEF DownloadFails, flash, Idle
<1>8. CASE OtaRestart
  BY <1>8 DEF OtaRestart, boot, Idle
<1>9. CASE PowerLossInSave
  <2>1. fs'[current] = fs[current] /\ rom' = rom
    BY <1>9, <1>target DEF PowerLossInSave, OtaTypeOK
  <2>2. \E files : boot(current, files)
    BY <1>9 DEF PowerLossInSave
  <2>3. QED
    BY <2>1, <2>2 DEF boot, Idle
<1>10. CASE UNCHANGED otaVars
  BY <1>10, <1>same DEF otaVars, flash, Loaded
<1>11. QED
  BY <1>1, <1>2, <1>3, <1>4, <1>5, <1>6, <1>7, <1>8, <1>9, <1>10 DEF OtaNext

LEMMA OtaInvariant == OtaSpec => []OtaInv
<1>1. QED
  BY OtaInitially, OtaStep, OtaTyped, PTL DEF OtaSpec

(* The gateway never starts a ROM or a file system that is incomplete or    *)
(* that do not belong together.                                             *)
THEOREM CompleteBuildBoots == OtaSpec => []BootsCompleteBuild
<1>1. OtaInv => BootsCompleteBuild
  BY DEF OtaInv
<1>2. QED
  BY <1>1, OtaInvariant, PTL

(* An update keeps the settings.                                            *)
THEOREM SettingsSurvive == OtaSpec => SettingsSurviveUpdate
<1>1. OtaTypeOK /\ OtaInv /\ [OtaNext]_otaVars =>
        [current' # current => AppSettings' = AppSettings]_otaVars
  <2> SUFFICES ASSUME OtaTypeOK, OtaInv, OtaNext, current' # current
               PROVE  AppSettings' = AppSettings
    OBVIOUS
  <2>1. Downloaded
    BY DEF OtaNext, SaveSettings, RequestUpdate, onMaintenance, otaUpdateHandler, flash, WriteBlock,
           RomDownloaded, DownloadFails, OtaRestart, PowerLossInSave, boot
  <2> DEFINE files == [saved EXCEPT ![Target] = Loaded(saved[current], AppSettings)]
  <2>2. Target \in Slots
    BY SlotsAreTwo DEF OtaTypeOK, Target, Other
  <2>3. boot(Target, files) /\ files[Target] = AppSettings
    <3>1. Loaded(saved[current], AppSettings) = AppSettings
      BY DEF OtaInv, Loaded
    <3>2. files[Target] = AppSettings
      BY <2>2, <3>1 DEF OtaTypeOK
    <3>3. boot(Target, files)
      BY <2>1 DEF Downloaded, boot
    <3>4. QED
      BY <3>2, <3>3
  <2>4. AppSettings \notin {NoSettings, CutShort}
    BY OtaAssumption DEF OtaTypeOK
  <2>5. QED
    BY <2>3, <2>4 DEF boot, Loaded
<1>2. QED
  BY <1>1, OtaTyped, OtaInvariant, PTL DEF OtaSpec, SettingsSurviveUpdate

-------------------------------------------------------------------------------
(* Trials are counted from the request on: a timer or a running download    *)
(* still has its trial to count, and a request that comes while a download  *)
(* runs has not been tried at all.                                          *)
TrialsInv ==
  /\ otaStartTimer /\ otaUpdater.item # "none" => attempts = 0
  /\ otaStartTimer => attempts <= numOtaTrials /\ attempts <= MaxTrials
  /\ otaUpdater.item # "none" => attempts <= numOtaTrials + 1
  /\ attempts <= MaxTrials + 1

(* A download that keeps failing is given up.                               *)
THEOREM DownloadsAreGivenUp == OtaSpec => []AttemptsBounded
<1>1. OtaInit => TrialsInv
  BY OtaAssumption DEF OtaInit, TrialsInv, Idle
<1>2. OtaTypeOK /\ TrialsInv /\ [OtaNext]_otaVars => TrialsInv'
  <2> SUFFICES ASSUME OtaTypeOK, TrialsInv, [OtaNext]_otaVars PROVE TrialsInv'
    OBVIOUS
  <2> USE DEF TrialsInv
  <2>0. MaxTrials \in Nat /\ numOtaTrials \in Nat /\ attempts \in Nat
    BY OtaAssumption DEF OtaTypeOK
  <2>1. ASSUME NEW chosen \in Settings, SaveSettings(chosen) PROVE TrialsInv'
    BY <2>1 DEF SaveSettings, trial
  <2>2. ASSUME NEW url \in Builds, RequestUpdate(url) PROVE TrialsInv'
    BY <2>0, <2>2 DEF RequestUpdate, onMaintenance, StartOtaUpdate
  <2>3. CASE otaUpdateHandler
    BY <2>0, <2>3 DEF otaUpdateHandler
  <2>4. CASE WriteBlock
    BY <2>4 DEF WriteBlock, trial
  <2>5. CASE RomDownloaded
    <3>1. otaUpdater'.item # "none" /\ otaUpdater.item # "none"
      BY <2>5 DEF RomDownloaded, OtaTypeOK
    <3>2. QED
      BY <2>5, <3>1 DEF RomDownloaded, trial
  <2>6. CASE DownloadFails
    BY <2>0, <2>6 DEF DownloadFails, StartOtaUpdate, Idle
  <2>7. ASSUME NEW slot, NEW files, boot(slot, files) PROVE TrialsInv'
    BY <2>0, <2>7 DEF boot, Idle
  <2>8. CASE Downloaded \/ OtaRestart \/ PowerLossInSave
    BY <2>7, <2>8 DEF Downloaded, OtaRestart, PowerLossInSave
  <2>9. CASE UNCHANGED otaVars
    BY <2>9 DEF otaVars, trial
  <2>10. QED
    BY <2>1, <2>2, <2>3, <2>4, <2>5, <2>6, <2>8, <2>9 DEF OtaNext
<1>3. TrialsInv => AttemptsBounded
  BY DEF TrialsInv, AttemptsBounded
<1>4. QED
  BY <1>1, <1>2, <1>3, OtaTyped, PTL DEF OtaSpec

(* Web clients are not left without news by a download that is not there.   *)
THEOREM NoNewsOnlyWhileBusy == OtaSpec => []StartedMeansBusy
<1>1. OtaInit => StartedMeansBusy
  BY DEF OtaInit, StartedMeansBusy
<1>2. OtaTypeOK /\ StartedMeansBusy /\ [OtaNext]_otaVars => StartedMeansBusy'
  <2> SUFFICES ASSUME OtaTypeOK, StartedMeansBusy, [OtaNext]_otaVars PROVE StartedMeansBusy'
    OBVIOUS
  <2> USE DEF StartedMeansBusy
  <2>1. CASE RomDownloaded
    <3>1. otaUpdater'.item # "none"
      BY <2>1 DEF RomDownloaded, OtaTypeOK
    <3>2. QED
      BY <3>1
  <2>2. CASE \/ \E chosen \in Settings : SaveSettings(chosen)
             \/ \E url \in Builds : RequestUpdate(url)
             \/ otaUpdateHandler \/ WriteBlock \/ DownloadFails \/ UNCHANGED otaVars
    BY <2>2 DEF SaveSettings, RequestUpdate, onMaintenance, StartOtaUpdate, otaUpdateHandler, WriteBlock,
                DownloadFails, otaVars, trial
  <2>3. CASE Downloaded \/ OtaRestart \/ PowerLossInSave
    BY <2>3 DEF Downloaded, OtaRestart, PowerLossInSave, boot
  <2>4. QED
    BY <2>1, <2>2, <2>3 DEF OtaNext
<1>3. QED
  BY <1>1, <1>2, OtaTyped, PTL DEF OtaSpec

-------------------------------------------------------------------------------
(* The driver of the crypto chip (Atsha204).                                *)

ChipSteps == {"rev", "serial", "status", "dump", "config", "dumpNew", "lock", "statusNew",
              "key", "complete", "halt"}
ChipAnswers == {NoAnswer, "success", "exec", "comm"}

ChipValues ==
  /\ chip \in [present : BOOLEAN, set : SUBSET Written, locked : BOOLEAN, key : BOOLEAN,
               answer : ChipAnswers]
  /\ step \in ChipSteps /\ word \in Nat /\ crc \in Nat /\ lockConfig \in {0, UNLOCKED}
  /\ call \in [at : {"send", "receive"}, n_retries_send : Nat, n_retries_receive : Nat,
               done : BOOLEAN]
  /\ faults \in Nat /\ clean \in BOOLEAN /\ deceived \in BOOLEAN

(* Where the loops of retries are.                                          *)
CallBounds ==
  /\ word \in 1..(IF Words > 3 THEN Words ELSE 3)
  /\ step \in {"dump", "config", "dumpNew"} => word <= Words
  /\ call.n_retries_send \in 0..SHA204_RETRY_COUNT + 1
  /\ call.at = "send" => call.n_retries_send > 0
  /\ call.at = "receive" => call.n_retries_send <= SHA204_RETRY_COUNT

(* An answer of success is the answer to the command of this call.          *)
AnswersAreTrue ==
  /\ call.at = "receive" /\ chip.answer = "success" => call.done
  /\ SuccessMeansDone

(* personalize has what it believes from the chip, and done what it has     *)
(* come past, as long as nothing goes wrong.                                *)
Untouched == step \in {"rev", "serial", "status", "dump"} => crc = 0
Reported ==
  /\ call.at = "receive" => chip.answer = "success"
  /\ step \in {"dump", "config", "dumpNew"} => lockConfig = StatusRead
  /\ step = "lock" => lockConfig = UNLOCKED
Configured ==
  /\ step = "config" =>
       /\ ~chip.locked /\ crc = word - 1
       /\ \A w \in Written : w < word => w \in chip.set
       /\ call.at = "receive" /\ word \in Written => word \in chip.set
  /\ step \in {"dumpNew", "lock"} /\ ~chip.locked => crc = Words /\ chip.set = Written
Finished ==
  /\ step = "lock" => (chip.locked <=> call.at = "receive")
  /\ step \in {"statusNew", "key", "complete"} => chip.locked
  /\ step = "key" /\ call.at = "receive" => chip.key
  /\ step = "complete" => chip.key
  /\ step # "halt"

ChipInv ==
  /\ ChipValues /\ CallBounds /\ AnswersAreTrue /\ LockedAsWanted /\ Untouched
  /\ clean /\ chip.present => Reported /\ Configured /\ Finished

(* What personalize does after a call keeps all of this, if the call told    *)
(* the truth and, in a start without faults, came back with success.        *)
LEMMA ReturnsStep ==
  ASSUME ChipInv, NEW ret, Returns(ret), UNCHANGED chip, faults' \in Nat,
         ret = "success" => call.done, clean' \in BOOLEAN,
         clean' /\ chip.present => clean /\ ret = "success" /\ call.at = "receive"
  PROVE  ChipInv'
<1> USE AtshaAssumption DEF ChipInv, UNLOCKED, StatusRead, Goto
<1>1. ChipValues' /\ CallBounds'
  <2>1. call' = NewCall /\ deceived' \in BOOLEAN /\ ~deceived'
    BY DEF Returns, ChipValues, AnswersAreTrue, SuccessMeansDone
  <2>2. call' \in [at : {"send", "receive"}, n_retries_send : Nat, n_retries_receive : Nat,
                  done : BOOLEAN] /\ call'.at = "send" /\ call'.n_retries_send = SHA204_RETRY_COUNT + 1
    BY <2>1 DEF NewCall
  <2>3. /\ step' \in ChipSteps /\ crc' \in Nat /\ lockConfig' \in {0, UNLOCKED}
        /\ word' \in 1..(IF Words > 3 THEN Words ELSE 3)
        /\ step' \in {"dump", "config", "dumpNew"} => word' <= Words
    BY DEF Returns, RevReturns, SerialReturns, StatusReturns, DumpReturns, ConfigReturns,
       calculateAndUpdateCrc, DumpNewReturns, LockReturns, StatusNewReturns, KeyReturns,
       ChipValues, CallBounds, ChipSteps
  <2>4. QED
    BY <2>1, <2>2, <2>3 DEF ChipValues, CallBounds
<1>2. AnswersAreTrue' /\ LockedAsWanted'
  <2>1. call'.at = "send" /\ ~deceived'
    BY DEF Returns, AnswersAreTrue, SuccessMeansDone, NewCall
  <2>2. QED
    BY <2>1 DEF AnswersAreTrue, SuccessMeansDone, LockedAsWanted
<1>3. Untouched'
  BY DEF Returns, RevReturns, SerialReturns, StatusReturns, DumpReturns, ConfigReturns,
     DumpNewReturns, LockReturns, StatusNewReturns, KeyReturns, Untouched
<1>4. ASSUME clean', chip'.present PROVE Reported' /\ Configured' /\ Finished'
  <2>1. /\ Reported /\ Configured /\ Finished /\ ret = "success" /\ call.at = "receive"
        /\ call'.at = "send"
    <3>1. clean /\ ret = "success" /\ call.at = "receive" /\ chip.present
      BY <1>4
    <3>2. Reported /\ Configured /\ Finished
      BY <3>1
    <3>3. call'.at = "send"
      BY DEF Returns, NewCall
    <3>4. QED
      BY <3>1, <3>2, <3>3
  <2>2. Reported'
    BY <2>1 DEF Returns, RevReturns, SerialReturns, StatusReturns, DumpReturns, ConfigReturns,
     DumpNewReturns, LockReturns, StatusNewReturns, KeyReturns, Reported, ChipValues, Finished
  <2>3. Configured'
    <3>1. CASE step = "dump"
      <4>1. DumpReturns(TRUE) /\ crc = 0
        BY <2>1, <3>1 DEF Returns, Untouched
      <4>2. QED
        BY <2>1, <3>1, <4>1 DEF DumpReturns, Reported, Configured, ChipValues, CallBounds
    <3>2. CASE step = "config"
      <4>1. ConfigReturns(TRUE) /\ crc \in Nat /\ word \in Nat /\ word <= Words
        BY <2>1, <3>2 DEF Returns, ChipValues, CallBounds
      <4>2. /\ ~chip.locked /\ crc = word - 1 /\ crc' = word
            /\ \A w \in Written : w <= word => w \in chip.set
        <5>1. /\ ~chip.locked /\ crc = word - 1 /\ \A w \in Written : w < word => w \in chip.set
              /\ word \in Written => word \in chip.set
          BY <2>1, <3>2 DEF Configured
        <5>2. crc' = crc + 1
          BY <4>1 DEF ConfigReturns, calculateAndUpdateCrc
        <5>3. ASSUME NEW w \in Written, w <= word PROVE w \in chip.set
          BY <4>1, <5>1, <5>3
        <5>4. QED
          BY <4>1, <5>1, <5>2, <5>3
      <4>3. CASE word < Words
        <5>1. step' = "config" /\ word' = word + 1
          BY <4>1, <4>3 DEF ConfigReturns
        <5>2. QED
          BY <2>1, <4>1, <4>2, <5>1 DEF Configured
      <4>4. CASE word = Words
        <5>1. step' = "dumpNew"
          BY <4>1, <4>4 DEF ConfigReturns
        <5>2. chip.set = Written
          <6>1. chip.set \subseteq Written
            BY DEF ChipValues
          <6>2. \A w \in Written : w <= word
            BY <4>4
          <6>3. QED
            BY <4>2, <6>1, <6>2
        <5>3. QED
          BY <4>2, <4>4, <5>1, <5>2 DEF Configured
      <4>5. QED
        BY <4>1, <4>3, <4>4
    <3>3. CASE step \notin {"config", "dump"}
      BY <2>1, <3>3 DEF Returns, RevReturns, SerialReturns, StatusReturns,
         DumpNewReturns, LockReturns, StatusNewReturns, KeyReturns, Reported,
         Configured, ChipValues, Finished
    <3>4. QED
      BY <3>1, <3>2, <3>3
  <2>4. Finished'
    BY <2>1 DEF Returns, RevReturns, SerialReturns, StatusReturns, DumpReturns, ConfigReturns,
       DumpNewReturns, LockReturns, StatusNewReturns, KeyReturns, Reported, Configured,
       Finished, ChipValues
  <2>5. QED
    BY <2>2, <2>3, <2>4
<1>5. QED
  BY <1>1, <1>2, <1>3, <1>4

(* Another pass of the outer loop, or the end of the call.                  *)
LEMMA NextPassStep ==
  ASSUME ChipInv, NEW left \in 0..SHA204_RETRY_COUNT + 1, NEW ret, NextPass(left, ret), ret # "success",
         UNCHANGED chip, faults' \in Nat, clean' \in BOOLEAN, ~(clean' /\ chip.present)
  PROVE  ChipInv'
<1> USE AtshaAssumption
<1>1. CASE left > 0
  <2>1. /\ Stays /\ call'.n_retries_send = left /\ call'.at = "send"
        /\ call' \in [at : {"send", "receive"}, n_retries_send : Nat, n_retries_receive : Nat,
                      done : BOOLEAN]
    <3>1. left \in Nat /\ call' = [call EXCEPT !.at = "send", !.n_retries_send = left] /\ Stays
      BY <1>1 DEF NextPass
    <3>2. call \in [at : {"send", "receive"}, n_retries_send : Nat, n_retries_receive : Nat,
                   done : BOOLEAN]
      BY DEF ChipInv, ChipValues
    <3>3. QED
      BY <3>1, <3>2
  <2>2. QED
    BY <1>1, <2>1 DEF Stays, ChipInv, ChipValues, CallBounds, AnswersAreTrue, SuccessMeansDone,
       LockedAsWanted, Untouched
<1>2. CASE ~(left > 0)
  <2>1. Returns(ret)
    BY <1>2 DEF NextPass
  <2>2. QED
    BY <2>1, ReturnsStep
<1>3. QED
  BY <1>1, <1>2

(* Another pass of the inner loop, or of the outer one.                     *)
LEMMA ReceiveAgainStep ==
  ASSUME ChipInv, call.at = "receive", NEW ret, ReceiveAgain(ret), ret # "success",
         UNCHANGED chip, faults' \in Nat, clean' = FALSE
  PROVE  ChipInv'
<1> USE AtshaAssumption
<1>1. CASE call.n_retries_receive > 1
  <2>1. /\ Stays /\ call'.n_retries_send = call.n_retries_send /\ call'.at = "receive"
        /\ call'.done = call.done
        /\ call' \in [at : {"send", "receive"}, n_retries_send : Nat, n_retries_receive : Nat,
                      done : BOOLEAN]
    BY <1>1 DEF ReceiveAgain, ChipInv, ChipValues
  <2>2. QED
    BY <2>1 DEF Stays, ChipInv, ChipValues, CallBounds, AnswersAreTrue, SuccessMeansDone,
       LockedAsWanted, Untouched
<1>2. CASE ~(call.n_retries_receive > 1)
  <2>1. NextPass(call.n_retries_send, ret) /\ call.n_retries_send \in 0..SHA204_RETRY_COUNT + 1
    BY <1>2 DEF ReceiveAgain, ChipInv, CallBounds
  <2>2. QED
    BY <2>1, NextPassStep
<1>3. QED
  BY <1>1, <1>2

(* No answer: the pass is given back.                                       *)
LEMMA NoResponseStep ==
  ASSUME ChipInv, call.at = "receive", NoResponse, UNCHANGED chip, faults' \in Nat,
         clean' \in BOOLEAN, clean' => clean /\ chip.answer = NoAnswer
  PROVE  ChipInv'
<1> USE AtshaAssumption DEF ChipInv
<1>1. /\ Stays /\ call'.n_retries_send = call.n_retries_send + 1 /\ call'.at = "send"
      /\ call' \in [at : {"send", "receive"}, n_retries_send : Nat, n_retries_receive : Nat,
                    done : BOOLEAN]
  <2>1. call \in [at : {"send", "receive"}, n_retries_send : Nat, n_retries_receive : Nat,
                 done : BOOLEAN]
    BY DEF ChipValues
  <2>2. call' = [call EXCEPT !.at = "send", !.n_retries_send = call.n_retries_send + 1] /\ Stays
    BY DEF NoResponse
  <2>3. call.n_retries_send + 1 \in Nat
    BY <2>1
  <2>4. QED
    BY <2>1, <2>2, <2>3
<1>2. ChipValues' /\ CallBounds' /\ AnswersAreTrue' /\ LockedAsWanted' /\ Untouched'
  BY <1>1 DEF Stays, ChipValues, CallBounds, AnswersAreTrue, SuccessMeansDone,
     LockedAsWanted, Untouched
<1>3. clean' /\ chip'.present => FALSE
  BY DEF Reported, NoAnswer
<1>4. QED
  BY <1>2, <1>3

(* Whatever the bus makes of an answer.                                     *)
LEMMA PollStep == ChipInv /\ Poll => ChipInv'
<1> SUFFICES ASSUME ChipInv, Poll PROVE ChipInv'
  OBVIOUS
<1>1. UNCHANGED chip /\ call.at = "receive" /\ call.n_retries_send \in 0..SHA204_RETRY_COUNT + 1
  BY DEF Poll, ChipInv, CallBounds
<1>2. /\ faults \in Nat /\ chip.answer \in ChipAnswers /\ clean \in BOOLEAN
      /\ GoesWrong => faults' \in Nat /\ clean' = FALSE
      /\ GoesWell => faults' \in Nat /\ clean' = clean
  BY DEF ChipInv, ChipValues, GoesWrong, GoesWell
<1>3. CASE chip.answer = NoAnswer /\ GoesWell /\ NoResponse
  BY <1>1, <1>2, <1>3, NoResponseStep
<1>4. CASE GoesWrong /\ (NoResponse \/ ReceiveAgain("INVALID_SIZE") \/ Examine("broken"))
  <2>1. Examine("broken") => ReceiveAgain("BAD_CRC")
    BY DEF Examine, sha204c_check_crc
  <2>2. ReceiveAgain("INVALID_SIZE") \/ ReceiveAgain("BAD_CRC") => ChipInv'
    BY <1>1, <1>2, <1>4, ReceiveAgainStep
  <2>3. NoResponse => ChipInv'
    BY <1>1, <1>2, <1>4, NoResponseStep
  <2>4. QED
    BY <1>4, <2>1, <2>2, <2>3
<1>5. CASE chip.answer # NoAnswer /\ GoesWell /\ Examine(chip.answer)
  <2>1. CASE chip.answer = "success"
    <3>1. Returns("success")
      BY <1>5, <2>1 DEF Examine, sha204c_check_crc
    <3>2. call.done
      BY <1>1, <2>1 DEF ChipInv, AnswersAreTrue
    <3>3. QED
      BY <1>1, <1>2, <1>5, <3>1, <3>2, ReturnsStep
  <2>2. CASE chip.answer # "success"
    <3>1. ~(clean /\ chip.present)
      BY <1>1, <2>2 DEF ChipInv, Reported
    <3>2. NextPass(call.n_retries_send, "STATUS_CRC") => ChipInv'
      BY <1>1, <1>2, <1>5, <3>1, NextPassStep
    <3>3. Returns("CMD_FAIL") => ChipInv'
      BY <1>1, <1>2, <1>5, <3>1, ReturnsStep
    <3>4. QED
      BY <1>2, <1>5, <2>2, <3>2, <3>3 DEF Examine, sha204c_check_crc, ChipAnswers
  <2>3. QED
    BY <2>1, <2>2
<1>6. QED
  BY <1>3, <1>4, <1>5 DEF Poll, sha204p_receive_response

(* What the chip makes of a command.                                        *)
LEMMA ExecutesKeeps ==
  ASSUME ChipValues, LockedAsWanted, NEW after, after = Executes(chip)
  PROVE  /\ after \in [present : BOOLEAN, set : SUBSET Written, locked : BOOLEAN, key : BOOLEAN,
                       answer : ChipAnswers]
         /\ after.answer \in {"success", "exec"} /\ after.present = chip.present
         /\ after.locked => after.set = Written
         /\ chip.locked => after.locked
<1> USE AtshaAssumption DEF ChipAnswers, Executes, Stores, ChipValues, LockedAsWanted
<1>1. CASE step = "config" /\ word \in Written
  BY <1>1
<1>2. CASE step = "lock"
  BY <1>2 DEF ChecksumFits
<1>3. CASE step = "key"
  BY <1>3
<1>4. CASE step \notin {"lock", "key"} /\ ~(step = "config" /\ word \in Written)
  BY <1>4
<1>5. QED
  BY <1>1, <1>2, <1>3, <1>4

(* A command that was sent, and the driver about to wait for its answer.    *)
LEMMA ReceivingStep ==
  ASSUME ChipInv, call.at = "send", NEW done \in BOOLEAN, Receiving(done), Stays,
         chip' \in [present : BOOLEAN, set : SUBSET Written, locked : BOOLEAN, key : BOOLEAN,
                   answer : ChipAnswers],
         chip'.answer = "success" => done, LockedAsWanted', faults' \in Nat, clean' \in BOOLEAN
  PROVE  /\ ChipValues' /\ CallBounds' /\ AnswersAreTrue' /\ Untouched'
         /\ call'.at = "receive"
<1> USE AtshaAssumption DEF ChipInv
<1>1. call \in [at : {"send", "receive"}, n_retries_send : Nat, n_retries_receive : Nat,
               done : BOOLEAN]
  BY DEF ChipInv, ChipValues
<1>2. call.n_retries_send - 1 \in 0..SHA204_RETRY_COUNT /\ SHA204_RETRY_COUNT + 1 \in Nat
  BY <1>1 DEF CallBounds
<1>3. call' = [call EXCEPT !.at = "receive", !.n_retries_send = call.n_retries_send - 1,
                           !.n_retries_receive = SHA204_RETRY_COUNT + 1, !.done = call.done \/ done]
  BY DEF Receiving
<1>4. /\ call'.at = "receive" /\ call'.n_retries_send = call.n_retries_send - 1
      /\ call'.done = (call.done \/ done)
      /\ call' \in [at : {"send", "receive"}, n_retries_send : Nat, n_retries_receive : Nat,
                    done : BOOLEAN]
  <2>1. call.n_retries_send - 1 \in Nat /\ (call.done \/ done) \in BOOLEAN
    BY <1>1, <1>2
  <2>2. QED
    BY <1>1, <1>2, <1>3, <2>1
<1>5. QED
  BY <1>2, <1>4 DEF Stays, ChipValues, CallBounds, AnswersAreTrue, SuccessMeansDone, Untouched

LEMMA SendStep == ChipInv /\ Send => ChipInv'
<1> SUFFICES ASSUME ChipInv, Send PROVE ChipInv'
  OBVIOUS
<1> USE AtshaAssumption
<1>1. /\ ChipValues /\ LockedAsWanted /\ call.at = "send"
      /\ chip \in [present : BOOLEAN, set : SUBSET Written, locked : BOOLEAN, key : BOOLEAN,
                   answer : ChipAnswers]
  BY DEF ChipInv, ChipValues, Send
<1>2. /\ faults \in Nat /\ clean \in BOOLEAN
      /\ GoesWrong => faults' \in Nat /\ clean' = FALSE
      /\ GoesWell => faults' \in Nat /\ clean' = clean
  BY DEF ChipInv, ChipValues, GoesWrong, GoesWell
<1>3. CASE /\ chip.present /\ GoesWell
           /\ chip' = Executes(chip) /\ Receiving(Executes(chip).answer = "success") /\ Stays
  <2>1. /\ chip' \in [present : BOOLEAN, set : SUBSET Written, locked : BOOLEAN, key : BOOLEAN,
                      answer : ChipAnswers]
        /\ LockedAsWanted' /\ chip'.present
    BY <1>1, <1>3, ExecutesKeeps DEF LockedAsWanted
  <2>2. ChipValues' /\ CallBounds' /\ AnswersAreTrue' /\ Untouched' /\ call'.at = "receive"
    BY <1>1, <1>2, <1>3, <2>1, ReceivingStep
  <2>3. ASSUME clean PROVE Reported' /\ Configured' /\ Finished'
    <3>1. Reported /\ Configured /\ Finished /\ UNCHANGED <<step, word, lockConfig, crc>>
      BY <1>3, <2>3 DEF ChipInv, Stays
    <3>2. chip' = Executes(chip)
      BY <1>3
    <3>3. CASE step = "config"
      BY <1>1, <2>1, <2>2, <3>1, <3>2, <3>3 DEF Reported, Configured, Finished, Executes, Stores,
         StatusRead
    <3>4. CASE step = "lock"
      BY <1>1, <2>1, <2>2, <3>1, <3>2, <3>4 DEF Reported, Configured, Finished, Executes, Stores,
         StatusRead, ChecksumFits
    <3>5. CASE step = "key"
      BY <1>1, <2>1, <2>2, <3>1, <3>2, <3>5 DEF Reported, Configured, Finished, Executes, Stores,
         StatusRead
    <3>6. CASE step \notin {"config", "lock", "key"}
      BY <1>1, <2>1, <2>2, <3>1, <3>2, <3>6 DEF Reported, Configured, Finished, Executes, Stores,
         StatusRead
    <3>7. QED
      BY <3>3, <3>4, <3>5, <3>6
  <2>4. QED
    BY <1>2, <1>3, <2>1, <2>2, <2>3 DEF ChipInv
<1>4. CASE ~chip.present /\ GoesWell /\ Receiving(FALSE) /\ Stays /\ chip' = [chip EXCEPT !.answer = NoAnswer]
  <2>1. /\ chip' \in [present : BOOLEAN, set : SUBSET Written, locked : BOOLEAN, key : BOOLEAN,
                      answer : ChipAnswers]
        /\ LockedAsWanted' /\ ~chip'.present /\ chip'.answer # "success"
    BY <1>1, <1>4 DEF LockedAsWanted, ChipAnswers, NoAnswer
  <2>2. ChipValues' /\ CallBounds' /\ AnswersAreTrue' /\ Untouched'
    BY <1>1, <1>2, <1>4, <2>1, ReceivingStep
  <2>3. QED
    BY <2>1, <2>2 DEF ChipInv
<1>5. CASE /\ GoesWrong /\ Receiving(FALSE) /\ Stays
           /\ \E heard \in {NoAnswer, "comm"} : chip' = [chip EXCEPT !.answer = heard]
  <2>1. PICK heard \in {NoAnswer, "comm"} : chip' = [chip EXCEPT !.answer = heard]
    BY <1>5
  <2>2. /\ chip' \in [present : BOOLEAN, set : SUBSET Written, locked : BOOLEAN, key : BOOLEAN,
                      answer : ChipAnswers]
        /\ LockedAsWanted' /\ chip'.answer # "success"
    BY <1>1, <2>1 DEF LockedAsWanted, ChipAnswers, NoAnswer
  <2>3. ChipValues' /\ CallBounds' /\ AnswersAreTrue' /\ Untouched'
    BY <1>1, <1>2, <1>5, <2>2, ReceivingStep
  <2>4. QED
    BY <1>2, <1>5, <2>2, <2>3 DEF ChipInv
<1>6. CASE GoesWrong /\ NextPass(call.n_retries_send - 1, "COMM_FAIL") /\ UNCHANGED chip
  <2>1. call.n_retries_send - 1 \in 0..SHA204_RETRY_COUNT + 1
    BY <1>1 DEF ChipInv, CallBounds
  <2>2. QED
    BY <1>2, <1>6, <2>1, NextPassStep
<1>7. QED
  BY <1>3, <1>4, <1>5, <1>6 DEF Send

-------------------------------------------------------------------------------
LEMMA ChipInitially == ChipInit => ChipInv
<1> SUFFICES ASSUME ChipInit PROVE ChipInv
  OBVIOUS
<1> USE AtshaAssumption DEF ChipInit
<1>1. chip \in [present : BOOLEAN, set : SUBSET Written, locked : BOOLEAN, key : BOOLEAN,
               answer : ChipAnswers]
  BY DEF ChipAnswers
<1>2. /\ call \in [at : {"send", "receive"}, n_retries_send : Nat, n_retries_receive : Nat,
                   done : BOOLEAN]
      /\ call.at = "send" /\ call.n_retries_send = SHA204_RETRY_COUNT + 1
  BY DEF NewCall
<1>3. chip.locked = FALSE /\ step = "rev" /\ word = 1 /\ lockConfig = 0 /\ crc = 0
  OBVIOUS
<1>4. ChipValues
  BY <1>1, <1>2 DEF ChipValues, ChipSteps
<1>5. CallBounds
  BY <1>2, <1>3 DEF CallBounds
<1>6. AnswersAreTrue /\ LockedAsWanted /\ Untouched /\ Reported /\ Configured /\ Finished
  BY <1>2, <1>3 DEF AnswersAreTrue, SuccessMeansDone, LockedAsWanted, Untouched, Reported,
     Configured, Finished
<1>7. QED
  BY <1>4, <1>5, <1>6 DEF ChipInv

(* A command, a wait, a restart, or the end of the chip.                    *)
LEMMA ChipStep == ChipInv /\ [ChipNext]_chipVars => ChipInv'
<1> SUFFICES ASSUME ChipInv, [ChipNext]_chipVars PROVE ChipInv'
  OBVIOUS
<1> USE AtshaAssumption
<1>1. CASE Send
  BY <1>1, SendStep
<1>2. CASE Poll
  BY <1>2, PollStep
<1>3. CASE ChipRestart
  <2>1. /\ chip' \in [present : BOOLEAN, set : SUBSET Written, locked : BOOLEAN, key : BOOLEAN,
                      answer : ChipAnswers]
        /\ LockedAsWanted'
    BY <1>3 DEF ChipRestart, ChipInv, ChipValues, ChipAnswers, LockedAsWanted
  <2>2. /\ call' \in [at : {"send", "receive"}, n_retries_send : Nat, n_retries_receive : Nat,
                      done : BOOLEAN]
        /\ call'.at = "send" /\ call'.n_retries_send = SHA204_RETRY_COUNT + 1
    BY <1>3 DEF ChipRestart, NewCall
  <2>3. QED
    BY <1>3, <2>1, <2>2 DEF ChipRestart, ChipInv, ChipValues, ChipSteps, CallBounds,
       AnswersAreTrue, SuccessMeansDone, Untouched, Reported, Configured, Finished
<1>4. CASE ChipDies
  <2>1. /\ chip' \in [present : BOOLEAN, set : SUBSET Written, locked : BOOLEAN, key : BOOLEAN,
                      answer : ChipAnswers]
        /\ LockedAsWanted' /\ chip'.answer # "success"
    BY <1>4 DEF ChipDies, ChipInv, ChipValues, ChipAnswers, NoAnswer, LockedAsWanted
  <2>2. QED
    BY <1>4, <2>1 DEF ChipDies, ChipInv, ChipValues, CallBounds, AnswersAreTrue,
       SuccessMeansDone, Untouched
<1>5. CASE UNCHANGED chipVars
  BY <1>5 DEF chipVars, ChipInv, ChipValues, CallBounds, AnswersAreTrue, SuccessMeansDone,
     LockedAsWanted, Untouched, Reported, Configured, Finished, StatusRead
<1>6. QED
  BY <1>1, <1>2, <1>3, <1>4, <1>5 DEF ChipNext

(* Every start and every call of the driver keeps within its loops, and the  *)
(* chip and personalize in step with each other.                            *)
LEMMA ChipInvariant == ChipSpec => []ChipInv
<1>1. QED
  BY ChipInitially, ChipStep, PTL DEF ChipSpec

(* The words and the counters of retries stay in their ranges, and only the *)
(* words that personalize writes are ever written.                          *)
THEOREM ChipTyped == ChipSpec => []ChipTypeOK
<1>1. ChipInv => ChipTypeOK
  BY DEF ChipInv, ChipValues, CallBounds, ChipTypeOK
<1>2. QED
  BY <1>1, ChipInvariant, PTL

(* Whatever was lost, repeated or cut off while the configuration was        *)
(* written, and for any number of words and retries, the lock only ever      *)
(* closes on the complete configuration.                                    *)
THEOREM LockIsForTheWhole == ChipSpec => []LockedAsWanted
<1>1. ChipInv => LockedAsWanted
  BY DEF ChipInv
<1>2. QED
  BY <1>1, ChipInvariant, PTL

(* A start of the gateway in which nothing goes wrong leaves the chip locked *)
(* and with its key, in whatever state the starts before it left it.        *)
THEOREM CleanStartFinishes == ChipSpec => []CleanStartCompletes
<1>1. ChipInv => CleanStartCompletes
  BY DEF ChipInv, CleanStartCompletes, Finished, Ended
<1>2. QED
  BY <1>1, ChipInvariant, PTL

(* No retry turns a command that the chip never executed into a success.    *)
THEOREM SuccessIsTrue == ChipSpec => []SuccessMeansDone
<1>1. ChipInv => SuccessMeansDone
  BY DEF ChipInv, AnswersAreTrue
<1>2. QED
  BY <1>1, ChipInvariant, PTL

-------------------------------------------------------------------------------
(* What pages show (MyStatus).                                              *)

StatusValues ==
  /\ DOMAIN now = StatusPage \cup MaintenancePage
  /\ DOMAIN page \in {{}, StatusPage, MaintenancePage}
  /\ calm \in BOOLEAN /\ socket \in BOOLEAN

(* A page that nothing was kept from has a socket, and a status page of this *)
(* kind has not been waiting for the end of a download.                      *)
CalmIsTold ==
  calm => socket /\ (DOMAIN page = StatusPage => now.firmwareSt # "downloadStarted")

StatusInv == StatusValues /\ CalmIsTold /\ PageIsCurrent

LEMMA PagesDiffer ==
  /\ StatusPage # MaintenancePage /\ StatusPage # {} /\ MaintenancePage # {}
  /\ "firmwareSt" \notin StatusPage /\ "packets" \notin MaintenancePage
  /\ {"detected", "gwIp"} \cap MaintenancePage = {}
BY DEF StatusPage, MaintenancePage

(* A message for pages of one type changes one value on such a page.        *)
LEMMA MessageTold ==
  ASSUME NEW type, NEW key \in type, NEW v, notifyWsClients(type, key, v)
  PROVE  /\ DOMAIN page' = DOMAIN page
         /\ socket /\ DOMAIN page = type => page'[key] = v
         /\ \A k \in DOMAIN page \ {key} : page'[k] = page[k]
         /\ ~(socket /\ DOMAIN page = type) => page' = page
<1>1. CASE socket /\ DOMAIN page = type
  BY <1>1 DEF notifyWsClients
<1>2. CASE ~(socket /\ DOMAIN page = type)
  BY <1>2 DEF notifyWsClients
<1>3. QED
  BY <1>1, <1>2

(* A change that is told leaves pages current, unless a download keeps the   *)
(* news from a status page, which is not calm then.                         *)
LEMMA UpdateTold ==
  ASSUME StatusInv, NEW key \in StatusPage, NEW v, notifyUpdate(key, v)
  PROVE  /\ DOMAIN page' = DOMAIN page /\ socket' = socket /\ calm' = calm
         /\ calm /\ key \in DOMAIN page /\ DOMAIN page = StatusPage => page'[key] = v
         /\ \A k \in DOMAIN page \ {key} : page'[k] = page[k]
         /\ DOMAIN page # StatusPage => page' = page
<1>1. CASE now.firmwareSt = "downloadStarted"
  BY <1>1 DEF notifyUpdate, StatusInv, CalmIsTold
<1>2. CASE now.firmwareSt # "downloadStarted"
  <2>1. notifyWsClients(StatusPage, key, v) /\ UNCHANGED <<socket, calm>>
    BY <1>2 DEF notifyUpdate
  <2>2. calm => socket
    BY DEF StatusInv, CalmIsTold
  <2>3. QED
    BY <2>1, <2>2, MessageTold
<1>3. QED
  BY <1>1, <1>2

(* Where only this key of what is so has changed, and it was told.          *)
LEMMA ChangeTold ==
  ASSUME StatusInv, NEW key \in StatusPage, notifyUpdate(key, now'[key]), UNCHANGED updateTimer,
         DOMAIN now' = DOMAIN now, \A k \in DOMAIN now \ {key} : now'[k] = now[k]
  PROVE  StatusInv'
<1>1. /\ DOMAIN now = StatusPage \cup MaintenancePage /\ key \in DOMAIN now /\ key # "firmwareSt"
      /\ DOMAIN page \in {{}, StatusPage, MaintenancePage}
  BY PagesDiffer DEF StatusInv, StatusValues
<1>2. /\ DOMAIN now' = DOMAIN now /\ \A k \in DOMAIN now \ {key} : now'[k] = now[k]
  OBVIOUS
<1>3. /\ DOMAIN page' = DOMAIN page /\ socket' = socket /\ calm' = calm
      /\ calm /\ key \in DOMAIN page /\ DOMAIN page = StatusPage => page'[key] = now'[key]
      /\ \A k \in DOMAIN page \ {key} : page'[k] = page[k]
      /\ DOMAIN page # StatusPage => page' = page
  BY UpdateTold
<1>4. StatusValues' /\ CalmIsTold'
  BY <1>1, <1>2, <1>3 DEF StatusInv, StatusValues, CalmIsTold, MaintenancePage
<1>5. PageIsCurrent'
  <2> SUFFICES ASSUME calm PROVE PageIsCurrent'
    BY <1>3 DEF PageIsCurrent
  <2>1. DOMAIN page \subseteq DOMAIN now
    BY <1>1
  <2>2. CASE key \in DOMAIN page /\ DOMAIN page = StatusPage
    <3>1. page'[key] = now'[key]
      BY <1>3, <2>2
    <3>2. \A k \in DOMAIN page \cap Announced : page'[k] = now'[k]
      BY <1>2, <1>3, <2>1, <3>1 DEF StatusInv, PageIsCurrent
    <3>3. "packets" \in DOMAIN page => page'["packets"] = now'["packets"] \/ updateTimer
      BY <1>2, <1>3, <2>1, <3>1 DEF StatusInv, PageIsCurrent
    <3>4. QED
      BY <1>3, <3>2, <3>3 DEF PageIsCurrent, Announced
  <2>3. CASE key \notin DOMAIN page \/ DOMAIN page # StatusPage
    <3>1. DOMAIN page # StatusPage /\ page' = page
      BY <1>3, <2>3
    <3>2. key \notin DOMAIN page \cap Announced
      BY <1>1, <3>1, PagesDiffer DEF Announced, MaintenancePage, StatusPage
    <3>3. \A k \in DOMAIN page \cap Announced : page'[k] = now'[k]
      BY <1>2, <2>1, <3>1, <3>2 DEF StatusInv, PageIsCurrent
    <3>4. "packets" \notin DOMAIN page
      BY <1>1, <3>1, PagesDiffer
    <3>5. QED
      BY <1>3, <3>1, <3>3, <3>4 DEF PageIsCurrent, Announced
  <2>4. QED
    BY <2>2, <2>3
<1>6. QED
  BY <1>4, <1>5 DEF StatusInv

(* A change that nobody is told of, of what is not announced.               *)
LEMMA ChangeUntold ==
  ASSUME StatusInv, NEW key \in StatusPage \cup MaintenancePage, NEW v,
         now' = [now EXCEPT ![key] = v], UNCHANGED <<page, socket>>,
         key # "firmwareSt", calm' \in BOOLEAN, calm' => calm, updateTimer => updateTimer',
         calm' => \/ key \in {"mqttStatus", "freeHeap"}
                  \/ key = "packets" /\ updateTimer'
  PROVE  StatusInv'
<1>1. /\ DOMAIN now = StatusPage \cup MaintenancePage /\ DOMAIN page \subseteq DOMAIN now
  BY DEF StatusInv, StatusValues
<1>2. /\ DOMAIN now' = DOMAIN now /\ \A k \in DOMAIN now \ {key} : now'[k] = now[k]
  BY <1>1
<1>3. StatusValues' /\ CalmIsTold'
  BY <1>1, <1>2 DEF StatusInv, StatusValues, CalmIsTold, MaintenancePage
<1>4. PageIsCurrent'
  <2> SUFFICES ASSUME calm' PROVE PageIsCurrent'
    BY DEF PageIsCurrent
  <2>1. key \notin Announced /\ Announced' = Announced
    BY DEF Announced
  <2>2. \A k \in DOMAIN page \cap Announced : page[k] = now'[k]
    BY <1>1, <1>2, <2>1 DEF StatusInv, PageIsCurrent
  <2>3. "packets" \in DOMAIN page => page["packets"] = now'["packets"] \/ updateTimer'
    BY <1>1, <1>2 DEF StatusInv, PageIsCurrent
  <2>4. QED
    BY <2>1, <2>2, <2>3 DEF PageIsCurrent
<1>5. QED
  BY <1>3, <1>4 DEF StatusInv

(* What a page shows when it asks is what is so.                            *)
LEMMA AnswerIsCurrent ==
  ASSUME StatusInv, NEW command \in {"getStatus", "getDldStatus"}, wsMessageReceived(command)
  PROVE  StatusInv'
<1>1. /\ DOMAIN page' \in {StatusPage, MaintenancePage} /\ \A k \in DOMAIN page' : page'[k] = now[k]
      /\ DOMAIN page' = StatusPage => command = "getStatus"
  BY PagesDiffer DEF wsMessageReceived, onWsGetStatus, onWsGetDldStatus
<1>2. socket' = TRUE /\ UNCHANGED now /\ calm' = (command = "getDldStatus" \/ now.firmwareSt # "downloadStarted")
  BY DEF wsMessageReceived
<1>3. StatusValues' /\ CalmIsTold'
  BY <1>1, <1>2 DEF StatusInv, StatusValues, CalmIsTold
<1>4. PageIsCurrent'
  BY <1>1, <1>2 DEF PageIsCurrent
<1>5. QED
  BY <1>3, <1>4 DEF StatusInv

(* News of a download goes to the maintenance page, and keeps what is new    *)
(* from a status page.                                                      *)
LEMMA DownloadTold ==
  ASSUME StatusInv, NEW state, now' = [now EXCEPT !["firmwareSt"] = state],
         notifyWsClients(MaintenancePage, "firmwareSt", state), UNCHANGED <<socket, updateTimer>>,
         calm' \in BOOLEAN, calm' => calm,
         calm' /\ DOMAIN page = StatusPage => state # "downloadStarted"
  PROVE  StatusInv'
<1>1. /\ DOMAIN now = StatusPage \cup MaintenancePage /\ DOMAIN page \subseteq DOMAIN now
      /\ "firmwareSt" \in MaintenancePage
  BY DEF StatusInv, StatusValues, MaintenancePage
<1>2. /\ DOMAIN now' = DOMAIN now /\ now'["firmwareSt"] = state
      /\ \A k \in DOMAIN now \ {"firmwareSt"} : now'[k] = now[k]
  BY <1>1
<1>3. /\ DOMAIN page' = DOMAIN page
      /\ socket /\ DOMAIN page = MaintenancePage => page'["firmwareSt"] = state
      /\ \A k \in DOMAIN page \ {"firmwareSt"} : page'[k] = page[k]
  BY <1>1, MessageTold
<1>4. StatusValues' /\ CalmIsTold'
  BY <1>1, <1>2, <1>3 DEF StatusInv, StatusValues, CalmIsTold
<1>5. PageIsCurrent'
  <2> SUFFICES ASSUME calm' PROVE PageIsCurrent'
    BY DEF PageIsCurrent
  <2>1. calm /\ socket /\ Announced' = Announced
    BY <1>3 DEF StatusInv, CalmIsTold, Announced
  <2>2. "firmwareSt" \in DOMAIN page => page'["firmwareSt"] = state
    BY <1>3, <2>1, PagesDiffer DEF StatusInv, StatusValues
  <2>3. \A k \in DOMAIN page \cap Announced : page'[k] = now'[k]
    BY <1>1, <1>2, <1>3, <2>1, <2>2 DEF StatusInv, PageIsCurrent
  <2>4. "packets" \in DOMAIN page => page'["packets"] = now'["packets"] \/ updateTimer
    BY <1>1, <1>2, <1>3, <2>1 DEF StatusInv, PageIsCurrent
  <2>5. QED
    BY <1>3, <2>1, <2>3, <2>4 DEF PageIsCurrent
<1>6. QED
  BY <1>4, <1>5 DEF StatusInv

(* The counters, told when the timer fires.                                 *)
LEMMA CountersTold == StatusInv /\ notifyCounters => StatusInv'
<1> SUFFICES ASSUME StatusInv, notifyCounters PROVE StatusInv'
  OBVIOUS
<1>1. "packets" \in StatusPage /\ notifyUpdate("packets", now["packets"]) /\ UNCHANGED now
  BY DEF notifyCounters, StatusPage
<1>2. /\ DOMAIN page' = DOMAIN page /\ socket' = socket /\ calm' = calm
      /\ calm /\ "packets" \in DOMAIN page /\ DOMAIN page = StatusPage => page'["packets"] = now["packets"]
      /\ \A k \in DOMAIN page \ {"packets"} : page'[k] = page[k]
  BY <1>1, UpdateTold
<1>3. StatusValues' /\ CalmIsTold'
  BY <1>1, <1>2 DEF StatusInv, StatusValues, CalmIsTold
<1>4. "packets" \in DOMAIN page => DOMAIN page = StatusPage
  BY PagesDiffer DEF StatusInv, StatusValues
<1>5. PageIsCurrent'
  BY <1>1, <1>2, <1>4 DEF StatusInv, PageIsCurrent, Announced
<1>6. QED
  BY <1>3, <1>5 DEF StatusInv

-------------------------------------------------------------------------------
LEMMA StatusInitially == MyStatusInit => StatusInv
BY DEF MyStatusInit, StatusInv, StatusValues, CalmIsTold, PageIsCurrent, Started, NoPage

(* Whatever changes, is told or is asked.                                   *)
LEMMA StatusStep == StatusInv /\ [MyStatusNext]_myStatusVars => StatusInv'
<1> SUFFICES ASSUME StatusInv, [MyStatusNext]_myStatusVars PROVE StatusInv'
  OBVIOUS
<1> USE DEF restOfStatus, browserVars
<1>1. calm \in BOOLEAN
  BY DEF StatusInv, StatusValues
<1>2. {"packets", "detected", "startTime", "gwIp", "mqttStatus", "freeHeap"} \subseteq StatusPage
  BY DEF StatusPage
<1>3. CASE updatePackets
  BY <1>1, <1>2, <1>3, ChangeUntold DEF updatePackets, Flips, Changes
<1>4. CASE updateSensorStateInt
  BY <1>1, <1>2, <1>4, ChangeUntold DEF updateSensorStateInt, Flips, Changes
<1>5. CASE notifyCounters
  BY <1>5, CountersTold
<1>6. CASE updateDetectedSensors
  BY <1>2, <1>6, ChangeTold DEF updateDetectedSensors, Flips, Changes
<1>7. CASE setStartupTime
  BY <1>2, <1>7, ChangeTold DEF setStartupTime, Changes
<1>8. CASE updateGWIpConnection
  BY <1>2, <1>8, ChangeTold DEF updateGWIpConnection, Flips, Changes
<1>9. CASE updateMqttConnection
  BY <1>2, <1>9, ChangeTold DEF updateMqttConnection, Changes
<1>10. CASE MqttChanges
  BY <1>1, <1>2, <1>10, ChangeUntold DEF MqttChanges, Flips, Changes
<1>11. CASE HeapChanges
  BY <1>1, <1>2, <1>11, ChangeUntold DEF HeapChanges, Flips, Changes
<1>12. CASE updateFreeHeapSize
  <2>1. "freeHeap" \in StatusPage /\ notifyUpdate("freeHeap", now["freeHeap"]) /\ UNCHANGED <<now, updateTimer>>
    BY <1>2, <1>12 DEF updateFreeHeapSize
  <2>2. QED
    BY <2>1, ChangeTold
<1>13. CASE setFirmwareDldStart
  BY <1>1, <1>13, PagesDiffer, DownloadTold DEF setFirmwareDldStart, Changes
<1>14. ASSUME NEW s \in {"downloadFailed", "downloadSuccess"}, setFirmwareDldEnd(s) PROVE StatusInv'
  BY <1>1, <1>14, DownloadTold DEF setFirmwareDldEnd
<1>15. CASE StatusRestart
  <2>1. DOMAIN now' = StatusPage \cup MaintenancePage
    BY <1>15 DEF StatusRestart, Started
  <2>2. QED
    BY <1>15, <2>1 DEF StatusRestart, StatusInv, StatusValues, CalmIsTold, PageIsCurrent
<1>16. CASE StartWebSocket \/ reCheckSocket
  BY <1>16, AnswerIsCurrent DEF StartWebSocket, reCheckSocket
<1>17. CASE PageCloses
  BY <1>17 DEF PageCloses, NoPage, StatusInv, StatusValues, CalmIsTold, PageIsCurrent
<1>18. CASE SocketBreaks
  BY <1>18 DEF SocketBreaks, StatusInv, StatusValues, CalmIsTold, PageIsCurrent
<1>19. CASE UNCHANGED myStatusVars
  BY <1>19 DEF myStatusVars, StatusInv, StatusValues, CalmIsTold, PageIsCurrent, Announced
<1>20. QED
  BY <1>3, <1>4, <1>5, <1>6, <1>7, <1>8, <1>9, <1>10, <1>11, <1>12, <1>13, <1>14, <1>15, <1>16,
     <1>17, <1>18, <1>19 DEF MyStatusNext

(* Unless a download, a broken socket or a packet of the pong command kept   *)
(* news from it, an open page shows what MyStatus announces as it is, in     *)
(* whatever order the changes, the questions of the page and the timer came. *)
THEOREM PagesAreCurrent == MyStatusInit /\ [][MyStatusNext]_myStatusVars => []PageIsCurrent
<1>1. StatusInv => PageIsCurrent
  BY DEF StatusInv
<1>2. QED
  BY <1>1, StatusInitially, StatusStep, PTL

-------------------------------------------------------------------------------
(* Rules (Automation).                                                      *)

(* Every rule is triggered by its triggers, and stored with the others.     *)
RulesAreTriggered ==
  /\ rules \subseteq RuleFile \cup TestRules /\ rulesFile \subseteq RuleFile \cup TestRules
  /\ \A r \in rules : \A o \in r.triggers :
       \E t \in triggers : t.object = o /\ t.rule.name = r.name /\ t.rule.reads = r.reads

(* What natives return for digital inputs and sensors is what is cached.    *)
DigitalIsRead ==
  "MCP23017" \notin found => nextPin = 0 /\ \A o \in Digital : value[o] = 0

RunsAndValues ==
  /\ DOMAIN value = Objects
  /\ DOMAIN runs = Names /\ \A n \in Names : DOMAIN runs[n] = Objects

RulesInv == RulesAreTriggered /\ DigitalIsRead /\ RunsAndValues /\ RulesAreUpToDate

LEMMA UpToDate ==
  ASSUME RulesInv, NEW r \in rules, NEW o \in Objects, o \in r.triggers, o \in r.reads, o \notin Analog
  PROVE  runs[r.name][o] = value[o]
<1> DEFINE c == <<r, o>>
<1>1. c \in Concerns
  BY DEF Concerns
<1>2. runs[c[1].name][c[2]] = value[c[2]]
  BY <1>1 DEF RulesInv, RulesAreUpToDate
<1>3. QED
  BY <1>2

(* What natives return for digital inputs and sensors, as long as those of   *)
(* an expander that was not found are 0.                                    *)
LEMMA ReadAnew ==
  ASSUME RulesInv, NEW values, NEW o \in Objects, o \notin Analog,
         o \in Digital => values[o] = 0 \/ "MCP23017" \in found
  PROVE  GetObjectValue(values, o) = values[o]
BY DEF GetObjectValue, getResourceValue, getDigInput, Pins, Objects

(* An object has changed, and all its rules have run.                       *)
LEMMA TriggerStep ==
  ASSUME RulesInv, NEW object, UNCHANGED <<rules, triggers, rulesFile, found>>,
         DOMAIN value' = Objects, \A o \in Objects \ {object} : value'[o] = value[o],
         DigitalIsRead', runs' = processTrigger(object, value')
  PROVE  RulesInv'
<1>1. RunsAndValues' /\ RulesAreTriggered'
  BY DEF RulesInv, RunsAndValues, RulesAreTriggered, processTrigger
<1>2. ASSUME NEW r \in rules, NEW o \in Objects, o \in r.triggers, o \in r.reads, o \notin Analog
      PROVE  runs'[r.name][o] = value'[o]
  <2>1. r.name \in Names
    BY DEF RulesInv, RulesAreTriggered, Names
  <2>2. runs'[r.name][o] = IF Reads(r.name, object, o) THEN GetObjectValue(value', o) ELSE runs[r.name][o]
    BY <1>2, <2>1 DEF processTrigger
  <2>3. GetObjectValue(value', o) = value'[o]
    BY <1>2, ReadAnew DEF DigitalIsRead
  <2>4. CASE o = object
    <3>1. Reads(r.name, object, o)
      <4>1. PICK t \in triggers : t.object = o /\ t.rule.name = r.name /\ t.rule.reads = r.reads
        BY <1>2 DEF RulesInv, RulesAreTriggered
      <4>2. QED
        BY <1>2, <2>4, <4>1 DEF Reads
    <3>2. QED
      BY <2>2, <2>3, <3>1
  <2>5. CASE o # object
    <3>1. runs[r.name][o] = value[o] /\ value'[o] = value[o]
      BY <1>2, <2>5, UpToDate
    <3>2. QED
      BY <2>2, <2>3, <3>1
  <2>6. QED
    BY <2>4, <2>5
<1>3. RulesAreUpToDate'
  BY <1>2 DEF RulesAreUpToDate, Concerns
<1>4. QED
  BY <1>1, <1>3 DEF RulesInv

LEMMA AnalogStep ==
  ASSUME RulesInv, i2cCheckAnalogState
  PROVE  RulesInv'
<1> DEFINE told == IF analogCount = 1 THEN Analog ELSE {o \in Analog : value[o] # level[o]}
           Cached(p) == [v \in Objects |-> IF v \in Analog /\ v < p THEN level[v] ELSE value[v]]
<1>1. /\ value' = [o \in Objects |-> IF o \in Analog THEN level[o] ELSE value[o]]
      /\ runs' = PublishPcfInputs(told)
      /\ UNCHANGED <<rules, triggers, rulesFile, found, nextPin>>
  BY DEF i2cCheckAnalogState, ruleVars
<1>2. RunsAndValues' /\ RulesAreTriggered'
  BY <1>1 DEF RulesInv, RunsAndValues, RulesAreTriggered, PublishPcfInputs
<1>3. DigitalIsRead'
  BY <1>1, AutomationAssumption DEF RulesInv, DigitalIsRead, Objects, Pins
<1>4. ASSUME NEW r \in rules, NEW o \in Objects, o \in r.triggers, o \in r.reads, o \notin Analog
      PROVE  runs'[r.name][o] = value'[o]
  <2>1. r.name \in Names
    BY DEF RulesInv, RulesAreTriggered, Names
  <2>2. PICK p : runs'[r.name][o] \in {runs[r.name][o], GetObjectValue(Cached(p), o)}
    <3> DEFINE readings == {p \in told : Reads(r.name, p, o)}
               last == CHOOSE p \in readings : \A q \in readings : q <= p
    <3>1. runs'[r.name][o] = IF readings = {} THEN runs[r.name][o] ELSE GetObjectValue(Cached(last), o)
      BY <1>1, <2>1 DEF PublishPcfInputs
    <3> HIDE DEF readings, last
    <3>2. QED
      BY <3>1
  <2>3. Cached(p)[o] = value[o] /\ value'[o] = value[o]
    BY <1>1, <1>4
  <2>4. o \in Digital => Cached(p)[o] = 0 \/ "MCP23017" \in found
    BY <2>3 DEF RulesInv, DigitalIsRead
  <2>5. GetObjectValue(Cached(p), o) = value[o]
    BY <1>4, <2>3, <2>4, ReadAnew
  <2>6. runs[r.name][o] = value[o]
    BY <1>4, UpToDate
  <2>7. QED
    BY <2>2, <2>3, <2>5, <2>6
<1>5. RulesAreUpToDate'
  BY <1>1, <1>4 DEF RulesAreUpToDate, Concerns
<1>6. QED
  BY <1>2, <1>3, <1>5 DEF RulesInv

(* Right after a start, the rules of a file trigger as they say.            *)
LEMMA FileTriggers ==
  ASSUME NEW file, NEW n, NEW r \in file, NEW o \in r.triggers
  PROVE  \E t \in Triggering(file, n) : t.object = o /\ t.rule.name = r.name /\ t.rule.reads = r.reads
<1> DEFINE t == [object |-> o, rule |-> [name |-> r.name, reads |-> r.reads, made |-> n]]
<1>1. t \in Triggering(file, n)
  BY DEF Triggering
<1>2. t.object = o /\ t.rule.name = r.name /\ t.rule.reads = r.reads
  OBVIOUS
<1>3. QED
  BY <1>1, <1>2

(* The rules command.                                                       *)
LEMMA CommandStep == RulesInv /\ processRules => RulesInv'
<1> SUFFICES ASSUME RulesInv, processRules PROVE RulesInv'
  OBVIOUS
<1>1. /\ rules' = TestRules \cup {r \in rules : \A s \in TestRules : s.name # r.name}
      /\ triggers' = triggers \cup Triggering(TestRules, commands') /\ rulesFile' = rules'
      /\ runs' = [n \in Names |-> IF \E r \in TestRules : r.name = n THEN value ELSE runs[n]]
      /\ UNCHANGED <<found, value, nextPin>>
  BY DEF processRules, addRules, store
<1>2. RunsAndValues' /\ DigitalIsRead'
  BY <1>1 DEF RulesInv, RunsAndValues, DigitalIsRead
<1>3. RulesAreTriggered'
  <2>1. rules' \subseteq RuleFile \cup TestRules
    BY <1>1 DEF RulesInv, RulesAreTriggered
  <2>2. ASSUME NEW r \in rules', NEW o \in r.triggers
        PROVE  \E t \in triggers' : t.object = o /\ t.rule.name = r.name /\ t.rule.reads = r.reads
    <3>1. CASE r \in TestRules
      BY <1>1, <3>1, FileTriggers
    <3>2. CASE r \in rules
      BY <1>1, <3>2 DEF RulesInv, RulesAreTriggered
    <3>3. QED
      BY <1>1, <3>1, <3>2
  <2>3. QED
    BY <1>1, <2>1, <2>2 DEF RulesAreTriggered
<1>4. RulesAreUpToDate'
  <2>1. ASSUME NEW r \in rules', NEW o \in Objects, o \in r.triggers \cap r.reads, o \notin Analog
        PROVE  runs'[r.name][o] = value[o]
    <3>1. r.name \in Names
      BY <1>3 DEF RulesAreTriggered, Names
    <3>2. CASE \E s \in TestRules : s.name = r.name
      BY <1>1, <3>1, <3>2
    <3>3. CASE ~\E s \in TestRules : s.name = r.name
      <4>1. r \in rules /\ runs'[r.name] = runs[r.name]
        BY <1>1, <3>1, <3>3
      <4>2. QED
        BY <2>1, <4>1, UpToDate
    <3>4. QED
      BY <3>2, <3>3
  <2>2. QED
    BY <1>1, <2>1 DEF RulesAreUpToDate, Concerns
<1>5. QED
  BY <1>2, <1>3, <1>4 DEF RulesInv

-------------------------------------------------------------------------------
(* A start, with these values.                                              *)
LEMMA StartedUpToDate ==
  ASSUME NEW val
  PROVE  \A c \in Concerns : Unmoved(val)[c[1].name][c[2]] = val[c[2]] \/ c[1].name \notin Names
BY DEF Unmoved

LEMMA RulesInitially == AutomationInit => RulesInv
<1> SUFFICES ASSUME AutomationInit PROVE RulesInv
  OBVIOUS
<1>1. RulesAreTriggered
  <2>1. rules = RuleFile /\ rulesFile = RuleFile /\ triggers = Triggering(RuleFile, 0)
    BY DEF AutomationInit
  <2>2. QED
    BY <2>1, FileTriggers DEF RulesAreTriggered
<1>2. value = Begun(found, level, [o \in Objects |-> 0]) /\ runs = Unmoved(value) /\ nextPin = 0
  BY DEF AutomationInit
<1>3. DigitalIsRead /\ RunsAndValues
  BY <1>2 DEF Begun, Unmoved, DigitalIsRead, RunsAndValues, Pins, Objects
<1>4. \A c \in Concerns : c[1].name \in Names
  BY <1>1 DEF RulesAreTriggered, Concerns, Names
<1>5. QED
  BY <1>1, <1>2, <1>3, <1>4, StartedUpToDate DEF RulesInv, RulesAreUpToDate

(* A poll, a report, a command, a restart, or a pin that moves.             *)
LEMMA RulesStep == RulesInv /\ [AutomationNext]_automationVars => RulesInv'
<1> SUFFICES ASSUME RulesInv, [AutomationNext]_automationVars PROVE RulesInv'
  OBVIOUS
<1> USE AutomationAssumption DEF ruleVars
<1>1. CASE StartDigitalPoll
  BY <1>1 DEF StartDigitalPoll, RulesInv, RulesAreTriggered, DigitalIsRead, RunsAndValues,
     RulesAreUpToDate, Concerns
<1>2. CASE PollPin
  <2>1. /\ "MCP23017" \in found /\ UNCHANGED <<rules, triggers, rulesFile, found>>
        /\ value' = [value EXCEPT ![nextPin] = level[nextPin]]
        /\ runs' = IF value' = value THEN runs ELSE processTrigger(nextPin, value')
    BY <1>2 DEF PollPin, RulesInv, DigitalIsRead
  <2>2. DigitalIsRead' /\ DOMAIN value' = Objects /\ \A o \in Objects \ {nextPin} : value'[o] = value[o]
    BY <2>1 DEF DigitalIsRead, RulesInv, RunsAndValues
  <2>3. CASE value' = value
    BY <2>1, <2>2, <2>3 DEF RulesInv, RulesAreTriggered, RunsAndValues, RulesAreUpToDate, Concerns
  <2>4. CASE value' # value
    BY <2>1, <2>2, <2>4, TriggerStep
  <2>5. QED
    BY <2>3, <2>4
<1>3. CASE i2cCheckAnalogState
  BY <1>3, AnalogStep
<1>4. ASSUME NEW s \in Sensors, SensorReports(s) PROVE RulesInv'
  <2>1. /\ UNCHANGED <<rules, triggers, rulesFile, found, nextPin>>
        /\ value' = [value EXCEPT ![s] = 1 - value[s]] /\ runs' = processTrigger(s, value')
    BY <1>4 DEF SensorReports
  <2>2. DOMAIN value' = Objects /\ \A o \in Objects \ {s} : value'[o] = value[o]
    BY <2>1 DEF RulesInv, RunsAndValues
  <2>3. DigitalIsRead'
    BY <2>1, <2>2 DEF RulesInv, DigitalIsRead, Objects, Pins
  <2>4. QED
    BY <2>1, <2>2, <2>3, TriggerStep
<1>5. CASE processRules
  BY <1>5, CommandStep
<1>6. CASE AutomationRestart
  <2>1. /\ value' = Begun(found', level, value) /\ runs' = Unmoved(value') /\ nextPin' = 0
        /\ rules' = rulesFile /\ triggers' = Triggering(rulesFile, 0) /\ rulesFile' = rulesFile
    BY <1>6 DEF AutomationRestart
  <2>2. RulesAreTriggered'
    BY <2>1, FileTriggers DEF RulesInv, RulesAreTriggered
  <2>3. DigitalIsRead' /\ RunsAndValues'
    BY <2>1 DEF Begun, Unmoved, DigitalIsRead, RunsAndValues, Pins, Objects
  <2>4. RulesAreUpToDate'
    BY <2>1, <2>2 DEF RulesAreTriggered, RulesAreUpToDate, Concerns, Names, Unmoved
  <2>5. QED
    BY <2>2, <2>3, <2>4 DEF RulesInv
<1>7. ASSUME NEW p \in Pins, PinMoves(p) PROVE RulesInv'
  BY <1>7 DEF PinMoves, RulesInv, RulesAreTriggered, DigitalIsRead, RunsAndValues,
     RulesAreUpToDate, Concerns
<1>8. CASE UNCHANGED automationVars
  BY <1>8 DEF automationVars, RulesInv, RulesAreTriggered, DigitalIsRead, RunsAndValues,
     RulesAreUpToDate, Concerns
<1>9. QED
  BY <1>1, <1>2, <1>3, <1>4, <1>5, <1>6, <1>7, <1>8 DEF AutomationNext

(* For any pins, sensors and rules: no change of a digital input or of a     *)
(* sensor is lost on a rule that it triggers, in the middle of a poll,       *)
(* after the rules command and after restarts.                              *)
THEOREM NoChangeIsLostOnARule == AutomationSpec => []RulesAreUpToDate
<1>1. RulesInv => RulesAreUpToDate
  BY DEF RulesInv
<1>2. QED
  BY <1>1, RulesInitially, RulesStep, PTL DEF AutomationSpec

-------------------------------------------------------------------------------
(* GatewayParts: each part is a behaviour of its own or stands still.       *)
LEMMA PartsStep ==
  [Next]_partVars =>
    /\ [NetworkNext]_networkVars /\ [OtaNext]_otaVars /\ [ChipNext]_chipVars
    /\ [AutomationNext]_automationVars /\ [MyStatusNext]_myStatusVars
BY DEF Next, partVars

(* Whatever part a behaviour is about: the access point is on while the      *)
(* station is not connected, complete builds are started, the chip is       *)
(* locked with its whole configuration and by any clean start, pages and    *)
(* rules are up to date.                                                    *)
THEOREM PartsAreSafe ==
  Spec => [](ApWhenDisconnected /\ BootsCompleteBuild /\ LockedAsWanted /\ CleanStartCompletes
             /\ PageIsCurrent /\ RulesAreUpToDate)
<1> DEFINE PartsInv == NetworkInv /\ OtaTypeOK /\ OtaInv /\ ChipInv /\ StatusInv /\ RulesInv
<1>1. Init => PartsInv
  BY NetworkInitially, OtaTypedInitially, OtaInitially, ChipInitially, StatusInitially,
     RulesInitially DEF Init
<1>2. PartsInv /\ [Next]_partVars => PartsInv'
  BY PartsStep, NetworkStep, OtaTypedStep, OtaStep, ChipStep, StatusStep, RulesStep
<1>3. PartsInv => /\ ApWhenDisconnected /\ BootsCompleteBuild /\ LockedAsWanted
                  /\ CleanStartCompletes /\ PageIsCurrent /\ RulesAreUpToDate
  BY DEF NetworkInv, OtaInv, ChipInv, Finished, Ended, CleanStartCompletes, StatusInv, RulesInv
<1>4. QED
  BY <1>1, <1>2, <1>3, PTL DEF Spec
================================================================================
