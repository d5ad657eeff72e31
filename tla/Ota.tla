---------------------------------- MODULE Ota ----------------------------------
(***************************************************************************)
(* The update of the gateway (app/ota.cpp) with the settings it carries    *)
(* over (app/AppSettings.cpp) and the state it shows (app/MyStatus.cpp).   *)
(* The flash has two slots, each with a ROM and a file system; the gateway *)
(* downloads both into the slot it does not run from, copies its settings  *)
(* there and boots it.  Power may be lost at any moment.                   *)
(***************************************************************************)
EXTENDS Integers

CONSTANTS
  Builds,        \* what a server offers: a ROM and a file system
  FirstBuild,    \* what the gateway was programmed with
  Settings,      \* contents of the settings
  Defaults,      \* the settings without a file
  Partial,       \* a ROM or file system that is not written completely
  Blank,         \* the settings without values, which a file that makes no sense gives
  NoSettings,    \* there is no settings file
  CutShort,      \* there is one, but it was not written to its end
  MaxTrials,     \* trials of a download: 6
  MaxRequests    \* bound: updates that users ask for

ASSUME OtaAssumption ==
  /\ FirstBuild \in Builds /\ Partial \notin Builds
  /\ {Defaults, Blank} \subseteq Settings
  /\ {NoSettings, CutShort} \cap Settings = {} /\ NoSettings # CutShort
  /\ MaxTrials \in Nat \ {0} /\ MaxRequests \in Nat

VARIABLES
  current,         \* the slot rBoot starts
  rom, fs,         \* per slot: the ROM and the file system
  saved,           \* per slot: the settings file of the file system
  AppSettings,     \* the settings in RAM
  otaBaseUrl,      \* the build the URL stands for
  otaStartTimer,
  otaUpdater,      \* what is being downloaded, and from where
  numOtaTrials,
  firmwareState,   \* of MyStatus; web clients get no other news while it is
                   \* "downloadStarted"
  requests,        \* updates asked for
  attempts         \* history: downloads started since the last request

flash == <<current, rom, fs, saved>>
trial == <<otaStartTimer, numOtaTrials, firmwareState>>
otaVars == <<flash, AppSettings, otaBaseUrl, otaUpdater, trial, requests, attempts>>

Slots == {0, 1}
Other == 1 - current

Idle == [item |-> "none", url |-> FirstBuild]

(* What AppSettings.load() makes of the settings, given the file: one that is *)
(* not whole does not parse, and every value is read from it as an empty one. *)
LoadedFault(file, ram) ==   \* a slip to be caught: a missing file is parsed
  IF file \in {NoSettings, CutShort} THEN Blank ELSE file

Loaded(file, ram) ==
  IF file = NoSettings THEN ram ELSE IF file = CutShort THEN Blank ELSE file

OtaInit ==
  /\ current = 0
  /\ rom = [s \in Slots |-> IF s = 0 THEN FirstBuild ELSE Partial]
  /\ fs = rom
  /\ saved = [s \in Slots |-> NoSettings]
  /\ AppSettings = Defaults
  /\ otaBaseUrl = FirstBuild
  /\ otaStartTimer = FALSE /\ otaUpdater = Idle
  /\ numOtaTrials = 0 /\ firmwareState = "systemReady"
  /\ requests = 0 /\ attempts = 0

(* The gateway starts from a slot, with files in its file systems.          *)
boot(slot, files) ==
  /\ current' = slot /\ saved' = files
  /\ AppSettings' = Loaded(files[slot], Defaults)
  /\ otaBaseUrl' = FirstBuild
  /\ otaStartTimer' = FALSE /\ otaUpdater' = Idle
  /\ numOtaTrials' = 0 /\ firmwareState' = "systemReady"
  /\ attempts' = 0

-------------------------------------------------------------------------------
(* load(), a change, save(): what every settings page does                  *)
SaveSettings(settings) ==
  /\ AppSettings' = settings
  /\ saved' = [saved EXCEPT ![current] = settings]
  /\ UNCHANGED <<current, rom, fs, otaBaseUrl, otaUpdater, trial, requests, attempts>>

StartOtaUpdate(trials) ==
  /\ numOtaTrials' = trials + 1
  /\ firmwareState' = "downloadStarted"
  /\ otaStartTimer' = TRUE

(* The page loads the settings and saves them with the URL.                 *)
onMaintenance ==
  /\ AppSettings' = Loaded(saved[current], AppSettings)
  /\ saved' = [saved EXCEPT ![current] = AppSettings']

(* From the maintenance page or from the command.                           *)
RequestUpdate(url) ==
  /\ requests < MaxRequests /\ requests' = requests + 1
  /\ onMaintenance \/ UNCHANGED <<AppSettings, saved>>
  /\ otaBaseUrl' = url
  /\ StartOtaUpdate(numOtaTrials)
  /\ attempts' = 0
  /\ UNCHANGED <<current, rom, fs, otaUpdater>>

(* A running updater is deleted; the new one starts from the beginning.     *)
otaUpdateHandler ==
  /\ otaStartTimer
  /\ otaStartTimer' = FALSE
  /\ otaUpdater' = [item |-> "rom", url |-> otaBaseUrl]
  /\ attempts' = attempts + 1
  /\ UNCHANGED <<flash, AppSettings, otaBaseUrl, numOtaTrials, firmwareState, requests>>

(* The updater writes the slot that is not running.                         *)
Target == Other

WriteBlock ==
  /\ \/ /\ otaUpdater.item = "rom"
        /\ rom' = [rom EXCEPT ![Target] = Partial]
        /\ UNCHANGED <<fs, saved>>
     \/ /\ otaUpdater.item = "fs"
        /\ fs' = [fs EXCEPT ![Target] = Partial]
        /\ saved' = [saved EXCEPT ![Target] = NoSettings]
        /\ UNCHANGED rom
  /\ UNCHANGED <<current, AppSettings, otaBaseUrl, otaUpdater, trial, requests, attempts>>

RomDownloaded ==
  /\ otaUpdater.item = "rom"
  /\ rom' = [rom EXCEPT ![Target] = otaUpdater.url]
  /\ otaUpdater' = [otaUpdater EXCEPT !.item = "fs"]
  /\ UNCHANGED <<current, fs, saved, AppSettings, otaBaseUrl, trial, requests, attempts>>

(* otaUpdate_CallBack(true): the other file system, as it was downloaded,   *)
(* gets the settings; then the slot is selected, which may fail.            *)
DownloadedUrlFault ==   \* a slip to be caught: the URL is read when it is used
  /\ otaUpdater.item = "fs"
  /\ fs' = [fs EXCEPT ![Target] = otaBaseUrl]
  /\ LET files == [saved EXCEPT ![Target] = Loaded(saved[current], AppSettings)]
     IN boot(Target, files) \/ boot(current, files)
  /\ UNCHANGED <<rom, requests>>

DownloadedFault ==   \* a slip to be caught: saved before the other is mounted
  /\ otaUpdater.item = "fs"
  /\ fs' = [fs EXCEPT ![Target] = otaUpdater.url]
  /\ LET files == [saved EXCEPT ![Target] = NoSettings,
                                ![current] = Loaded(saved[current], AppSettings)]
     IN boot(Target, files) \/ boot(current, files)
  /\ UNCHANGED <<rom, requests>>

Downloaded ==
  /\ otaUpdater.item = "fs"
  /\ fs' = [fs EXCEPT ![Target] = otaUpdater.url]
  /\ LET files == [saved EXCEPT ![Target] = Loaded(saved[current], AppSettings)]
     IN boot(Target, files) \/ boot(current, files)
  /\ UNCHANGED <<rom, requests>>

(* otaUpdate_CallBack(false)                                                *)
DownloadFailsFault ==   \* a slip to be caught: the trials start over each time
  /\ otaUpdater.item # "none"
  /\ otaUpdater' = Idle
  /\ StartOtaUpdate(0)
  /\ UNCHANGED <<flash, AppSettings, otaBaseUrl, requests, attempts>>

DownloadEndsFault ==   \* a slip to be caught: the last failure is not shown
  /\ otaUpdater.item # "none"
  /\ otaUpdater' = Idle
  /\ \/ numOtaTrials < MaxTrials /\ StartOtaUpdate(numOtaTrials)
     \/ /\ numOtaTrials >= MaxTrials
        /\ numOtaTrials' = 0
        /\ UNCHANGED <<otaStartTimer, firmwareState>>
  /\ UNCHANGED <<flash, AppSettings, otaBaseUrl, requests, attempts>>

DownloadFails ==
  /\ otaUpdater.item # "none"
  /\ otaUpdater' = Idle
  /\ \/ numOtaTrials < MaxTrials /\ StartOtaUpdate(numOtaTrials)
     \/ /\ numOtaTrials >= MaxTrials
        /\ numOtaTrials' = 0
        /\ firmwareState' = "downloadFailed"
        /\ UNCHANGED otaStartTimer
  /\ UNCHANGED <<flash, AppSettings, otaBaseUrl, requests, attempts>>

(* A restart at any moment, in the middle of a download included.           *)
OtaRestart ==
  /\ boot(current, saved)
  /\ UNCHANGED <<rom, fs, requests>>

(* Power is lost while a settings file is written, on a page or at the end  *)
(* of an update.                                                            *)
PowerLossInSave ==
  /\ \/ /\ boot(current, [saved EXCEPT ![current] = CutShort])
        /\ UNCHANGED fs
     \/ /\ otaUpdater.item = "fs"
        /\ fs' = [fs EXCEPT ![Target] = otaUpdater.url]
        /\ boot(current, [saved EXCEPT ![Target] = CutShort])
  /\ UNCHANGED <<rom, requests>>

OtaNext ==
  \/ \E settings \in Settings : SaveSettings(settings)
  \/ \E url \in Builds : RequestUpdate(url)
  \/ otaUpdateHandler
  \/ WriteBlock \/ RomDownloaded \/ Downloaded \/ DownloadFails
  \/ OtaRestart \/ PowerLossInSave

(* A started timer fires, and a download ends somehow.                      *)
DownloadGoesOn == RomDownloaded \/ Downloaded \/ DownloadFails

OtaSpec == OtaInit /\ [][OtaNext]_otaVars /\ WF_otaVars(otaUpdateHandler) /\ WF_otaVars(DownloadGoesOn)

-------------------------------------------------------------------------------
OtaTypeOK ==
  /\ current \in Slots
  /\ rom \in [Slots -> Builds \cup {Partial}] /\ fs \in [Slots -> Builds \cup {Partial}]
  /\ saved \in [Slots -> Settings \cup {NoSettings, CutShort}]
  /\ AppSettings \in Settings
  /\ otaBaseUrl \in Builds
  /\ otaStartTimer \in BOOLEAN
  /\ otaUpdater \in [item : {"none", "rom", "fs"}, url : Builds]
  /\ numOtaTrials \in Nat
  /\ firmwareState \in {"systemReady", "downloadStarted", "downloadFailed"}
  /\ requests \in 0..MaxRequests
  /\ attempts \in Nat

(* Whenever power is lost, the gateway starts a complete ROM with the       *)
(* complete file system that belongs to it, even if two users ask for       *)
(* different builds at the same time.                                       *)
BootsCompleteBuild ==
  rom[current] = fs[current] /\ rom[current] # Partial

(* The settings come with the gateway to its other slot: after an update it *)
(* finds the network, and its users log in, as before.                      *)
SettingsSurviveUpdate ==
  [][current' # current => AppSettings' = AppSettings]_otaVars

(* Web clients are told nothing while a download is under way, so that must *)
(* not be claimed without one.                                              *)
StartedMeansBusy ==
  firmwareState = "downloadStarted" => otaStartTimer \/ otaUpdater.item # "none"

(* A download that keeps failing is not repeated for ever.  One more than   *)
(* the trials are possible: if a user asks while the last trial runs, that  *)
(* trial resets the count before the new one starts.                        *)
AttemptsBounded == attempts <= MaxTrials + 1

(* So the state in which web clients are told nothing ends.                 *)
UpdateEnds == firmwareState = "downloadStarted" ~> firmwareState # "downloadStarted"
================================================================================
