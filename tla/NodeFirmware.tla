----------------------------- MODULE NodeFirmware -----------------------------
(***************************************************************************)
(* The update of a node over the radio (MY_OTA_FIRMWARE_FEATURE in         *)
(* libraries/MySensors/MySensor.cpp).  The node asks a controller once per *)
(* start which firmware it should run, fetches its blocks from the last to *)
(* the first one, checks them and reboots into them.  Requests and answers *)
(* get lost and late, and the node writes any answer as the block that is  *)
(* due.  The checksum is taken as ideal: it accepts an image if all its    *)
(* blocks are the right ones.                                              *)
(***************************************************************************)
EXTENDS Integers

CONSTANTS
  Firmware,       \* firmware images: type, version, checksum and blocks
  NoFirmware,     \* the flash holds no signature
  Blocks,         \* number of blocks of each image
  FirstFirmware,  \* what the node was programmed with
  MY_OTA_RETRY,   \* how often the request of a block is repeated
  MaxUnderway,    \* bound: exchanges for the same block under way
  MaxFaults       \* bound: power losses and failures of the flash chip

ASSUME FirmwareAssumption ==
  /\ NoFirmware \notin Firmware /\ FirstFirmware \in Firmware
  /\ Blocks \in [Firmware -> Nat \ {0}]
  /\ MY_OTA_RETRY \in Nat /\ MaxUnderway \in Nat \ {0} /\ MaxFaults \in Nat

VARIABLES
  fc,               \* in RAM: the firmware that is wanted
  savedFc,          \* in EEPROM: the firmware the node says it has
  program,          \* the blocks in program memory
  flash,            \* the blocks in the external flash
  fwUpdateOngoing, fwBlock, fwRetry,
  configAsked,      \* a configuration request or its answer is under way
  underway,         \* block requests that are under way, or their answers
  faults,
  crossed,          \* history: this update began, or sent a request, while
                    \* an earlier answer could still come
  torn              \* history: power was lost between the two writes of an
                    \* installation, and none was completed since

vars == <<fc, savedFc, program, flash, fwUpdateOngoing, fwBlock, fwRetry,
          configAsked, underway, faults, crossed, torn>>

Block == UNION {{f} \X (1..Blocks[f]) : f \in Firmware}
Positions == {x[2] : x \in Block}

Erased == <<>>
Wiped == [p \in Positions |-> Erased]

Image(f) == [p \in 1..Blocks[f] |-> <<f, p>>]
Pending == {x \in Block : underway[x] > 0}

(* isValidFirmware, with an ideal checksum                                  *)
isValidFirmware(image, f) == \A p \in 1..Blocks[f] : image[p] = <<f, p>>

(* What the boot loader finds: sign is the firmware whose size and          *)
(* signature head the flash.                                                *)
BootLoader(image, sign) ==
  IF sign = NoFirmware
    THEN flash' = image /\ UNCHANGED program
    ELSE flash' = Wiped /\ program' = [p \in 1..Blocks[sign] |-> image[p]]

Init ==
  /\ fc = FirstFirmware /\ savedFc = FirstFirmware
  /\ program = Image(FirstFirmware)
  /\ flash = Wiped
  /\ fwUpdateOngoing = FALSE /\ fwBlock = 0 /\ fwRetry = 0
  /\ configAsked = TRUE
  /\ underway = [x \in Block |-> 0]
  /\ faults = 0 /\ crossed = FALSE /\ torn = FALSE

(* The node starts with saved in EEPROM and asks for its configuration.     *)
begin(saved, image, sign) ==
  /\ BootLoader(image, sign)
  /\ savedFc' = saved /\ fc' = saved
  /\ fwUpdateOngoing' = FALSE /\ fwBlock' = 0 /\ fwRetry' = 0
  /\ configAsked' = TRUE
  /\ crossed' = FALSE

-------------------------------------------------------------------------------
(* ST_FIRMWARE_CONFIG_RESPONSE                                              *)
StartUpdate(f) ==
  /\ flash' = Wiped
  /\ fwBlock' = Blocks[f] /\ fwUpdateOngoing' = TRUE
  /\ fwRetry' = MY_OTA_RETRY + 1
  /\ crossed' = (Pending # {})
  /\ UNCHANGED faults

FlashFails ==
  /\ faults < MaxFaults /\ faults' = faults + 1
  /\ fwUpdateOngoing' = FALSE
  /\ UNCHANGED <<flash, fwBlock, fwRetry, crossed>>

ConfigResponse(f) ==
  /\ configAsked
  /\ configAsked' = FALSE
  /\ fc' = f
  /\ \/ f # fc /\ (StartUpdate(f) \/ FlashFails)
     \/ f = fc /\ UNCHANGED <<flash, fwUpdateOngoing, fwBlock, fwRetry, faults, crossed>>
  /\ UNCHANGED <<savedFc, program, underway, torn>>

LoseConfig ==
  /\ configAsked
  /\ configAsked' = FALSE
  /\ UNCHANGED <<fc, savedFc, program, flash, fwUpdateOngoing, fwBlock, fwRetry,
                 underway, faults, crossed, torn>>

(* process() with nothing to read, MY_OTA_RETRY_DELAY after the last one    *)
DueBlockFault == <<fc, Blocks[fc] + 1 - fwBlock>>   \* a slip: from the front
DueBlock == <<fc, fwBlock>>

RequestBlockFault ==   \* a slip to be caught: the retries are not counted
  /\ fwUpdateOngoing /\ fwRetry > 0
  /\ underway' = [underway EXCEPT ![DueBlock] = IF @ < MaxUnderway THEN @ + 1 ELSE @]
  /\ crossed' = (crossed \/ Pending # {})
  /\ UNCHANGED <<fc, savedFc, program, flash, fwUpdateOngoing, fwBlock, fwRetry,
                 configAsked, faults, torn>>

RequestBlock ==
  /\ fwUpdateOngoing /\ fwRetry > 0
  /\ fwRetry' = fwRetry - 1
  /\ underway' = [underway EXCEPT ![DueBlock] = IF @ < MaxUnderway THEN @ + 1 ELSE @]
  /\ crossed' = (crossed \/ Pending # {})
  /\ UNCHANGED <<fc, savedFc, program, flash, fwUpdateOngoing, fwBlock,
                 configAsked, faults, torn>>

GiveUp ==
  /\ fwUpdateOngoing /\ fwRetry = 0
  /\ fwUpdateOngoing' = FALSE
  /\ UNCHANGED <<fc, savedFc, program, flash, fwBlock, fwRetry, configAsked,
                 underway, faults, crossed, torn>>

-------------------------------------------------------------------------------
(* ST_FIRMWARE_RESPONSE: x is the block the answer carries, whichever block *)
(* is due.                                                                  *)
Consume(x) == underway[x] > 0 /\ underway' = [underway EXCEPT ![x] = @ - 1]

Written(x) == [flash EXCEPT ![fwBlock] = x]

StoreBlockFault(x) ==   \* a slip to be caught: the last block does not end it
  /\ fwUpdateOngoing
  /\ Consume(x)
  /\ flash' = Written(x)
  /\ fwBlock' = fwBlock - 1
  /\ fwRetry' = MY_OTA_RETRY + 1
  /\ UNCHANGED <<fc, savedFc, program, fwUpdateOngoing, configAsked, faults, crossed, torn>>

StoreBlock(x) ==
  /\ fwUpdateOngoing /\ fwBlock > 1
  /\ Consume(x)
  /\ flash' = Written(x)
  /\ fwBlock' = fwBlock - 1
  /\ fwRetry' = MY_OTA_RETRY + 1
  /\ UNCHANGED <<fc, savedFc, program, fwUpdateOngoing, configAsked, faults, crossed, torn>>

ChecksumFails(x) ==
  /\ fwUpdateOngoing /\ fwBlock = 1
  /\ ~isValidFirmware(Written(x), fc)
  /\ Consume(x)
  /\ flash' = Written(x)
  /\ fwBlock' = 0 /\ fwUpdateOngoing' = FALSE
  /\ fwRetry' = MY_OTA_RETRY + 1
  /\ UNCHANGED <<fc, savedFc, program, configAsked, faults, crossed, torn>>

InstallUncheckedFault(x) ==   \* a slip to be caught: no checksum
  /\ fwUpdateOngoing /\ fwBlock = 1
  /\ Consume(x)
  /\ begin(fc, Written(x), fc)
  /\ torn' = FALSE
  /\ UNCHANGED faults

InstallUnsavedFault(x) ==   \* a slip to be caught: EEPROM keeps the old one
  /\ fwUpdateOngoing /\ fwBlock = 1
  /\ isValidFirmware(Written(x), fc)
  /\ Consume(x)
  /\ begin(savedFc, Written(x), fc)
  /\ torn' = FALSE
  /\ UNCHANGED faults

(* Signature, configuration in EEPROM, reboot.                              *)
Install(x) ==
  /\ fwUpdateOngoing /\ fwBlock = 1
  /\ isValidFirmware(Written(x), fc)
  /\ Consume(x)
  /\ begin(fc, Written(x), fc)
  /\ torn' = FALSE
  /\ UNCHANGED faults

(* Power is lost after the signature was written.                           *)
PowerLossInInstall(x) ==
  /\ faults < MaxFaults /\ faults' = faults + 1
  /\ fwUpdateOngoing /\ fwBlock = 1
  /\ isValidFirmware(Written(x), fc)
  /\ Consume(x)
  /\ begin(savedFc, Written(x), fc)
  /\ torn' = TRUE

NotOngoing(x) ==
  /\ ~fwUpdateOngoing
  /\ Consume(x)
  /\ UNCHANGED <<fc, savedFc, program, flash, fwUpdateOngoing, fwBlock, fwRetry,
                 configAsked, faults, crossed, torn>>

FirmwareResponse(x) ==
  NotOngoing(x) \/ StoreBlock(x) \/ ChecksumFails(x) \/ Install(x) \/ PowerLossInInstall(x)

LoseExchange(x) ==
  /\ Consume(x)
  /\ UNCHANGED <<fc, savedFc, program, flash, fwUpdateOngoing, fwBlock, fwRetry,
                 configAsked, faults, crossed, torn>>

Restart ==
  /\ faults < MaxFaults /\ faults' = faults + 1
  /\ begin(savedFc, flash, NoFirmware)
  /\ UNCHANGED <<underway, torn>>

Next ==
  \/ \E f \in Firmware : ConfigResponse(f)
  \/ LoseConfig
  \/ RequestBlock \/ GiveUp
  \/ \E x \in Block : FirmwareResponse(x) \/ LoseExchange(x)
  \/ Restart

(* The loop of the node calls process() again and again.                    *)
Spec == Init /\ [][Next]_vars /\ WF_vars(RequestBlock \/ GiveUp)

-------------------------------------------------------------------------------
TypeOK ==
  /\ fc \in Firmware /\ savedFc \in Firmware
  /\ flash \in [Positions -> Block \cup {Erased}]
  /\ fwUpdateOngoing \in BOOLEAN /\ configAsked \in BOOLEAN
  /\ fwBlock \in Nat /\ (fwUpdateOngoing => fwBlock \in 1..Blocks[fc])
  /\ fwRetry \in 0..(MY_OTA_RETRY + 1)
  /\ underway \in [Block -> 0..MaxUnderway]
  /\ faults \in 0..MaxFaults
  /\ crossed \in BOOLEAN /\ torn \in BOOLEAN

(* Whatever answers get lost, late or mixed up, and whenever power is lost, *)
(* the boot loader only ever installs a whole image of one firmware, so the *)
(* node can always start.                                                   *)
ProgramIsWhole == \E f \in Firmware : program = Image(f)

(* The node runs the firmware it tells the controller it has, so that it is *)
(* offered the right updates, unless power was lost between the writes of   *)
(* the signature and of the EEPROM.                                         *)
RunsWhatItSays == ~torn => program = Image(savedFc)

(* Only an answer that could come late spoils an image: as long as every    *)
(* request of an update was sent with no earlier answer to come, each block *)
(* that was stored is the right one, however many exchanges were lost.      *)
UndisturbedImageIsRight ==
  fwUpdateOngoing /\ ~crossed =>
    \A p \in (fwBlock + 1)..Blocks[fc] : flash[p] = <<fc, p>>

(* An update never hangs: the node is done or gives up, so it can sleep     *)
(* again.                                                                   *)
UpdateEnds == fwUpdateOngoing ~> ~fwUpdateOngoing
===============================================================================
