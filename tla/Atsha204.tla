------------------------------- MODULE Atsha204 -------------------------------
(***************************************************************************)
(* The driver of the ATSHA204 signing chip (libraries/MySensors/           *)
(* ATSHA204.cpp, the build for I2C) and personalize, which MyGateway::begin *)
(* runs at every start: it writes the configuration of the chip, locks it   *)
(* for good and stores the key.                                            *)
(*                                                                         *)
(* A call of the chip is sha204c_send_and_receive: two nested loops of      *)
(* retries.  Send and Poll are one pass of the outer and of the inner loop. *)
(* The chip and the bus are external: a command may not arrive, or arrive   *)
(* broken; an answer may be lost or come broken.                            *)
(***************************************************************************)
EXTENDS Naturals, FiniteSets

CONSTANTS
  Words,              \* words of the configuration, 1..Words
  Written,            \* those that personalize writes, the others it reads
  SHA204_RETRY_COUNT,
  Removable,          \* whether the chip may stop answering for good
  MaxFaults           \* bound: exchanges that go wrong

ASSUME AtshaAssumption ==
  /\ Words \in Nat \ {0} /\ Written \subseteq 1..Words
  /\ {SHA204_RETRY_COUNT, MaxFaults} \subseteq Nat
  /\ Removable \in BOOLEAN

VARIABLES
  chip,       \* what the chip keeps, and the answer it holds
  step, word, \* the call of personalize that is under way
  lockConfig, \* what personalize takes for the lock byte: 0 is locked
  crc,        \* the checksum of the configuration: the number of words in it
  call,       \* locals of sha204c_send_and_receive
  faults,
  clean,      \* history: nothing has gone wrong since the start
  deceived    \* history: a call reported a success the chip knows nothing of

chipVars == <<chip, step, word, lockConfig, crc, call, faults, clean, deceived>>

UNLOCKED == 85
NoAnswer == "none"
NewCall == [at |-> "send", n_retries_send |-> SHA204_RETRY_COUNT + 1,
            n_retries_receive |-> 0, done |-> FALSE]

ChipInit ==
  /\ chip = [present |-> TRUE, set |-> {}, locked |-> FALSE, key |-> FALSE, answer |-> NoAnswer]
  /\ step = "rev" /\ word = 1 /\ lockConfig = 0 /\ crc = 0
  /\ call = NewCall
  /\ faults = 0 /\ clean = TRUE /\ deceived = FALSE

Ended == step \in {"complete", "halt"}

-------------------------------------------------------------------------------
(* The chip executes a command: "success", or "exec", an execution error.   *)

Stores(c, ok) == [c EXCEPT !.answer = IF ok THEN "success" ELSE "exec"]

(* The checksum that comes with the lock has to fit what the chip holds.    *)
ChecksumFitsFault(c) == TRUE   \* sent with LOCK_ZONE_NO_CRC, as for the data zone
ChecksumFits(c) == c.set = Written /\ crc = Words

Executes(c) ==
  CASE step = "config" /\ word \in Written ->
         Stores(IF c.locked THEN c ELSE [c EXCEPT !.set = @ \cup {word}], ~c.locked)
    [] step = "lock" ->
         LET fits == ~c.locked /\ ChecksumFits(c) IN Stores([c EXCEPT !.locked = @ \/ fits], fits)
    [] step = "key" -> Stores([c EXCEPT !.key = @ \/ c.locked], c.locked)
    [] OTHER -> Stores(c, TRUE)

-------------------------------------------------------------------------------
(* personalize: what follows a call that has returned. *)

Goto(s, w) == step' = s /\ word' = w
StatusRead == IF chip.locked THEN 0 ELSE UNLOCKED

RevReturns(ok) == Goto("serial", 1) /\ UNCHANGED <<lockConfig, crc>>

(* getSerialNumber: three reads, the first that fails is the last.          *)
SerialReturns(ok) ==
  /\ IF ok /\ word < 3 THEN Goto("serial", word + 1) ELSE Goto("status", 1)
  /\ UNCHANGED <<lockConfig, crc>>

(* A status that cannot be read leaves the 0 it starts with: locked.        *)
StatusReturns(ok) ==
  /\ lockConfig' = IF ok THEN StatusRead ELSE lockConfig
  /\ Goto("dump", 1) /\ UNCHANGED crc

(* dump_configuration ends at the first read that fails.                    *)
DumpReturns(ok) ==
  /\ IF ok /\ word < Words THEN Goto("dump", word + 1)
     ELSE IF lockConfig # 0 THEN Goto("config", 1) ELSE Goto("dumpNew", 1)
  /\ UNCHANGED <<lockConfig, crc>>

calculateAndUpdateCrc(current) == current + 1

(* write_config_and_get_crc gives up at the first failure, with 0.          *)
ConfigReturns(ok) ==
  /\ IF ok /\ word < Words THEN Goto("config", word + 1) ELSE Goto("dumpNew", 1)
  /\ crc' = IF ok THEN calculateAndUpdateCrc(crc) ELSE 0
  /\ UNCHANGED lockConfig

DumpNewReturns(ok) ==
  /\ IF ok /\ word < Words THEN Goto("dumpNew", word + 1)
     ELSE IF lockConfig # 0 THEN Goto("lock", 1) ELSE Goto("key", 1)
  /\ UNCHANGED <<lockConfig, crc>>

LockReturns(ok) ==
  /\ IF ok THEN Goto("statusNew", 1) ELSE Goto("halt", 1)
  /\ UNCHANGED <<lockConfig, crc>>

StatusNewReturnsFault(ok) ==   \* the lock byte of the start goes on being used
  /\ IF ok /\ lockConfig = 0 THEN Goto("key", 1) ELSE Goto("complete", 1)
  /\ UNCHANGED <<lockConfig, crc>>

StatusNewReturns(ok) ==
  /\ IF ~ok THEN Goto("halt", 1)
     ELSE IF StatusRead = 0 THEN Goto("key", 1) ELSE Goto("complete", 1)
  /\ lockConfig' = IF ok THEN StatusRead ELSE lockConfig
  /\ UNCHANGED crc

(* write_key only prints that it failed.                                    *)
KeyReturns(ok) == Goto("complete", 1) /\ UNCHANGED <<lockConfig, crc>>

Returns(ret) ==
  LET ok == ret = "success" IN
  /\ call' = NewCall
  /\ deceived' = (deceived \/ (ok /\ ~call.done))
  /\ \/ step = "rev" /\ RevReturns(ok)
     \/ step = "serial" /\ SerialReturns(ok)
     \/ step = "status" /\ StatusReturns(ok)
     \/ step = "dump" /\ DumpReturns(ok)
     \/ step = "config" /\ ConfigReturns(ok)
     \/ step = "dumpNew" /\ DumpNewReturns(ok)
     \/ step = "lock" /\ LockReturns(ok)
     \/ step = "statusNew" /\ StatusNewReturns(ok)
     \/ step = "key" /\ KeyReturns(ok)

Stays == UNCHANGED <<step, word, lockConfig, crc, deceived>>

-------------------------------------------------------------------------------
(* sha204c_send_and_receive *)

GoesWrong == faults < MaxFaults /\ faults' = faults + 1 /\ clean' = FALSE
GoesWell == UNCHANGED <<faults, clean>>

(* The outer loop: another pass, or the call returns what it has.  On I2C   *)
(* sha204c_resync puts bytes into the buffer of Wire only and succeeds,     *)
(* whether there is a chip or not: a pass without an answer is given back   *)
(* to n_retries_send, and none of the returns for a dead chip is taken.     *)
NextPass(left, ret) ==
  IF left > 0
  THEN call' = [call EXCEPT !.at = "send", !.n_retries_send = left] /\ Stays
  ELSE Returns(ret)

Receiving(done) ==
  call' = [call EXCEPT !.at = "receive", !.n_retries_send = @ - 1,
                       !.n_retries_receive = SHA204_RETRY_COUNT + 1, !.done = @ \/ done]

Send ==
  /\ ~Ended /\ call.at = "send"
  /\ \/ /\ chip.present /\ GoesWell
        /\ chip' = Executes(chip) /\ Receiving(Executes(chip).answer = "success") /\ Stays
     \/ /\ ~chip.present /\ GoesWell /\ Receiving(FALSE) /\ Stays
        /\ chip' = [chip EXCEPT !.answer = NoAnswer]
     \/ /\ chip.present /\ GoesWrong /\ Receiving(FALSE) /\ Stays
        /\ \E heard \in {NoAnswer, "comm"} : chip' = [chip EXCEPT !.answer = heard]
     \/ /\ GoesWrong /\ NextPass(call.n_retries_send - 1, "COMM_FAIL")   \* Wire takes less than all
        /\ UNCHANGED chip

ReceiveAgain(ret) ==
  IF call.n_retries_receive > 1
  THEN call' = [call EXCEPT !.n_retries_receive = @ - 1] /\ Stays
  ELSE NextPass(call.n_retries_send, ret)

sha204c_check_crcFault(answer) == TRUE
sha204c_check_crc(answer) == answer # "broken"

(* On an execution error the call is over, the others go round again.       *)
ExamineFault(answer) ==   \* an execution error is one more reason to resend
  CASE ~sha204c_check_crc(answer) -> ReceiveAgain("BAD_CRC")
    [] answer \in {"comm", "exec"} -> call' = [call EXCEPT !.at = "send", !.n_retries_send = @ + 1] /\ Stays
    [] OTHER -> Returns("success")

Examine(answer) ==
  CASE ~sha204c_check_crc(answer) -> ReceiveAgain("BAD_CRC")
    [] answer = "comm" -> NextPass(call.n_retries_send, "STATUS_CRC")
    [] answer = "exec" -> Returns("CMD_FAIL")
    [] OTHER           -> Returns("success")

NoResponse == call' = [call EXCEPT !.at = "send", !.n_retries_send = @ + 1] /\ Stays

(* What the bus may make of an answer.                                      *)
sha204p_receive_response ==
  \/ chip.answer = NoAnswer /\ GoesWell /\ NoResponse
  \/ /\ chip.answer # NoAnswer /\ GoesWrong
     /\ NoResponse \/ ReceiveAgain("INVALID_SIZE") \/ Examine("broken")
  \/ chip.answer # NoAnswer /\ GoesWell /\ Examine(chip.answer)

Poll == ~Ended /\ call.at = "receive" /\ sha204p_receive_response /\ UNCHANGED chip

(* Power is lost, at any time: what the chip keeps stays.                   *)
ChipRestart ==
  /\ step # "rev"
  /\ step' = "rev" /\ word' = 1 /\ lockConfig' = 0 /\ crc' = 0 /\ call' = NewCall
  /\ chip' = [chip EXCEPT !.answer = NoAnswer]
  /\ clean' = TRUE
  /\ UNCHANGED <<faults, deceived>>

ChipDies ==
  /\ Removable /\ chip.present
  /\ chip' = [chip EXCEPT !.present = FALSE, !.answer = NoAnswer]
  /\ clean' = FALSE
  /\ UNCHANGED <<step, word, lockConfig, crc, call, faults, deceived>>

ChipNext == Send \/ Poll \/ ChipRestart \/ ChipDies

(* The driver is a loop that runs until it returns.                         *)
DriverRuns == Send \/ Poll

ChipSpec == ChipInit /\ [][ChipNext]_chipVars /\ WF_chipVars(DriverRuns)

-------------------------------------------------------------------------------
ChipTypeOK ==
  /\ chip.set \subseteq Written
  /\ word \in 1..(IF Words > 3 THEN Words ELSE 3)
  /\ call.n_retries_send \in 0..SHA204_RETRY_COUNT + 1

(* The lock cannot be undone: it only ever closes on the complete           *)
(* configuration, whatever was lost, repeated or cut off while writing it.  *)
LockedAsWanted == chip.locked => chip.set = Written

(* A start in which nothing goes wrong finishes what all the broken ones    *)
(* before it left undone: the chip is locked and holds the key.             *)
CleanStartCompletes ==
  Ended /\ clean /\ chip.present => step = "complete" /\ chip.locked /\ chip.key

(* A call reports success only if the chip has executed its command.        *)
SuccessMeansDone == ~deceived

(* personalize ends, and MyGateway::begin goes on to the radio, unless the  *)
(* chip stops answering: then it never does.                                *)
StartEnds == []<>Ended \/ []<>(step = "rev") \/ <>[]~chip.present

(* The comments in sha204c_send_and_receive say that the call returns when  *)
(* "the device seems to be dead in the water".                              *)
DeadChipIsNoticed == []<>(Ended \/ step = "rev")
================================================================================
