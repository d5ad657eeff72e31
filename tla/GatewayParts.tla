----------------------------- MODULE GatewayParts -----------------------------
(***************************************************************************)
(* Parts of the gateway that share no state: the network with its clock    *)
(* (Network), the update of the gateway itself (Ota), the driver of the    *)
(* crypto chip (Atsha204), the OpenHAB controller (OpenHab), the rules      *)
(* (Automation) and what web pages show (MyStatus).  A behaviour picks one *)
(* of them at the start, is one of its behaviours from then on, and leaves *)
(* the others as they are after a start.                                   *)
(***************************************************************************)
EXTENDS Network, Ota, Atsha204, OpenHab, Automation, MyStatus

VARIABLE part   \* the part this behaviour is about

partVars == <<part, networkVars, otaVars, chipVars, openHabVars, automationVars, myStatusVars>>

SomeMqttSettings ==
  {[server |-> "a", sensorPfx |-> <<"out">>, controllerPfx |-> <<"gw", "in">>],
   [server |-> "b", sensorPfx |-> <<"">>, controllerPfx |-> <<"">>],
   [server |-> "", sensorPfx |-> <<"out">>, controllerPfx |-> <<"in">>]}

StoredRules ==
  {[name |-> "both", triggers |-> {1, 2}, reads |-> {1, 2}],
   [name |-> "analog", triggers |-> {11}, reads |-> {11}],
   [name |-> "sensor1", triggers |-> {1, 21}, reads |-> {11, 21}]}
CommandRules == {[name |-> "sensor1", triggers |-> {21}, reads |-> {21}]}

Init ==
  /\ part \in {"network", "update", "chip", "openhab", "rules", "status"}
  /\ NetworkInit /\ (part # "network" => apMode = "always" /\ ssid)
  /\ OtaInit
  /\ ChipInit
  /\ OpenHabInit
  /\ MyStatusInit
  /\ AutomationInit /\ (part # "rules" => found = {} /\ \A p \in Pins : level[p] = 0)

Next ==
  /\ UNCHANGED part
  /\ \/ /\ part = "network" /\ NetworkNext
        /\ UNCHANGED <<otaVars, chipVars, openHabVars, automationVars, myStatusVars>>
     \/ /\ part = "update" /\ OtaNext
        /\ UNCHANGED <<networkVars, chipVars, openHabVars, automationVars, myStatusVars>>
     \/ /\ part = "chip" /\ ChipNext
        /\ UNCHANGED <<networkVars, otaVars, openHabVars, automationVars, myStatusVars>>
     \/ /\ part = "openhab" /\ OpenHabNext
        /\ UNCHANGED <<networkVars, otaVars, chipVars, automationVars, myStatusVars>>
     \/ /\ part = "rules" /\ AutomationNext
        /\ UNCHANGED <<networkVars, otaVars, chipVars, openHabVars, myStatusVars>>
     \/ /\ part = "status" /\ MyStatusNext
        /\ UNCHANGED <<networkVars, otaVars, chipVars, openHabVars, automationVars>>

(* The fairness of each part, while the behaviour is about it.              *)
Does(p, A) == part = p /\ A

Spec ==
  /\ Init /\ [][Next]_partVars
  /\ WF_networkVars(Does("network", connect)) /\ WF_networkVars(Does("network", Leaves))
  /\ SF_networkVars(Does("network", Connected)) /\ SF_networkVars(Does("network", GetsIp))
  /\ WF_networkVars(Does("network", ClockAsked)) /\ WF_networkVars(Does("network", ClockRetried))
  /\ WF_networkVars(Does("network", LookedUp)) /\ SF_networkVars(Does("network", ClockAnswered))
  /\ WF_otaVars(Does("update", otaUpdateHandler))
  /\ WF_otaVars(Does("update", DownloadGoesOn))
  /\ WF_chipVars(Does("chip", DriverRuns))
  /\ WF_openHabVars(Does("openhab", checkConnection)) /\ WF_openHabVars(Does("openhab", ConnectFails))
  /\ SF_openHabVars(Does("openhab", Connects))
  /\ WF_automationVars(Does("rules", StartDigitalPoll)) /\ WF_automationVars(Does("rules", PollPin))
  /\ SF_automationVars(Does("rules", i2cCheckAnalogState))

-------------------------------------------------------------------------------
(* The liveness of each part, in the behaviours that are about it.          *)

(* A gateway with a network to connect to comes online (Network).           *)
NetworkComesOnline == part = "network" => ComesOnline

(* A gateway that stays online learns the time (Network, NtpClient).        *)
NetworkClockGetsSet == part = "network" => ClockGetsSet

(* Downloads that fail are given up (Ota).                                  *)
OtaUpdateEnds == part = "update" => UpdateEnds

(* Every start of the crypto chip comes to an end (Atsha204).               *)
ChipStartEnds == part = "chip" => StartEnds

(* The settings of the OpenHAB controller come into use (OpenHab).          *)
OpenHabSettingsGetUsed == part = "openhab" => SettingsGetUsed

(* Rules learn the values of pins that move no more (Automation).           *)
AutomationRulesCatchUp == part = "rules" => RulesCatchUp
================================================================================
