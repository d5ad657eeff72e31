------------------------------- MODULE Libraries -------------------------------
(***************************************************************************)
(* Libraries that the gateway is built from and that share no state: the   *)
(* SD card (SdCard), the frames of the wired network in both directions    *)
(* (WiredInput, WiredOutput), the interpreter of scripts (TinyJS, Scripts), *)
(* the real time clock (Clock) and the routes of MySensors (Routes).  A     *)
(* behaviour picks one of them at the start, is one of its behaviours from  *)
(* then on, and leaves the others as they are after a start.                *)
(***************************************************************************)
EXTENDS SdCard, WiredInput, WiredOutput, Scripts, Clock, Routes

VARIABLE library   \* the library this behaviour is about

librariesVars ==
  <<library, sdVars, wiredInputVars, wiredOutputVars, scriptVars, clockVars, routeVars>>

(* Frames of one pbuf, short and long, of two and of three.                 *)
SomeChains == {<<1>>, <<3>>, <<1, 2>>, <<1, 1, 1>>}
SomeValues == [sensor1 |-> 7]
(* The last seconds of the days of 2000 and 2001, and of 2024, and a second  *)
(* of 2001 that NTP may tell when the chip has got there.                    *)
SomeTimes == {(86400 * d) - 1 : d \in (1..735) \cup (8766..9140)} \cup {(86400 * 366) + 1}
(* Three devices, the last of them one or two repeaters away.               *)
StarParents == [s \in {0, 1, 2, 3} |-> IF s = 3 THEN 1 ELSE 0]
SomeParents == {StarParents, [StarParents EXCEPT ![2] = 1, ![3] = 2]}

Init ==
  /\ library \in {"sd", "input", "output", "scripts", "clock", "routes"}
  /\ SdInit
  /\ WiredInputInit /\ (library # "input" => shield = "W5100")
  /\ WiredOutputInit /\ (library # "output" => board = "W5100")
  /\ ScriptsInit /\ (library # "scripts" => meant.globals = [x |-> 2, y |-> 0])
  /\ ClockInit /\ (library # "clock" => rtcType = "none")
  /\ RoutesInit /\ (library # "routes" => parent = StarParents)

Next ==
  /\ UNCHANGED library
  /\ \/ /\ library = "sd" /\ SdNext
        /\ UNCHANGED <<wiredInputVars, wiredOutputVars, scriptVars, clockVars, routeVars>>
     \/ /\ library = "input" /\ WiredInputNext
        /\ UNCHANGED <<sdVars, wiredOutputVars, scriptVars, clockVars, routeVars>>
     \/ /\ library = "output" /\ WiredOutputNext
        /\ UNCHANGED <<sdVars, wiredInputVars, scriptVars, clockVars, routeVars>>
     \/ /\ library = "scripts" /\ ScriptsNext
        /\ UNCHANGED <<sdVars, wiredInputVars, wiredOutputVars, clockVars, routeVars>>
     \/ /\ library = "clock" /\ ClockNext
        /\ UNCHANGED <<sdVars, wiredInputVars, wiredOutputVars, scriptVars, routeVars>>
     \/ /\ library = "routes" /\ RoutesNext
        /\ UNCHANGED <<sdVars, wiredInputVars, wiredOutputVars, scriptVars, clockVars>>

Spec == Init /\ [][Next]_librariesVars
================================================================================
