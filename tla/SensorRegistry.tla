---------------------------- MODULE SensorRegistry ----------------------------
(***************************************************************************)
(* What the gateway promises about node ids and sensors, whatever table,   *)
(* flags and file it keeps them in: an id is given away only while nobody  *)
(* is known to use it, a sensor is registered at most once and never       *)
(* beyond the capacity, and a reboot brings back what was last saved.      *)
(* MyGateway is shown to implement this module.                            *)
(***************************************************************************)
EXTENDS Integers, FiniteSets

CONSTANTS
  Pool,       \* the ids that may be given to nodes that ask for one
  Sensors,    \* <<node, child>> pairs that may report
  Capacity    \* the number of sensors the gateway can hold

VARIABLES
  known,        \* node ids that are in use, as far as the gateway knows
  registered,   \* the sensors it holds
  saved         \* the sensors a reboot brings back

vars == <<known, registered, saved>>

NodesOf(S) == {k[1] : k \in S}

Init ==
  /\ known = {}
  /\ registered = {}
  /\ saved = {}

(* A message shows that node n exists. *)
Hear(n) ==
  /\ known' = known \cup {n}
  /\ UNCHANGED <<registered, saved>>

(* A node without an id is given one that is not in use. *)
Give(n) ==
  /\ n \in Pool \ known
  /\ known' = known \cup {n}
  /\ UNCHANGED <<registered, saved>>

(* A sensor reports for the first time. *)
Register(k) ==
  /\ k \notin registered
  /\ Cardinality(registered) < Capacity
  /\ registered' = registered \cup {k}
  /\ saved' = registered'
  /\ known' = known \cup {k[1]}

(* A user removes a sensor; what a reboot brings back does not change. *)
Unregister(k) ==
  /\ registered' = registered \ {k}
  /\ UNCHANGED <<known, saved>>

Reboot ==
  /\ registered' = saved
  /\ known' = NodesOf(saved)
  /\ UNCHANGED saved

(* Power is lost while the sensors are being saved. *)
RebootEmpty ==
  /\ registered' = {}
  /\ known' = {}
  /\ saved' = {}

Next ==
  \/ \E n \in NodesOf(Sensors) : Hear(n)
  \/ \E n \in Pool : Give(n)
  \/ \E k \in Sensors : Register(k) \/ Unregister(k)
  \/ Reboot
  \/ RebootEmpty

Spec == Init /\ [][Next]_vars
===============================================================================
