------------------------------ MODULE IOExpansion ------------------------------
(***************************************************************************)
(* The pins of the I2C expanders (app/IOExpansion.cpp): the gateway polls  *)
(* them, keeps their values and hands on the ones that changed.  Analog    *)
(* inputs are handed on unchanged too, every now and then.  Setting an     *)
(* output is no part of this module: updateResource cuts outputD1 to D1,   *)
(* which it takes for the number 0, and no output has that number.         *)
(***************************************************************************)
EXTENDS Integers

CONSTANTS
  Digital, Analog,             \* pins of the expanders that were found
  FORCE_PUBLISH_ANALOG_IVL,    \* 60
  MaxChanges                   \* bound: changes of the pins

ASSUME ExpansionAssumption ==
  /\ Digital \cap Analog = {}
  /\ FORCE_PUBLISH_ANALOG_IVL \in Nat \ {0} /\ MaxChanges \in Nat

VARIABLES
  pins,           \* what the hardware reads
  cached,         \* DigitalPin::enabled, pcf8591Inputs
  forcePublish,
  changes         \* changes of the pins so far

ioVars == <<pins, cached, forcePublish, changes>>

Objects == Digital \cup Analog
Levels == {0, 1}

(* begin() caches the digital pins without telling anybody.                 *)
Cached(p) == [o \in Objects |-> IF o \in Digital THEN p[o] ELSE 0]

ExpansionInit ==
  /\ pins \in [Objects -> Levels]
  /\ cached = Cached(pins)
  /\ forcePublish = FORCE_PUBLISH_ANALOG_IVL
  /\ changes = 0

ExpansionRestart ==
  /\ cached' = Cached(pins)
  /\ forcePublish' = FORCE_PUBLISH_ANALOG_IVL
  /\ UNCHANGED <<pins, changes>>

Changed(objects) == {o \in objects : cached[o] # pins[o]}
Read(objects) == [o \in Objects |-> IF o \in objects THEN pins[o] ELSE cached[o]]

(* A poll; told are the objects changeDlg is called for.                    *)
i2cCheckDigitalState(told) ==
  /\ told = Changed(Digital)
  /\ cached' = Read(Digital)
  /\ UNCHANGED <<pins, forcePublish, changes>>

i2cCheckAnalogStateFault(told) ==   \* a slip to be caught: never reloaded
  /\ told = IF forcePublish = 1 THEN Analog ELSE Changed(Analog)
  /\ cached' = Read(Analog)
  /\ forcePublish' = IF forcePublish = 0 THEN 0 ELSE forcePublish - 1
  /\ UNCHANGED <<pins, changes>>

i2cCheckAnalogState(told) ==
  /\ told = IF forcePublish = 1 THEN Analog ELSE Changed(Analog)
  /\ cached' = Read(Analog)
  /\ forcePublish' = IF forcePublish = 1 THEN FORCE_PUBLISH_ANALOG_IVL ELSE forcePublish - 1
  /\ UNCHANGED <<pins, changes>>

PinChanges(o) ==
  /\ changes < MaxChanges /\ changes' = changes + 1
  /\ pins' = [pins EXCEPT ![o] = 1 - @]
  /\ UNCHANGED <<cached, forcePublish>>
================================================================================
