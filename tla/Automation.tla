------------------------------ MODULE Automation ------------------------------
(***************************************************************************)
(* Rules: scripts that run when an object changes (app/Rule.cpp), with the  *)
(* objects their natives read (app/ScriptCore.cpp): the digital and analog  *)
(* pins as IOExpansion has read them last, and the sensors of MyGateway.    *)
(* What a script does with what it reads is its own matter: a script is the *)
(* set of objects it reads, and a run is what it has read.  Pins change at  *)
(* any time, also while a poll reads one after the other; the rules run     *)
(* inside the poll.  An operator named ...Fault is a slip that a property   *)
(* must catch, and no part of the next-state relation.                      *)
(***************************************************************************)
EXTENDS Integers, FiniteSets

CONSTANTS
  Digital, Analog, Sensors,   \* objects, the pins in the order they are read in
  RuleFile, TestRules,        \* rules: records of name, triggers and reads
  AnalogInterval,             \* FORCE_PUBLISH_ANALOG_IVL: 60 polls
  MaxMoves,                   \* bound: changes of pins and reports of sensors
  MaxCommands                 \* bound: calls of the rules command, and restarts

ASSUME AutomationAssumption ==
  /\ Digital \cup Analog \subseteq Nat \ {0} /\ AnalogInterval \in Nat \ {0}
  /\ Digital \cap Analog = {} /\ Sensors \cap (Digital \cup Analog) = {}

VARIABLES
  level,          \* what the pins read
  found,          \* mcp23017Present, pcf8591Present: expanders that answered at the start
  value,          \* DigitalPin::enabled, pcf8591Inputs, mySensors[].value
  nextPin,        \* the digital pin that is read next, 0 between two polls
  analogCount,    \* forcePublish of i2cCheckAnalogState
  rules,          \* RuleController::rules: the newest rule of each name
  triggers,       \* RuleController::triggers: pairs of an object and a rule
  rulesFile,      \* .rules.conf
  runs,           \* history: by name, what the last run of a script has read
  moves, commands

automationVars == <<level, found, value, nextPin, analogCount, rules, triggers, rulesFile,
                    runs, moves, commands>>
ruleVars == <<rules, triggers, rulesFile>>

Levels == {0, 1}
Pins == Digital \cup Analog
Names == {r.name : r \in RuleFile \cup TestRules}
First(S) == CHOOSE o \in S : \A p \in S : o <= p

(* Every rule is an object of its own: n counts the commands that made it.  *)
Triggering(file, n) ==
  UNION {{[object |-> t, rule |-> [name |-> r.name, reads |-> r.reads, made |-> n]] :
            t \in r.triggers} : r \in file}

Objects == Pins \cup Sensors

(* What a native returns for an object when these are the values: inputs of *)
(* an expander that was not found are off, analog ones 0.                   *)
getDigInput(values, o) == IF "MCP23017" \in found THEN values[o] ELSE 0
getResourceValue(values, o) == IF o \in Digital THEN getDigInput(values, o) ELSE values[o]
GetObjectValue(values, o) == IF o \in Pins THEN getResourceValue(values, o) ELSE values[o]

(* Whether an object runs a rule of this name that reads o.                 *)
Reads(name, object, o) ==
  \E t \in triggers : t.object = object /\ t.rule.name = name /\ o \in t.rule.reads

(* The rules that an object triggers, when objects have these values.       *)
processTrigger(object, values) ==
  [n \in Names |-> [o \in Objects |->
     IF Reads(n, object, o) THEN GetObjectValue(values, o) ELSE runs[n][o]]]

Expanders == {"MCP23017", "PCF8591"}

(* begin() looks for expanders, reads the digital pins and tells nobody.    *)
Begun(chips, lev, val) == [o \in Objects |-> IF o \in Digital /\ "MCP23017" \in chips THEN lev[o]
                                             ELSE IF o \in Pins THEN 0 ELSE val[o]]
Unmoved(val) == [n \in Names |-> val]

AutomationInit ==
  /\ level \in [Pins -> Levels] /\ found \in SUBSET Expanders
  /\ value = Begun(found, level, [o \in Objects |-> 0])
  /\ nextPin = 0 /\ analogCount = AnalogInterval
  /\ rulesFile = RuleFile /\ rules = RuleFile /\ triggers = Triggering(RuleFile, 0)
  /\ runs = Unmoved(value)
  /\ moves = 0 /\ commands = 0

-------------------------------------------------------------------------------
(* IOExpansion *)

StartDigitalPoll ==
  /\ "MCP23017" \in found
  /\ nextPin = 0 /\ nextPin' = First(Digital)
  /\ UNCHANGED <<level, found, value, analogCount, ruleVars, runs, moves, commands>>

PollPinFault ==   \* the value is cached when the change has been told
  /\ nextPin # 0
  /\ value' = [value EXCEPT ![nextPin] = level[nextPin]]
  /\ runs' = IF value' = value THEN runs ELSE processTrigger(nextPin, value)
  /\ LET later == {p \in Digital : p > nextPin} IN
     nextPin' = IF later = {} THEN 0 ELSE First(later)
  /\ UNCHANGED <<level, found, analogCount, ruleVars, moves, commands>>

PollPin ==
  /\ nextPin # 0
  /\ value' = [value EXCEPT ![nextPin] = level[nextPin]]
  /\ runs' = IF value' = value THEN runs ELSE processTrigger(nextPin, value')
  /\ LET later == {p \in Digital : p > nextPin} IN
     nextPin' = IF later = {} THEN 0 ELSE First(later)
  /\ UNCHANGED <<level, found, analogCount, ruleVars, moves, commands>>

(* The inputs of a chip are read together, then told one by one, each       *)
(* before it is cached: a script keeps what it has read at the last of them *)
(* that runs it.                                                            *)
PublishPcfInputs(told) ==
  [n \in Names |-> [o \in Objects |->
     LET readings == {p \in told : Reads(n, p, o)}
         last == CHOOSE p \in readings : \A q \in readings : q <= p IN
     IF readings = {} THEN runs[n][o]
     ELSE GetObjectValue([v \in Objects |-> IF v \in Analog /\ v < last THEN level[v] ELSE value[v]], o)]]

i2cCheckAnalogStateFault ==   \* the counter is never reloaded
  /\ nextPin = 0 /\ "PCF8591" \in found
  /\ value' = [o \in Objects |-> IF o \in Analog THEN level[o] ELSE value[o]]
  /\ runs' = PublishPcfInputs(IF analogCount = 1 THEN Analog ELSE {o \in Analog : value[o] # level[o]})
  /\ analogCount' = IF analogCount = 0 THEN 0 ELSE analogCount - 1
  /\ UNCHANGED <<level, found, nextPin, ruleVars, moves, commands>>

i2cCheckAnalogState ==
  /\ nextPin = 0 /\ "PCF8591" \in found
  /\ value' = [o \in Objects |-> IF o \in Analog THEN level[o] ELSE value[o]]
  /\ runs' = PublishPcfInputs(IF analogCount = 1 THEN Analog ELSE {o \in Analog : value[o] # level[o]})
  /\ analogCount' = IF analogCount = 1 THEN AnalogInterval ELSE analogCount - 1
  /\ UNCHANGED <<level, found, nextPin, ruleVars, moves, commands>>

-------------------------------------------------------------------------------
(* MyGateway stores what a sensor reports before its rules run.             *)

SensorReports(s) ==
  /\ nextPin = 0 /\ moves < MaxMoves /\ moves' = moves + 1
  /\ value' = [value EXCEPT ![s] = 1 - @]
  /\ runs' = processTrigger(s, value')
  /\ UNCHANGED <<level, found, nextPin, analogCount, ruleVars, commands>>

-------------------------------------------------------------------------------
(* RuleController *)

addRules(added) == rules' = added \cup {r \in rules : \A s \in added : s.name # r.name}
store == rulesFile' = rules'

(* The rules command: a rule of a name that is there replaces it in rules,  *)
(* and in what is stored, while the triggers keep the old one as well.      *)
processRules ==
  /\ nextPin = 0 /\ commands < MaxCommands /\ commands' = commands + 1
  /\ addRules(TestRules)
  /\ triggers' = triggers \cup Triggering(TestRules, commands')
  /\ store
  /\ runs' = [n \in Names |-> IF \E r \in TestRules : r.name = n THEN value ELSE runs[n]]
  /\ UNCHANGED <<level, found, value, nextPin, analogCount, moves>>

AutomationRestart ==
  /\ commands < MaxCommands /\ commands' = commands + 1
  /\ found' \in SUBSET Expanders /\ value' = Begun(found', level, value)
  /\ nextPin' = 0 /\ analogCount' = AnalogInterval
  /\ rules' = rulesFile /\ triggers' = Triggering(rulesFile, 0)
  /\ runs' = Unmoved(value')
  /\ UNCHANGED <<level, rulesFile, moves>>

PinMoves(p) ==
  /\ moves < MaxMoves /\ moves' = moves + 1
  /\ level' = [level EXCEPT ![p] = 1 - @]
  /\ UNCHANGED <<found, value, nextPin, analogCount, ruleVars, runs, commands>>

AutomationNext ==
  \/ StartDigitalPoll \/ PollPin \/ i2cCheckAnalogState
  \/ \E s \in Sensors : SensorReports(s)
  \/ processRules \/ AutomationRestart
  \/ \E p \in Pins : PinMoves(p)

(* The timers of both polls fire, and a poll reads all its pins.            *)
AutomationSpec ==
  /\ AutomationInit /\ [][AutomationNext]_automationVars
  /\ WF_automationVars(StartDigitalPoll) /\ WF_automationVars(PollPin)
  /\ SF_automationVars(i2cCheckAnalogState)

-------------------------------------------------------------------------------
(* Pairs of a rule and an object that triggers it and that it reads.        *)
Concerns == {c \in rules \X Objects : c[2] \in c[1].triggers \cap c[1].reads}

(* The last run of a rule has read the digital inputs and sensors that       *)
(* trigger it as they are known now, whichever of them changed first and    *)
(* however a poll, that may not be over, met the changes: no change since   *)
(* the start, or the rules command, is lost on a rule.                      *)
RulesAreUpToDate ==
  \A c \in Concerns : c[2] \notin Analog => runs[c[1].name][c[2]] = value[c[2]]

Polled(o) ==
  \/ o \in Digital /\ "MCP23017" \in found
  \/ o \in Analog /\ "PCF8591" \in found

(* When the pins of expanders that were found move no more, every rule has  *)
(* in the end read the values they have, the analog ones too: they are told *)
(* before they are cached, and told again, although unchanged, every so     *)
(* many polls.                                                              *)
RulesCatchUp ==
  <>[][UNCHANGED <<level, commands>>]_<<level, commands>>
    => <>[](\A c \in Concerns : Polled(c[2]) => runs[c[1].name][c[2]] = level[c[2]])
================================================================================
