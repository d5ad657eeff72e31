------------------------------- MODULE NtpClient -------------------------------
(***************************************************************************)
(* The client that fetches the time (app/NtpClient.cpp), as NetworkClass   *)
(* creates it: without periodic queries.  A request is a name lookup and a *)
(* UDP exchange, either of which may fail; timers keep it alive.  The      *)
(* module that extends this one says when the station is online.           *)
(***************************************************************************)
EXTENDS Integers

CONSTANTS
  MaxLookups,   \* bound: lookups under way at the same time
  MaxAnswers    \* bound: requests whose answer may still come

ASSUME NtpAssumption == MaxLookups \in Nat \ {0} /\ MaxAnswers \in Nat \ {0}

VARIABLES
  connectionTimer,   \* started: requestTime is called when it fires
  timeoutTimer,      \* started: requestTime is called when it fires
  lookups,           \* lookups staticDnsResponse will be called for
  answers,           \* requests sent whose answer may still come
  clockSet,          \* the clock was set since the gateway started
  failure            \* history: what ended the last request, "none", "lookup"
                     \* or "answer"; "never" before the first one

ntpVars == <<connectionTimer, timeoutTimer, lookups, answers, clockSet, failure>>

NtpInit ==
  /\ connectionTimer = FALSE /\ timeoutTimer = FALSE
  /\ lookups = 0 /\ answers = 0
  /\ clockSet = FALSE
  /\ failure = "never"

NtpRestart ==
  /\ connectionTimer' = FALSE /\ timeoutTimer' = FALSE
  /\ lookups' = 0 /\ answers' = 0
  /\ clockSet' = FALSE
  /\ failure' = "never"

(* Sends the request and starts the timeout.                                *)
internalRequestTimeFault ==   \* a slip to be caught: no timeout is started
  /\ timeoutTimer' = FALSE
  /\ answers' = IF answers < MaxAnswers THEN answers + 1 ELSE answers
  /\ failure' = "none"

internalRequestTime ==
  /\ timeoutTimer' = TRUE
  /\ answers' = IF answers < MaxAnswers THEN answers + 1 ELSE answers
  /\ failure' = "none"

(* polling and timing: the two timers as the caller leaves them.            *)
requestTime(online, polling, timing) ==
  \/ /\ ~online
     /\ connectionTimer' = TRUE /\ timeoutTimer' = timing
     /\ failure' = "none"
     /\ UNCHANGED <<lookups, answers, clockSet>>
  \/ /\ online                              \* ERR_OK: the name is in the cache
     /\ internalRequestTime
     /\ connectionTimer' = polling
     /\ UNCHANGED <<lookups, clockSet>>
  \/ /\ online /\ lookups < MaxLookups      \* ERR_INPROGRESS
     /\ lookups' = lookups + 1
     /\ connectionTimer' = polling /\ timeoutTimer' = timing
     /\ failure' = "none"
     /\ UNCHANGED <<answers, clockSet>>
  \/ /\ online                              \* any other result: that was it
     /\ connectionTimer' = polling /\ timeoutTimer' = timing
     /\ failure' = "lookup"
     /\ UNCHANGED <<lookups, answers, clockSet>>

ConnectionTimerFires(online) == connectionTimer /\ requestTime(online, FALSE, timeoutTimer)

TimeoutTimerFires(online) == timeoutTimer /\ requestTime(online, connectionTimer, FALSE)

staticDnsResponse(found) ==
  /\ lookups > 0
  /\ lookups' = lookups - 1
  /\ IF found THEN internalRequestTime
              ELSE failure' = "lookup" /\ UNCHANGED <<timeoutTimer, answers>>
  /\ UNCHANGED <<connectionTimer, clockSet>>

(* Any packet stops the timeout; only a valid one sets the clock.           *)
onReceive(valid) ==
  /\ answers > 0
  /\ answers' = answers - 1
  /\ timeoutTimer' = FALSE
  /\ IF valid THEN clockSet' = TRUE /\ UNCHANGED failure
              ELSE failure' = "answer" /\ UNCHANGED clockSet
  /\ UNCHANGED <<connectionTimer, lookups>>

LoseAnswer ==
  /\ answers > 0
  /\ answers' = answers - 1
  /\ UNCHANGED <<connectionTimer, timeoutTimer, lookups, clockSet, failure>>

NtpNext(online) ==
  \/ ConnectionTimerFires(online)
  \/ TimeoutTimerFires(online)
  \/ \E b \in BOOLEAN : staticDnsResponse(b) \/ onReceive(b)
  \/ LoseAnswer

-------------------------------------------------------------------------------
NtpTypeOK ==
  /\ connectionTimer \in BOOLEAN /\ timeoutTimer \in BOOLEAN
  /\ lookups \in 0..MaxLookups /\ answers \in 0..MaxAnswers
  /\ clockSet \in BOOLEAN
  /\ failure \in {"never", "none", "lookup", "answer"}

(* Once the time was asked for, a timer or a lookup carries the request on  *)
(* until the clock is set, however the connection comes and goes and however *)
(* late answers cross newer requests; only a failed lookup or an unusable   *)
(* answer, which the code does not retry, end it.                           *)
RequestIsCarriedOn ==
  failure = "none" /\ ~clockSet => connectionTimer \/ timeoutTimer \/ lookups > 0
===============================================================================
