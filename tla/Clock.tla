--------------------------------- MODULE Clock ---------------------------------
(***************************************************************************)
(* The real time clock: app/RTClock.cpp with the drivers of its two chips,  *)
(* libraries/RTC/Sodaq_DS3231.cpp and RTClib.cpp.  The chip keeps a date in *)
(* registers, in BCD, across restarts; the drivers turn it into seconds and *)
(* back.  Seconds count from the first one of 2000: EPOCH_TIME_OFF, which   *)
(* both drivers subtract and add again, is left out.  NTP tells no time     *)
(* before that.  The chip and the system clock are external.  An operator   *)
(* named ...Fault is a slip that a property must catch.                     *)
(***************************************************************************)
EXTENDS Integers

CONSTANTS
  NtpTimes,    \* the times that NTP tells
  MaxTicks     \* bound: seconds that pass

(* MyDateTime takes a long: until January 2068 no width in the code matters. *)
(* With the passing of a second the chip may be put forward by 23 hours.     *)
LONG_MAX == 2147483647
ASSUME ClockAssumption ==
  /\ NtpTimes \subseteq Nat /\ MaxTicks \in Nat
  /\ \A t \in NtpTimes : t <= LONG_MAX - 86400 * MaxTicks

VARIABLES
  rtcType,     \* RTC_TYPE of the build, "none" when no chip answers
  registers,   \* of the chip
  RTCFound,
  systemTime,  \* of SystemClock, -1 when nobody has set it
  starting,    \* what begin does next: write the "hour", read the "time", or "nothing"
  hrReg,       \* the hour register as begin has read it
  slips,       \* history: seconds the system clock has missed since it was set
  readAt,      \* history: the time it was when begin read the hour
  putOn,       \* history: seconds that begin has put the chip on since NTP set it
  trueTime,    \* history: the time it is, -1 until NTP tells it
  ticks

clockVars ==
  <<rtcType, registers, RTCFound, systemTime, starting, hrReg, slips, readAt, putOn,
    trueTime, ticks>>

daysInMonth == <<31, 28, 31, 30, 31, 30, 31, 31, 30, 31, 30, 31>>
Until[m \in 1..12] == IF m = 1 THEN 0 ELSE Until[m - 1] + daysInMonth[m - 1]

date2daysFault(y, m, d) ==   \* the leap day counts from its month on
  d + Until[m] + (IF m >= 2 /\ y % 4 = 0 THEN 1 ELSE 0) + (365 * y) + ((y + 3) \div 4) - 1

date2days(y, m, d) ==
  d + Until[m] + (IF m > 2 /\ y % 4 = 0 THEN 1 ELSE 0) + (365 * y) + ((y + 3) \div 4) - 1

time2long(days, h, m, s) == ((((days * 24) + h) * 60) + m) * 60 + s

(* The years, then the months, are taken off the days one by one.           *)
YearDays(y) == IF y % 4 = 0 THEN 366 ELSE 365
Offset[p \in Nat \X Nat] ==      \* a year, and the days from its first on
  IF p[2] < YearDays(p[1]) THEN p ELSE Offset[<<p[1] + 1, p[2] - YearDays(p[1])>>]
MonthDays(y, m) == daysInMonth[m] + (IF y % 4 = 0 /\ m = 2 THEN 1 ELSE 0)
Month[p \in Nat \X (1..12) \X Nat] ==   \* December is the last: no day is left for another
  IF p[2] = 12 \/ p[3] < MonthDays(p[1], p[2]) THEN <<p[2], p[3] + 1>>
  ELSE Month[<<p[1], p[2] + 1, p[3] - MonthDays(p[1], p[2])>>]

MyDateTime(t) ==
  LET year == Offset[<<0, t \div 86400>>]
      day == Month[<<year[1], 1, year[2]>>]
  IN [ss |-> t % 60, mm |-> (t \div 60) % 60, hh |-> (t \div 3600) % 24,
      d |-> day[2], m |-> day[1], y |-> year[1]]

get(dt) == time2long(date2days(dt.y, dt.m, dt.d), dt.hh, dt.mm, dt.ss)

(* RTClib has copies of these.                                              *)
MyDateTime2(t) == MyDateTime(t)
unixtime(dt) == get(dt)

bcd2bin(val) == val - 6 * (val \div 16)
bin2bcd(val) == val + 6 * (val \div 10)
Encoded(dt) == [f \in DOMAIN dt |-> bin2bcd(dt[f])]
Decoded(regs) == [f \in DOMAIN regs |-> bcd2bin(regs[f])]

(* The bits of the hour that make it a twelve hour clock are masked.        *)
Bit6Cleared(hour) == IF (hour \div 64) % 2 = 1 THEN hour - 64 ELSE hour
setMyDateTime(dt) == Encoded([dt EXCEPT !.hh = Bit6Cleared(@)])
adjust(dt) == Encoded(dt)
NowDS3231(regs) == Decoded([regs EXCEPT !.hh = @ % 64])
NowDS1307(regs) == Decoded([regs EXCEPT !.ss = @ % 128])

setTime(ts) ==
  IF ~RTCFound THEN registers
  ELSE IF rtcType = "DS3231" THEN setMyDateTime(MyDateTime(ts)) ELSE adjust(MyDateTime2(ts))
getTime(regs) ==
  IF rtcType = "DS3231" THEN get(NowDS3231(regs)) ELSE unixtime(NowDS1307(regs))

ClockInit ==
  /\ rtcType \in {"DS3231", "DS1307", "none"}
  /\ registers = Encoded(MyDateTime(0))
  /\ RTCFound = (rtcType # "none") /\ systemTime = (IF RTCFound THEN 0 ELSE -1)
  /\ starting = "nothing" /\ hrReg = 0
  /\ slips = 0 /\ readAt = 0 /\ putOn = 0 /\ trueTime = -1 /\ ticks = 0

(* The gateway restarts, and asks the chip.  To make it a 24 hour clock, the *)
(* driver of the DS3231 reads the hour register in one transaction and       *)
(* writes it back in another; the chip goes on counting in between.          *)
ClockBegin ==
  /\ RTCFound' = (rtcType # "none")
  /\ starting' = CASE rtcType = "DS3231" -> "hour"
                   [] rtcType = "DS1307" -> "time"
                   [] rtcType = "none"   -> "nothing"
  /\ hrReg' = IF rtcType = "DS3231" THEN Bit6Cleared(registers.hh) ELSE 0
  /\ systemTime' = -1 /\ slips' = 0 /\ readAt' = trueTime
  /\ UNCHANGED <<rtcType, registers, putOn, trueTime, ticks>>

HourOf(t) == (t \div 3600) % 24
HourWritten ==
  /\ starting = "hour" /\ starting' = "time"
  /\ registers' = [registers EXCEPT !.hh = hrReg]
  /\ putOn' = putOn + 3600 * (HourOf(readAt + putOn) - HourOf(trueTime + putOn))
  /\ UNCHANGED <<rtcType, RTCFound, systemTime, hrReg, slips, readAt, trueTime, ticks>>

TimeRead ==
  /\ starting = "time" /\ starting' = "nothing"
  /\ systemTime' = getTime(registers) /\ hrReg' = 0 /\ slips' = 0 /\ readAt' = 0
  /\ UNCHANGED <<rtcType, registers, RTCFound, putOn, trueTime, ticks>>

(* Every minute; what else calls the clock waits until begin has returned.  *)
ClockCheckState ==
  /\ RTCFound /\ starting = "nothing"
  /\ systemTime' = getTime(registers) /\ slips' = 0
  /\ UNCHANGED <<rtcType, registers, RTCFound, starting, hrReg, readAt, putOn, trueTime, ticks>>

ntpTimeResultHandler(ntpTime) ==
  /\ starting = "nothing"
  /\ trueTime \in {-1, ntpTime}
  /\ systemTime' = ntpTime /\ slips' = 0 /\ putOn' = 0 /\ trueTime' = ntpTime
  /\ registers' = setTime(ntpTime)
  /\ UNCHANGED <<rtcType, RTCFound, starting, hrReg, readAt, ticks>>

(* External: a second passes, in the chip and, mostly, in the system clock. *)
NextSecond(dt) ==
  LET day == dt.ss = 59 /\ dt.mm = 59 /\ dt.hh = 23
      month == day /\ dt.d = MonthDays(dt.y, dt.m)
  IN [ss |-> (dt.ss + 1) % 60,
      mm |-> IF dt.ss = 59 THEN (dt.mm + 1) % 60 ELSE dt.mm,
      hh |-> IF dt.ss = 59 /\ dt.mm = 59 THEN (dt.hh + 1) % 24 ELSE dt.hh,
      d |-> IF month THEN 1 ELSE IF day THEN dt.d + 1 ELSE dt.d,
      m |-> IF month THEN (dt.m % 12) + 1 ELSE dt.m,
      y |-> IF month /\ dt.m = 12 THEN dt.y + 1 ELSE dt.y]

Tick ==
  /\ trueTime # -1 /\ ticks < MaxTicks /\ ticks' = ticks + 1
  /\ trueTime' = trueTime + 1
  /\ registers' = Encoded(NextSecond(Decoded(registers)))
  /\ \E slip \in {0, 1} :
       /\ systemTime' = IF systemTime = -1 THEN -1 ELSE systemTime + 1 - slip
       /\ slips' = slips + slip
  /\ UNCHANGED <<rtcType, RTCFound, starting, hrReg, readAt, putOn>>

ClockNext ==
  \/ ClockBegin \/ HourWritten \/ TimeRead \/ ClockCheckState \/ Tick
  \/ \E t \in NtpTimes : ntpTimeResultHandler(t)

ClockSpec == ClockInit /\ [][ClockNext]_clockVars

(* Once NTP has told the time, the chip keeps it, over the ends of months   *)
(* and years and over restarts, and the system clock has it from there,     *)
(* but for what it has missed since the last check.  Only a start that      *)
(* writes back an hour which has ended meanwhile puts the chip off, by that *)
(* hour or, at midnight, by a day less an hour, until NTP sets it again.    *)
ClockKeepsTime ==
  trueTime # -1 /\ RTCFound =>
    /\ getTime(registers) = trueTime + putOn
    /\ starting = "nothing" => systemTime + slips = trueTime + putOn

(* "set the clock to 24hr format" (Sodaq_DS3231.cpp:192): a start does not  *)
(* change the time.  It does when the hour ends between the two accesses.   *)
StartKeepsTime == putOn = 0
================================================================================
