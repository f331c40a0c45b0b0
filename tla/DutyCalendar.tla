---------------------------- MODULE DutyCalendar ----------------------------
(***************************************************************************)
(* The dates of farmacias.service.ts: the local date and hour, the date    *)
(* whose pharmacy is on duty, which changes in the morning, and the        *)
(* addition of days to a date.  A date is a triple of year, month and day. *)
(* The clock goes hour by hour in UTC.                                     *)
(***************************************************************************)
EXTENDS Integers

CONSTANTS
  Starts,      \* dates at which the clock may start
  RawHours,    \* values of FARMACIAS_DUTY_CHANGE_HOUR: <<n>>, or << >> for none
  Behind,      \* hours the zone is behind UTC (3 in the code, and no change of hour)
  Hours        \* bound: hours that pass

VARIABLES
  start,   \* the date of the start
  utc,     \* the date in UTC
  hour,    \* the hour in UTC
  raw,     \* the configured hour
  passed,  \* hours since the start
  changed  \* ghost: the hour in which the duty last changed, -1 before
vars == <<start, utc, hour, raw, passed, changed>>

Leap(y) == y % 4 = 0 /\ (y % 100 # 0 \/ y % 400 = 0)
DaysIn(y, m) == CASE m = 2 -> IF Leap(y) THEN 29 ELSE 28
                  [] m \in {4, 6, 9, 11} -> 30
                  [] OTHER -> 31
\* The dates of the calendar.
IsDate(d) == d[2] \in 1..12 /\ d[3] \in 1..DaysIn(d[1], d[2])

DutyCalendarAssumption == Behind \in 0..23 /\ Hours \in Nat
StartsAssumption == \A d \in Starts : d \in Int \X Int \X Int /\ IsDate(d)

\* Date.UTC(y, m - 1, d) for a day at most a month before or after the month m.
DateUTC(y, m, d) ==
  IF d < 1 THEN LET before == IF m = 1 THEN <<y - 1, 12>> ELSE <<y, m - 1>>
                IN <<before[1], before[2], DaysIn(before[1], before[2]) + d>>
  ELSE IF d > DaysIn(y, m) THEN <<IF m = 12 THEN y + 1 ELSE y, (m % 12) + 1, d - DaysIn(y, m)>>
  ELSE <<y, m, d>>

AddDaysToISODate(date, n) == DateUTC(date[1], date[2], date[3] + n)

\* getHourInTimeZone and toISODateOnlyInTimeZone.
LocalHour == (hour + 24 - Behind) % 24
\* Plausible bug: the date is taken in UTC, the hour in the zone.
LocalDateUtc == utc
LocalDate == IF hour < Behind THEN AddDaysToISODate(utc, -1) ELSE utc

\* resolveDutyChangeHour
DutyChangeHour == IF raw # << >> /\ raw[1] \in 0..23 THEN raw[1] ELSE 8

\* getCurrentDutyDateISO, and the dates of getCalendar.
DutyDate == IF LocalHour < DutyChangeHour THEN AddDaysToISODate(LocalDate, -1) ELSE LocalDate
Calendar == <<DutyDate, AddDaysToISODate(DutyDate, 1), AddDaysToISODate(DutyDate, 2)>>

----------------------------------------------------------------------------
Init ==
  /\ start \in Starts /\ utc = start /\ hour = 0 /\ raw \in RawHours
  /\ passed = 0 /\ changed = -1

\* An hour passes; the day after a date is what the calendar says, not what the code adds.
NextHour ==
  /\ passed < Hours /\ passed' = passed + 1 /\ hour' = (hour + 1) % 24
  /\ utc' = IF hour < 23 THEN utc
            ELSE IF utc[3] < DaysIn(utc[1], utc[2]) THEN [utc EXCEPT ![3] = @ + 1]
            ELSE IF utc[2] < 12 THEN <<utc[1], utc[2] + 1, 1>> ELSE <<utc[1] + 1, 1, 1>>
  /\ UNCHANGED <<start, raw>>
  /\ changed' = IF DutyDate' # DutyDate THEN passed' ELSE changed

Next == NextHour
Spec == Init /\ [][Next]_vars

----------------------------------------------------------------------------
(* Properties *)

\* Types; every date the code makes is a date of the calendar.
TypeOK ==
  /\ IsDate(utc) /\ hour \in 0..23 /\ passed \in 0..Hours /\ changed \in -1..Hours
  /\ \A i \in 1..3 : IsDate(Calendar[i])

\* The duty changes at the hour of change alone, in local time, and goes on to the date that
\* the calendar announced for the day after, which goes on to the one announced after it.
DutyFollowsCalendar ==
  [][DutyDate' # DutyDate => /\ LocalHour' = DutyChangeHour
                             /\ Calendar'[1] = Calendar[2] /\ Calendar'[2] = Calendar[3]]_vars

\* Each duty lasts a day: it does not change before 24 hours are over, and does then.
DutyLastsADay ==
  [][/\ changed' # changed /\ changed # -1 => changed' = changed + 24
     /\ changed # -1 => passed' - changed' < 24]_vars

=============================================================================
