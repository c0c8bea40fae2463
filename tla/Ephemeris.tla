----------------------------- MODULE Ephemeris -----------------------------
(***************************************************************************)
(* The calendar of the ephemeris tools: the moon's quarters, the wheel of  *)
(* the year and the seven periods of a personal year, asked for one day or *)
(* for a range of days.                                                    *)
(*                                                                         *)
(* A date is a number of days since 1 January 2000, an instant a number of  *)
(* 28ths of a day: a period is 365.25 / 7 days, 1461 of them.  The sky (the *)
(* astro crate) is the mean motion of the moon with a sway of its quarters *)
(* about it, and the mean motion of the sun; dynamical time is universal   *)
(* time.  Years are those where every anniversary is a date.                *)
(***************************************************************************)
EXTENDS Integers, Sequences, FiniteSetsExt

CONSTANT Years  \* the calendar years that dates fall in

Distance(a, b) == IF a < b THEN b - a ELSE a - b

(* The calendar *)

IsLeapYear(y) == y % 4 = 0 /\ (y % 100 # 0 \/ y % 400 = 0)
DaysBefore == <<0, 31, 59, 90, 120, 151, 181, 212, 243, 273, 304, 334, 365>>
DaysIn(y, m) == DaysBefore[m + 1] - DaysBefore[m] + (IF m = 2 /\ IsLeapYear(y) THEN 1 ELSE 0)
Leaps(y) == (y - 1) \div 4 - (y - 1) \div 100 + (y - 1) \div 400 - 484
Date(y, m, d) == 365 * (y - 2000) + Leaps(y) + DaysBefore[m] + (IF m > 2 /\ IsLeapYear(y) THEN 1 ELSE 0) + d - 1
YearOf(date) == CHOOSE y \in Years : Date(y, 1, 1) <= date /\ date < Date(y + 1, 1, 1)
Midnight(date) == 28 * date

IsDate(raw) == Len(raw) = 3 /\ raw[2] \in 1..12 /\ raw[3] \in 1..DaysIn(raw[1], raw[2])

(* The moon: phases 0 to 3 are new, first quarter, full and last quarter.    *)

Synodic == 826856   \* thousandths of a 28th of a day
Lunation(sky, k, phase) == 156 + (Synodic * (4 * k + phase)) \div 4000 + sky[((4 * k + phase) % Len(sky)) + 1]

\* The library truncates the number of lunations of its anchor, here in halves.
Truncated(halves) == IF halves >= 0 THEN halves \div 2 ELSE -((-halves) \div 2)
TimeOfPhase(sky, halves, phase) == Lunation(sky, Truncated(halves), phase)
\* Mutant: the anchor is the middle after k for every k.
MutPhaseAtK(sky, k, phase) == TimeOfPhase(sky, 2 * k + 1, phase)

PhaseAtK(sky, k, phase) == TimeOfPhase(sky, IF k >= 0 THEN 2 * k + 1 ELSE 2 * k - 1, phase)

\* 12.3685 lunations a year since 2000, by the decimal year of the date.
LowerK(date, phase) ==
    LET year == YearOf(date)
        days == IF IsLeapYear(year) THEN 366 ELSE 365
        passed == days * (year - 2000) + date - Date(year, 1, 1) + 1
    IN (123685 * passed - 2500 * days * phase) \div (10000 * days)

NearestPhase(sky, date, phase) ==
    CHOOSE at \in {PhaseAtK(sky, LowerK(date, phase) + i, phase) : i \in 0..1} :
        \A i \in 0..1 : LET other == PhaseAtK(sky, LowerK(date, phase) + i, phase) IN
            Distance(at, Midnight(date)) <= Distance(other, Midnight(date))

\* The eight names in order, 0 new to 7 waning crescent, each an eighth of the cycle.
PhaseName(since) == ((16000 * since + Synodic) \div (2 * Synodic)) % 8

MoonPhase(sky, date, tolerance) ==
    LET nearest == NearestPhase(sky, date, 0)
        newMoon == IF nearest > Midnight(date) THEN nearest - Synodic \div 1000 ELSE nearest
    IN [name |-> PhaseName(Midnight(date) - newMoon),
        near |-> {p \in 0..3 : Distance(NearestPhase(sky, date, p), Midnight(date)) <= tolerance}]

MoonQuarters(sky, start, end, tolerance) ==
    LET upper == Midnight(end + 1) + tolerance
        Occurrences(p) == {PhaseAtK(sky, k, p) : k \in LowerK(start, p) - 2..upper \div 826 + 1}
    IN UNION {{[kind |-> "moon", what |-> p, at |-> at] :
                 at \in {o \in Occurrences(p) : Midnight(start) - tolerance <= o /\ o <= upper}} : p \in 0..3}

(* The wheel of the year *)

SolarEvent(year, i) == <<2220, 4817, 7440, 9955>>[i + 1] + (1022678 * (year - 2000)) \div 100
Checkpoint(year, i) == Midnight(<<Date(year, 2, 1), Date(year, 5, 1), Date(year, 8, 1), Date(year, 10, 31)>>[i + 1])
WheelName(position, hemisphere) == (position + (IF hemisphere = "southern" THEN 4 ELSE 0)) % 8
WheelOfYear(year, hemisphere) ==
    {[kind |-> "wheel", what |-> WheelName(position, hemisphere),
      at |-> IF position % 2 = 0 THEN Checkpoint(year, position \div 2) ELSE SolarEvent(year, position \div 2)] :
        position \in 0..7}
WheelPoints(start, end, hemisphere) ==
    {p \in UNION {WheelOfYear(y, hemisphere) : y \in YearOf(start)..YearOf(end)} :
        Midnight(start) <= p.at /\ p.at < Midnight(end + 1)}

(* The personal year: a birth date is its month and day.                     *)

Anniversary(birth, year) ==
    Date(year, birth[1], IF birth = <<2, 29>> /\ ~IsLeapYear(year) THEN 28 ELSE birth[2])
LastAnniversary(birth, date) ==
    IF Anniversary(birth, YearOf(date)) <= date THEN Anniversary(birth, YearOf(date)) ELSE Anniversary(birth, YearOf(date) - 1)
Period(birth, date, tolerance) ==
    LET since == Midnight(date - LastAnniversary(birth, date))
        i == Min({6, Max({0, since \div 1461})})
    IN [number |-> i + 1,
        transition |-> Distance(since, 1461 * i) <= tolerance \/ Distance(since, 1461 * (i + 1)) <= tolerance]

PeriodChanges(birth, start, end, tolerance) ==
    LET upper == Midnight(end + 1) + tolerance
        first == LastAnniversary(birth, start)
        anniversaries == {first} \cup {Anniversary(birth, y) : y \in {x \in Years : x > YearOf(first)}}
        Changes(a) == {[kind |-> "period", what |-> i + 1, at |-> Midnight(a) + 1461 * i] : i \in 0..6}
    IN {c \in UNION {Changes(a) : a \in {b \in anniversaries : Midnight(b) <= upper}} :
          Midnight(start) - tolerance <= c.at /\ c.at <= upper}

(* The tool calls *)

DefaultMoonTolerance == 14     \* 12 hours
DefaultPeriodTolerance == 56   \* 2 days

\* birth, hemisphere and config are "none" when they are left out; the events are a set,
\* the answer lists them by instant.
Boundaries(sky, raw) ==
    LET Of(field) == Date(field[1], field[2], field[3])
        moon == IF raw.config = "none" THEN DefaultMoonTolerance ELSE raw.config[1]
        period == IF raw.config = "none" THEN DefaultPeriodTolerance ELSE raw.config[2]
    IN IF ~(IsDate(raw.start) /\ IsDate(raw.end)) THEN "not a date"
       ELSE IF raw.birth # "none" /\ ~IsDate(raw.birth) THEN "not a date"
       ELSE IF Of(raw.start) > Of(raw.end) THEN "not a range"
       ELSE MoonQuarters(sky, Of(raw.start), Of(raw.end), moon)
            \cup (IF raw.hemisphere = "none" THEN {} ELSE WheelPoints(Of(raw.start), Of(raw.end), raw.hemisphere))
            \cup (IF raw.birth = "none" THEN {} ELSE PeriodChanges(<<raw.birth[2], raw.birth[3]>>, Of(raw.start), Of(raw.end), period))

(* What the calls owe each other *)

\* A quarter is the nearest of all, and gives the day its name.
QuarterIsNearest(sky, date) ==
    \A p \in 0..3 :
        /\ \A k \in LowerK(date, p) - 3..LowerK(date, p) + 3 :
              Distance(NearestPhase(sky, date, p), Midnight(date)) <= Distance(Lunation(sky, k, p), Midnight(date))
        /\ p \in MoonPhase(sky, date, DefaultMoonTolerance).near => MoonPhase(sky, date, DefaultMoonTolerance).name = 2 * p

\* A period begins on the day of its change, and on no other.
ChangesMakePeriods(birth, date) ==
    LET crossed == {c \in PeriodChanges(birth, date - 1, date, 0) : Midnight(date - 1) < c.at /\ c.at <= Midnight(date)}
        number == Period(birth, date, 0).number
    IN {c.what : c \in crossed} = IF Period(birth, date - 1, 0).number = number THEN {} ELSE {number}

\* What a day's own report is near to is among that day's boundaries.
NearIsReported(sky, birth, date, events) ==
    /\ \A p \in MoonPhase(sky, date, DefaultMoonTolerance).near : \E e \in events : e.kind = "moon" /\ e.what = p
    /\ Period(birth, date, DefaultPeriodTolerance).transition => \E e \in events : e.kind = "period"

=============================================================================
