---------------------------- MODULE MCEphemeris ----------------------------
(***************************************************************************)
(* Ephemeris over the days around the turn of 2000, where the lunations    *)
(* change sign, and the leap days of two years; birthdays on a leap day,   *)
(* at both ends of a year and within it.                                   *)
(***************************************************************************)
EXTENDS Integers, Sequences, FiniteSets

INSTANCE Ephemeris WITH Years <- 1997..2007

\* The sway of the quarters, up to two thirds of a day.
Sway == <<0, 18, -4, -18, 9>>
Births == {<<2, 29>>, <<1, 1>>, <<12, 31>>, <<7, 4>>}

RawOf(date) == LET y == YearOf(date)
                   m == CHOOSE n \in 1..12 : Date(y, n, 1) <= date /\ date < Date(y, n, 1) + DaysIn(y, n)
               IN <<y, m, date - Date(y, m, 1) + 1>>
Asked(start, end, birth, hemisphere, config) ==
    [start |-> RawOf(start), end |-> RawOf(end), birth |-> <<2000, birth[1], birth[2]>>, hemisphere |-> hemisphere, config |-> config]

Days == -20..20 \cup 55..65 \cup 420..428 \cup 1515..1525
Ranges == Days \X {0, 1} \cup {-370, 0, 58, 350, 1500} \X {40}
NotRaws == {<<2001, 2, 29>>, <<2000, 13, 1>>, <<2000, 4>>}

\* A birthday, a hemisphere and tolerances, of which each may be left out.
Callers == {<<<<2, 29>>, "northern", "none">>, <<<<1, 1>>, "southern", <<20, 90>>>>, <<<<12, 31>>, "none", <<0, 0>>>>}

\* A range has the events of its days; a wheel point has one day; the days' own reports agree.
HorizonIsItsDays(start, more) ==
    \A c \in Callers :
      LET Day(d) == Boundaries(Sway, Asked(d, d, c[1], c[2], c[3]))
      IN \A own \in {Day(start)} :
         /\ more > 0 => Boundaries(Sway, Asked(start, start + more, c[1], c[2], c[3])) = own \cup UNION {Day(d) : d \in start + 1..start + more}
         /\ more = 1 => {e \in own : e.kind = "wheel"} \cap Day(start + 1) = {}
         /\ c[3] = "none" => NearIsReported(Sway, c[1], start, own)

DaysAgree(start) ==
    /\ QuarterIsNearest(Sway, start)
    /\ \A birth \in Births : ChangesMakePeriods(birth, start)
    /\ \A bad \in NotRaws : Boundaries(<<0>>, [Asked(start, start, <<1, 1>>, "none", "none") EXCEPT !.end = bad]) = "not a date"

BoundariesAreTheDays(start, more) ==
    /\ more = 0 => DaysAgree(start)
    /\ HorizonIsItsDays(start, more)

=============================================================================
