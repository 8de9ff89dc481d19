------------------------------ MODULE Calendar ------------------------------
(***************************************************************************)
(* Civil days in a time zone, as the alert windows are aligned to them     *)
(* (shared/alerts.ts).                                                     *)
(*                                                                         *)
(* A zone is what a formatter makes of it: how far it is ahead of UTC at   *)
(* each instant.  A civil date is the number of its day; the roll-over of  *)
(* months and years is left to Date.                                       *)
(***************************************************************************)
EXTENDS Integers

CONSTANTS
    Offset(_, _),   \* Offset(z, t): how far zone z is ahead of UTC at t
    Day,            \* units of time in a day
    Week,           \* days in a week
    Gap             \* MIDNIGHT_GAP_SEARCH_MS: how far a missing midnight is looked for

ASSUME CalendarAssumption == Day \in Nat \ {0} /\ Week \in Nat \ {0} /\ Gap \in Nat

CivilDateAt(t, z) == (t + Offset(z, t)) \div Day

(* The first instant whose date is d or later, by bisection: what is left  *)
(* of the search is an instant and the one it ends at.                     *)
Middle(span) == span[1] + ((span[2] - span[1]) \div 2)
Bisection(d, z) ==
    LET f[span \in Int \X Int] ==
            IF span[1] >= span[2] THEN span[1]
            ELSE IF CivilDateAt(Middle(span), z) < d THEN f[<<Middle(span) + 1, span[2]>>]
            ELSE f[<<span[1], Middle(span)>>]
    IN  f
Bisect(d, z, from, to) == Bisection(d, z)[<<from, to>>]

\* mutant of StartOfCivilDay: the offset is read once
OneOffsetPass(d, z) ==
    LET start == d * Day - Offset(z, d * Day)
    IN  IF CivilDateAt(start, z) >= d THEN start ELSE Bisect(d, z, start, start + Gap)

StartOfCivilDay(d, z) ==
    LET wall  == d * Day
        near  == wall - Offset(z, wall)
        start == wall - Offset(z, near)
    IN  IF CivilDateAt(start, z) >= d THEN start ELSE Bisect(d, z, start, start + Gap)

(* windowBoundsAt: both ends from civil dates, so that a window across a   *)
(* transition has the length it really has.  A day is a week of one.       *)
DaysOf(window) == IF window = "day" THEN 1 ELSE Week
FirstDay(window, t, z) == CivilDateAt(t, z) - (CivilDateAt(t, z) % DaysOf(window))
NextDay(window, t, z) == FirstDay(window, t, z) + DaysOf(window)
WindowBoundsAt(window, t, z) ==
    [start |-> StartOfCivilDay(FirstDay(window, t, z), z),
     end |-> StartOfCivilDay(NextDay(window, t, z), z)]

-----------------------------------------------------------------------------
(* A zone around the start of day d: it is never more than a day from UTC, *)
(* changes once at the most and by no more than the gap that is searched,  *)
(* and if, east of Greenwich, it then skips midnight, it skips from        *)
(* midnight on.                                                            *)
Around(d) == (d - 1) * Day .. (d + 1) * Day + Gap
Steady(d, z) ==
    LET midnight == d * Day
        earlier  == Offset(z, (d - 1) * Day)
        later    == Offset(z, (d + 1) * Day + Gap)
    IN  /\ {earlier, later} \subseteq (-Day) .. Day /\ later - earlier \in (-Gap) .. Gap
        /\ \E change \in Around(d) :
              /\ \A t \in Around(d) : Offset(z, t) = IF t < change THEN earlier ELSE later
              /\ change <= midnight /\ change + earlier < midnight => change + later <= midnight

(* The clock comes to a midnight twice within a day of t.                  *)
MidnightRepeated(t, z) ==
    \E i, j \in (t - Day) .. (t + Day) :
        /\ i < j /\ i + Offset(z, i) = j + Offset(z, j) /\ (i + Offset(z, i)) % Day = 0
=============================================================================
