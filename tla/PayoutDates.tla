----------------------------- MODULE PayoutDates -----------------------------
(***************************************************************************)
(* The date of the next payout that vendors and riders are shown, against  *)
(* the crons that pay them.  Douala is an hour ahead of UTC all year.  The *)
(* clock counts hours since a Sunday 00:00 UTC; minutes would change no    *)
(* comparison below.                                                       *)
(***************************************************************************)
EXTENDS Integers

CONSTANT Horizon  \* the hours the clock runs for (a model bound)

ASSUME HorizonAssumption == Horizon \in Nat

VARIABLES
    utc,       \* the hour
    payee,     \* VENDOR or RIDER
    seenAt,    \* when the payee last looked
    estimate,  \* the date shown then
    swept      \* when the payee's cron last ran

dateVars == <<utc, payee, seenAt, estimate, swept>>

Never == -1

DatesTypeOK ==
    /\ utc \in 0..Horizon /\ payee \in {"VENDOR", "RIDER"}
    /\ seenAt \in 0..Horizon \cup {Never}
    /\ estimate \in Int
    /\ swept \in 0..Horizon \cup {Never}

DatesInit ==
    /\ utc = 0 /\ payee \in {"VENDOR", "RIDER"}
    /\ seenAt = Never /\ estimate = Never /\ swept = Never

Douala(t) == t + 1
HourOf(wall) == wall % 24
DayOf(wall) == (wall \div 24) % 7                \* 0 is Sunday
Midnight(wall) == wall - HourOf(wall)

(* Mutant: Sunday after the sweep is still given today's date. *)
NextSundayAt02_Today(now) ==
    LET wall == Douala(now)
        daysAhead == (7 - DayOf(wall)) % 7
    IN Midnight(wall) + 24 * daysAhead + 2 - 1

(* nextSundayAt02DoualaUtc *)
NextSundayAt02(now) ==
    LET wall == Douala(now)
        daysAhead == IF DayOf(wall) = 0 /\ HourOf(wall) < 2 THEN 0 ELSE 7 - DayOf(wall)
    IN Midnight(wall) + 24 * daysAhead + 2 - 1

(* nextMorningAt06DoualaUtc *)
NextMorningAt06(now) ==
    LET wall == Douala(now)
        target == Midnight(wall) + 6
    IN (IF target <= wall THEN target + 24 ELSE target) - 1

(* "0 2 * * 0" and "0 6 * * *", Africa/Douala *)
CronIsDue(now) ==
    LET wall == Douala(now) IN
    \/ payee = "VENDOR" /\ DayOf(wall) = 0 /\ HourOf(wall) = 2
    \/ payee = "RIDER" /\ HourOf(wall) = 6

(* getVendorSelfView, getRiderSelfView, for a balance above zero. *)
LookAtBalance ==
    /\ seenAt' = utc
    /\ estimate' = IF payee = "VENDOR" THEN NextSundayAt02(utc) ELSE NextMorningAt06(utc)
    /\ UNCHANGED <<utc, payee, swept>>

(* The cron runs on the hour. *)
HourStrikes ==
    /\ utc < Horizon
    /\ utc' = utc + 1
    /\ swept' = IF CronIsDue(utc + 1) THEN utc + 1 ELSE swept
    /\ UNCHANGED <<payee, seenAt, estimate>>

DatesNext == LookAtBalance \/ HourStrikes

DatesSpec == DatesInit /\ [][DatesNext]_dateVars

-----------------------------------------------------------------------------
(* The date shown is that of the next sweep: none runs between the look    *)
(* and the date, and one runs on it.                                       *)
EstimateIsNextSweep ==
    seenAt # Never =>
        /\ seenAt < estimate
        /\ utc < estimate => swept <= seenAt
        /\ utc = estimate => swept = utc
=============================================================================
