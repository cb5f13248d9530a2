---------------------------- MODULE MCLeaseMath ----------------------------
(***************************************************************************)
(* Walks the days of an interval one by one and checks the calendar, the   *)
(* billing dates and the proration of LeaseMath on each of them.           *)
(***************************************************************************)
EXTENDS LeaseMath

CONSTANTS Starts,      \* first days of the walks, counted from 1970-01-01
          Walk,        \* days in each walk
          MaxCycles    \* billing cycles looked ahead

ASSUME StartsAssumption == Starts \subseteq Nat
ASSUME WalkAssumption == Walk \in Nat
ASSUME MaxCyclesAssumption == MaxCycles \in Nat

VARIABLE day

Days == UNION {s..(s + Walk) : s \in Starts}

Init == day \in Starts

NextDay == day' = day + 1 /\ day' \in Days

Spec == Init /\ [][NextDay]_day

Ymd(d) == timestamp_to_ymd(d * DaySecs)

\* Reference definition of the calendar: the day after a date.
DayAfter(d) ==
    IF d.day < days_in_month(d.year, d.month)
    THEN [d EXCEPT !.day = d.day + 1]
    ELSE [day   |-> 1,
          month |-> (d.month % 12) + 1,
          year  |-> d.year + (IF d.month = 12 THEN 1 ELSE 0)]

\* The n-th billing date falls in the n-th month after the inception month,
\* on the inception's day of the month or on the last day of a shorter
\* month: n steps of one month never drift.
BillingDateAnchored ==
    \A n \in 1..MaxCycles :
        LET i == Ymd(day)
            b == timestamp_to_ymd(next_billing_date(day * DaySecs, n))
        IN  /\ 12 * b.year + b.month = 12 * i.year + i.month + n
            /\ b.day = MinOf(i.day, days_in_month(b.year, b.month))

\* Billing cycles are ordered: each date lies 28 to 31 days after the one
\* before, so that no cycle is empty, billed twice or skipped.
BillingDatesAdvance ==
    \A n \in 1..MaxCycles :
        LET step == next_billing_date(day * DaySecs, n)
                      - next_billing_date(day * DaySecs, n - 1)
        IN  step >= 28 * DaySecs /\ step <= 31 * DaySecs

\* A lease that starts a day later is never billed earlier.
BillingOrderPreserved ==
    \A n \in 1..MaxCycles :
       next_billing_date(day * DaySecs, n) <= next_billing_date((day + 1) * DaySecs, n)

\* Billing dates neither drift from their anchor, nor overlap, nor overtake those of a
\* lease that started earlier (next_billing_date).
BillingDatesSound == BillingDateAnchored /\ BillingDatesAdvance /\ BillingOrderPreserved

\* The calendar of the billing dates is faithful: ymd_to_timestamp inverts timestamp_to_ymd
\* and tomorrow's date is the day after today's, with none skipped or repeated.
CalendarFaithful ==
    LET d == Ymd(day)
    IN  /\ ymd_to_timestamp(d.year, d.month, d.day) = day * DaySecs
        /\ Ymd(day + 1) = DayAfter(d)

\* "Handles leap years and varying month lengths automatically"
\* (crates/leaseflow_math/src/lib.rs:10, and the tests at 276-288): the month length used
\* for proration (get_seconds_in_month) is the length of the month the day is in, in every
\* year.
MonthLengthInEveryYear ==
    LET d == Ymd(day)
    IN  get_days_in_month(day) = days_in_month(d.year, d.month)

Rents == {1, 7, 100}
Spans == {1, 5, 29, 40}

\* Money is never created by rounding: refunds stay within what was paid and prorated, and
\* the parts of a deposit add up to it (calculate_termination_refund,
\* calculate_deposit_split).
SharesBounded ==
    /\ \A rent \in Rents, before \in {1, 3}, span \in Spans, paid \in {0, 1, 50, 500} :
          LET now == day * DaySecs
          IN  RefundBounded(rent, now - before * DaySecs, now + span * DaySecs, now, paid)
    /\ \A total \in {0, 1, 3, 10 + (day % 1000)}, bps \in {0, 1, 3333, 9999, 10000, 20000} :
          DepositSplitExact(total, bps)
=============================================================================
