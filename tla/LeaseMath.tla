----------------------------- MODULE LeaseMath -----------------------------
(***************************************************************************)
(* The pure arithmetic of crates/leaseflow_math/src/lib.rs: the calendar,  *)
(* the monthly billing dates, proration, the termination refund and the    *)
(* deposit split.  Every operator of the crate is total integer            *)
(* arithmetic on timestamps; a timestamp here counts units of which        *)
(* DaySecs make one day (86400 in the program).  Amounts stay far below    *)
(* the i64 and i128 limits, so the overflow branches, which return None,   *)
(* are not taken.                                                          *)
(*                                                                         *)
(* A definition whose name ends in _X is a deliberately wrong variant of   *)
(* the definition after it; it is used only to see that the properties     *)
(* notice the mistake.                                                     *)
(***************************************************************************)
EXTENDS Integers

CONSTANTS DaySecs,    \* time units per day (86_400 in the code)
          None        \* the empty Option

ASSUME DaySecsAssumption == DaySecs \in Nat \ {0}
ASSUME NoneAssumption == None \notin Int

MinOf(a, b) == IF a <= b THEN a ELSE b

SaturatingSub(a, b) == IF a >= b THEN a - b ELSE 0

is_leap_year(year) ==
    (year % 4 = 0 /\ year % 100 # 0) \/ year % 400 = 0

days_in_month(year, month) ==
    CASE month \in {4, 6, 9, 11} -> 30
      [] month = 2 -> IF is_leap_year(year) THEN 29 ELSE 28
      [] OTHER -> 31

days_in_year(year) == IF is_leap_year(year) THEN 366 ELSE 365

-----------------------------------------------------------------------------
(***************************************************************************)
(* get_seconds_in_month: the first of the crate's two calendars.  It       *)
(* estimates the year by dividing by 365, takes off the leap days it       *)
(* counts before that year, and corrects the estimate with the two while   *)
(* loops, here the recursive functions GoBack and GoOn.                    *)
(***************************************************************************)
leap_years_before(year) ==
    (year - 1968) \div 4 - (year - 1900) \div 100 + (year - 1600) \div 400

\* Both loops work on a pair: the year and the days left to count from its first day.
GoBack[p \in Int \X Int] ==
    IF p[2] < 0
    THEN GoBack[<<p[1] - 1, p[2] + days_in_year(p[1] - 1)>>]
    ELSE p

GoOn[p \in Int \X Int] ==
    IF p[2] >= days_in_year(p[1])
    THEN GoOn[<<p[1] + 1, p[2] - days_in_year(p[1])>>]
    ELSE p

\* The month of the year that holds its days-th day (from 0), from a triple of the year,
\* a month to start at and the days left; the loop of lines 48-55 counts from month 0,
\* this one from 1.
MonthOf[p \in Int \X (1..12) \X Int] ==
    IF p[3] < days_in_month(p[1], p[2]) \/ p[2] = 12
    THEN p[2]
    ELSE MonthOf[<<p[1], p[2] + 1, p[3] - days_in_month(p[1], p[2])>>]

get_days_in_month(days_since_epoch) ==
    LET year == 1970 + days_since_epoch \div 365
        back == GoBack[<<year, (days_since_epoch % 365) - leap_years_before(year)>>]
        on   == GoOn[back]
    IN  days_in_month(on[1], MonthOf[<<on[1], 1, on[2]>>])

get_seconds_in_month(timestamp) ==
    get_days_in_month(timestamp \div DaySecs) * DaySecs

-----------------------------------------------------------------------------
(***************************************************************************)
(* timestamp_to_ymd and ymd_to_timestamp: the second calendar, on days     *)
(* since 0000-03-01, and the billing dates computed with it.               *)
(***************************************************************************)
\* Wrong: no correction for the century years that are not leap years.
timestamp_to_ymd_X(timestamp) ==
    LET z    == timestamp \div DaySecs + 719468
        era  == z \div 146097
        doe  == z - era * 146097
        yoe  == (doe - doe \div 1460) \div 365
        doy  == doe - (365 * yoe + yoe \div 4)
        mp   == (5 * doy + 2) \div 153
        m    == IF mp < 10 THEN mp + 3 ELSE mp - 9
    IN  [year  |-> yoe + era * 400 + (IF m <= 2 THEN 1 ELSE 0),
         month |-> m,
         day   |-> doy - (153 * mp + 2) \div 5 + 1]

timestamp_to_ymd(timestamp) ==
    LET z    == timestamp \div DaySecs + 719468
        era  == z \div 146097
        doe  == z - era * 146097
        yoe  == (doe - doe \div 1460 + doe \div 36524 - doe \div 146096) \div 365
        doy  == doe - (365 * yoe + yoe \div 4 - yoe \div 100)
        mp   == (5 * doy + 2) \div 153
        m    == IF mp < 10 THEN mp + 3 ELSE mp - 9
    IN  [year  |-> yoe + era * 400 + (IF m <= 2 THEN 1 ELSE 0),
         month |-> m,
         day   |-> doy - (153 * mp + 2) \div 5 + 1]

\* Wrong: January and February are not moved to the year before.
ymd_to_timestamp_X(year, month, day) ==
    LET m    == IF month <= 2 THEN month + 9 ELSE month - 3
        era  == year \div 400
        yoe  == year - era * 400
        doy  == (153 * m + 2) \div 5 + day - 1
        doe  == yoe * 365 + yoe \div 4 - yoe \div 100 + doy
    IN  SaturatingSub(era * 146097 + doe, 719468) * DaySecs

ymd_to_timestamp(year, month, day) ==
    LET y    == IF month <= 2 THEN year - 1 ELSE year
        m    == IF month <= 2 THEN month + 9 ELSE month - 3
        era  == y \div 400
        yoe  == y - era * 400
        doy  == (153 * m + 2) \div 5 + day - 1
        doe  == yoe * 365 + yoe \div 4 - yoe \div 100 + doy
    IN  SaturatingSub(era * 146097 + doe, 719468) * DaySecs

\* Wrong: the day is not clamped to the length of the target month.
next_billing_date_X(inception_ts, n) ==
    LET d            == timestamp_to_ymd(inception_ts)
        total_months == d.month - 1 + n
    IN  ymd_to_timestamp(d.year + total_months \div 12, (total_months % 12) + 1, d.day)

\* Wrong: the month wraps around without carrying into the year.
next_billing_date_carry_X(inception_ts, n) ==
    LET d         == timestamp_to_ymd(inception_ts)
        new_month == ((d.month - 1 + n) % 12) + 1
    IN  ymd_to_timestamp(d.year, new_month,
                         MinOf(d.day, days_in_month(d.year, new_month)))

next_billing_date(inception_ts, n) ==
    LET d            == timestamp_to_ymd(inception_ts)
        total_months == d.month - 1 + n
        new_month    == (total_months % 12) + 1
        new_year     == d.year + total_months \div 12
    IN  ymd_to_timestamp(new_year, new_month,
                         MinOf(d.day, days_in_month(new_year, new_month)))

-----------------------------------------------------------------------------
(***************************************************************************)
(* Proration and refunds.                                                  *)
(***************************************************************************)
calculate_prorated_rent(monthly_rent, start_timestamp, end_timestamp) ==
    IF start_timestamp >= end_timestamp \/ monthly_rent <= 0
    THEN None
    ELSE (monthly_rent * (end_timestamp - start_timestamp))
            \div get_seconds_in_month(start_timestamp)

\* Wrong: the refund is not capped by what was paid.
calculate_termination_refund_X(monthly_rent, start, end, time, paid_amount) ==
    IF \/ time <= start
       \/ time >= end
    THEN None
    ELSE LET refund == (monthly_rent * (end - time))
                          \div get_seconds_in_month(time)
         IN  IF refund > 0 THEN refund - 1 ELSE 0

calculate_termination_refund(monthly_rent, start, end, time, paid_amount) ==
    IF \/ time <= start
       \/ time >= end
    THEN None
    ELSE LET unused == end - time
             refund == MinOf(paid_amount,
                             (monthly_rent * unused)
                               \div get_seconds_in_month(time))
         IN  IF refund > 0 THEN refund - 1 ELSE 0

\* Wrong: basis points above 10000 are not clamped.
calculate_deposit_split_X(total_deposit, landlord_bps) ==
    LET landlord_share == (total_deposit * landlord_bps) \div 10000
    IN  [landlord |-> landlord_share, tenant |-> total_deposit - landlord_share]

\* basis points above 10000 count as 10000; the tenant gets the remainder.
calculate_deposit_split(total_deposit, landlord_bps) ==
    LET landlord_share == (total_deposit * MinOf(landlord_bps, 10000)) \div 10000
    IN  [landlord |-> landlord_share, tenant |-> total_deposit - landlord_share]

-----------------------------------------------------------------------------
\* A termination refund never exceeds what was paid nor the prorated rent of
\* the unused period, and a positive one leaves the protocol at least one
\* unit: entering and leaving at once earns nothing.
RefundBounded(rent, start, end, time, paid) ==
    LET refund == calculate_termination_refund(rent, start, end, time, paid)
    IN  /\ refund >= 0
        /\ refund <= paid /\ refund <= calculate_prorated_rent(rent, time, end)
        /\ refund > 0 => refund < paid

\* The two parts of a split deposit are never negative, add up to the deposit,
\* and the landlord's share is the rounded-down one.
DepositSplitExact(total, bps) ==
    LET s == calculate_deposit_split(total, bps)
    IN  /\ s.landlord >= 0 /\ s.tenant >= 0
        /\ s.landlord + s.tenant = total
        /\ s.landlord * 10000 <= total * MinOf(bps, 10000)
=============================================================================
