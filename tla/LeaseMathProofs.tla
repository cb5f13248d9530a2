-------------------------- MODULE LeaseMathProofs --------------------------
(***************************************************************************)
(* Proofs about LeaseMath, for every day since 1970, every number of       *)
(* billing cycles and every length of a day: both calendars of the crate,  *)
(* the billing dates, the refunds and the deposit splits.                  *)
(***************************************************************************)
EXTENDS MCLeaseMath, SumTheorems, TLAPS

-----------------------------------------------------------------------------
(***************************************************************************)
(* Days since 0000-03-01, the zero of timestamp_to_ymd, in which every     *)
(* year ends with its February.                                            *)
(***************************************************************************)

\* Days before the first of March of year y, and days from there to its p-th month.
DaysToYear(y) == 365 * y + y \div 4 - y \div 100 + y \div 400
DaysToMonth(p) == (153 * p + 2) \div 5

\* Four centuries have 146097 days: timestamp_to_ymd may reduce the year to its era.
LEMMA EraShift ==
    ASSUME NEW y \in Int, NEW e \in Int
    PROVE  DaysToYear(y + 400 * e) = DaysToYear(y) + 146097 * e
<1>1. (y + 400 * e) \div 4 = y \div 4 + 100 * e
  OBVIOUS
<1>2. (y + 400 * e) \div 100 = y \div 100 + 4 * e
  OBVIOUS
<1>3. (y + 400 * e) \div 400 = y \div 400 + e
  OBVIOUS
<1> QED
  BY <1>1, <1>2, <1>3 DEF DaysToYear

\* A year that ends with a leap February has 366 days.
LEMMA YearLength ==
    ASSUME NEW y \in Int
    PROVE  DaysToYear(y + 1) = DaysToYear(y) + (IF is_leap_year(y + 1) THEN 366 ELSE 365)
<1>1. (y + 1) \div 4 = y \div 4 + (IF (y + 1) % 4 = 0 THEN 1 ELSE 0)
  OBVIOUS
<1>2. (y + 1) \div 100 = y \div 100 + (IF (y + 1) % 100 = 0 THEN 1 ELSE 0)
  OBVIOUS
<1>3. (y + 1) \div 400 = y \div 400 + (IF (y + 1) % 400 = 0 THEN 1 ELSE 0)
  OBVIOUS
<1>4. /\ (y + 1) % 400 = 0 => (y + 1) % 100 = 0
      /\ (y + 1) % 100 = 0 => (y + 1) % 4 = 0
  OBVIOUS
<1> QED
  BY <1>1, <1>2, <1>3, <1>4 DEF DaysToYear, is_leap_year

\* The corrected division by 365 finds the year of a day in a century of the era.
LEMMA YearInCentury ==
    ASSUME NEW c \in Int, 0 <= c, c <= 3,
           NEW e \in Int, e <= 146095, 36524 * c <= e, e < 36524 * (c + 1),
           NEW y \in Int, y = (e - e \div 1460 + c) \div 365
    PROVE  0 <= y /\ y <= 399 /\ DaysToYear(y) <= e /\ e < DaysToYear(y + 1)
<1> DEFINE a == e \div 1460
           p == y \div 4
           q == (y + 1) \div 4
<1>1. a \in Nat /\ 1460 * a <= e /\ e < 1460 * a + 1460
  OBVIOUS
<1>2. 365 * y <= e - a + c /\ e - a + c <= 365 * y + 364
  OBVIOUS
<1>3. p \in Int /\ 4 * p <= y /\ y <= 4 * p + 3 /\ q \in Int /\ 4 * q <= y + 1 /\ y + 1 <= 4 * q + 3
  OBVIOUS
<1> HIDE DEF a, p, q
<1>4. 100 * c <= y /\ y <= 100 * c + 99
  BY <1>1, <1>2
<1>5. y \div 100 = c /\ y \div 400 = 0
  BY <1>4
<1>6. p <= a
  BY <1>1, <1>2, <1>3
<1>7. DaysToYear(y) <= e
  BY <1>2, <1>5, <1>6, <1>1, <1>3 DEF DaysToYear, p
<1>8. CASE y = 100 * c + 99
  <2>1. (y + 1) \div 4 = 25 * (c + 1) /\ (y + 1) \div 100 = c + 1
    BY <1>8
  <2>2. (y + 1) \div 400 = IF c = 3 THEN 1 ELSE 0
    BY <1>8
  <2>3. DaysToYear(y + 1) = 36524 * (c + 1) + (IF c = 3 THEN 1 ELSE 0)
    BY <1>8, <2>1, <2>2 DEF DaysToYear
  <2> QED
    BY <1>4, <1>7, <2>3
<1>9. CASE y < 100 * c + 99
  <2>1. (y + 1) \div 100 = c /\ (y + 1) \div 400 = 0
    BY <1>4, <1>9
  <2>2. a <= q
    BY <1>1, <1>2, <1>3, <1>4
  <2>3. DaysToYear(y + 1) = 365 * y + 365 + q - c
    BY <2>1, <1>3 DEF DaysToYear, q
  <2> QED
    BY <1>1, <1>2, <1>3, <1>4, <1>7, <2>2, <2>3
<1> QED
  BY <1>4, <1>8, <1>9

\* The year of the era that timestamp_to_ymd finds for its day e.
YearOfEra(e) == (e - e \div 1460 + e \div 36524 - e \div 146096) \div 365

\* That year holds the day e, on the last day of the era, too.
LEMMA YearInEra ==
    ASSUME NEW e \in Int, 0 <= e, e <= 146096
    PROVE  /\ YearOfEra(e) \in Int /\ 0 <= YearOfEra(e) /\ YearOfEra(e) <= 399
           /\ DaysToYear(YearOfEra(e)) <= e /\ e < DaysToYear(YearOfEra(e) + 1)
<1> DEFINE c == e \div 36524
           y == YearOfEra(e)
<1>0. y = (e - e \div 1460 + e \div 36524 - e \div 146096) \div 365
  BY DEF YearOfEra
<1> SUFFICES y \in Int /\ 0 <= y /\ y <= 399 /\ DaysToYear(y) <= e /\ e < DaysToYear(y + 1)
  OBVIOUS
<1> HIDE DEF y
<1>1. CASE 146096 <= e
  <2>1. e \div 1460 = 100 /\ c = 4 /\ e \div 146096 = 1
    BY <1>1
  <2>a. y = (e - 100 + 4 - 1) \div 365
    BY <1>0, <2>1
  <2>2. y \in Int /\ 399 <= y /\ y <= 399
    BY <1>1, <2>a
  <2>3. DaysToYear(y) <= 146096 /\ DaysToYear(y + 1) = 146097
    BY <2>2 DEF DaysToYear
  <2> QED
    BY <1>1, <2>2, <2>3
<1>2. CASE e <= 146095
  <2>1. e \div 146096 = 0
    BY <1>2
  <2>2. c \in Int /\ 0 <= c /\ c <= 3 /\ 36524 * c <= e /\ e < 36524 * (c + 1)
    BY <1>2
  <2>3. y = (e - e \div 1460 + c) \div 365 /\ y \in Int
    BY <1>0, <2>1
  <2> HIDE DEF c
  <2>4. 0 <= y /\ y <= 399 /\ DaysToYear(y) <= e /\ e < DaysToYear(y + 1)
    BY <1>2, <2>2, <2>3, YearInCentury
  <2> QED
    BY <2>3, <2>4
<1> QED
  BY <1>1, <1>2

\* The month found by (5 * day + 2) / 153 holds the day.
LEMMA MonthInYear ==
    ASSUME NEW d \in Int, 0 <= d, d <= 365, NEW p, p = (5 * d + 2) \div 153
    PROVE  p \in Int /\ 0 <= p /\ p <= 11 /\ DaysToMonth(p) <= d /\ d < DaysToMonth(p + 1)
  BY SMTT(60) DEF DaysToMonth

-----------------------------------------------------------------------------
(***************************************************************************)
(* The months on one line: month k is month k % 12 + 1 of year k / 12, it  *)
(* starts on day FirstOf(k) and the next one follows after its length.     *)
(* Every day lies in one month.                                            *)
(***************************************************************************)

\* The first day of month k, and its length.
FirstOf(k) == DaysToYear((k - 2) \div 12) + DaysToMonth((k - 2) % 12)

MonthLen(k) == days_in_month(k \div 12, (k % 12) + 1)

\* Later years start later.
LEMMA YearsGrow ==
    ASSUME NEW x \in Int, NEW y \in Int, x <= y
    PROVE  DaysToYear(x) \in Int /\ DaysToYear(y) \in Int /\ DaysToYear(x) <= DaysToYear(y)
  BY DEF DaysToYear

\* The start of a month, by its year and its place after March.
LEMMA FirstAt ==
    ASSUME NEW k \in Int, NEW y \in Int, NEW p \in Int, 0 <= p, p <= 11, k = 12 * y + p + 2
    PROVE  FirstOf(k) = DaysToYear(y) + DaysToMonth(p)
<1>1. (k - 2) \div 12 = y /\ (k - 2) % 12 = p
  OBVIOUS
<1> QED
  BY <1>1 DEF FirstOf

\* A month is followed by the next one, after the days days_in_month gives it.
LEMMA MonthNext ==
    ASSUME NEW k \in Int
    PROVE  /\ FirstOf(k) \in Int /\ MonthLen(k) \in Int
           /\ 28 <= MonthLen(k) /\ MonthLen(k) <= 31
           /\ FirstOf(k + 1) = FirstOf(k) + MonthLen(k)
<1> DEFINE y == (k - 2) \div 12
           p == (k - 2) % 12
<1>1. y \in Int /\ p \in 0..11 /\ k - 2 = 12 * y + p
  OBVIOUS
<1>2. k \div 12 = (IF p < 10 THEN y ELSE y + 1) /\ k % 12 = (IF p < 10 THEN p + 2 ELSE p - 10)
  BY <1>1
<1>3. /\ (k + 1 - 2) \div 12 = (IF p < 11 THEN y ELSE y + 1)
      /\ (k + 1 - 2) % 12 = (IF p < 11 THEN p + 1 ELSE 0)
  BY <1>1
<1>4. DaysToYear(y) \in Int
  BY <1>1, YearsGrow
<1> HIDE DEF y, p
<1>5. /\ FirstOf(k) = DaysToYear(y) + DaysToMonth(p)
      /\ FirstOf(k + 1) = DaysToYear(IF p < 11 THEN y ELSE y + 1)
                            + DaysToMonth(IF p < 11 THEN p + 1 ELSE 0)
  BY <1>3 DEF FirstOf, y, p
<1>6. CASE p = 11
  <2>1. MonthLen(k) = IF is_leap_year(y + 1) THEN 29 ELSE 28
    BY <1>1, <1>2, <1>6 DEF MonthLen, days_in_month
  <2>2. DaysToMonth(11) = 337 /\ DaysToMonth(0) = 0
    BY DEF DaysToMonth
  <2>3. DaysToYear(y + 1) = DaysToYear(y) + (IF is_leap_year(y + 1) THEN 366 ELSE 365)
    BY <1>1, YearLength
  <2> QED
    BY <1>4, <1>5, <1>6, <2>1, <2>2, <2>3
<1>7. CASE p < 11
  <2>1. p \in 0..10
    BY <1>1, <1>7
  <2>2. MonthLen(k) = IF p \in {1, 3, 6, 8} THEN 30 ELSE 31
    BY <1>2, <2>1 DEF MonthLen, days_in_month
  <2>3. /\ DaysToMonth(p) \in Int
        /\ DaysToMonth(p + 1) = DaysToMonth(p) + (IF p \in {1, 3, 6, 8} THEN 30 ELSE 31)
    BY <2>1 DEF DaysToMonth
  <2> QED
    BY <1>4, <1>5, <1>7, <2>2, <2>3
<1> QED
  BY <1>1, <1>6, <1>7

\* A month is over before a later one starts.
LEMMA MonthsGrow ==
    ASSUME NEW j \in Int, NEW k \in Int, j < k
    PROVE  FirstOf(j) + MonthLen(j) <= FirstOf(k)
<1> DEFINE i == j + 1
<1>0. i \in Int /\ i <= k /\ FirstOf(i) = FirstOf(j) + MonthLen(j)
  BY MonthNext
<1> HIDE DEF i
<1> DEFINE x == (i - 2) \div 12
           p == (i - 2) % 12
           y == (k - 2) \div 12
           q == (k - 2) % 12
<1>1. x \in Int /\ p \in 0..11 /\ i - 2 = 12 * x + p
  BY <1>0
<1>2. y \in Int /\ q \in 0..11 /\ k - 2 = 12 * y + q
  OBVIOUS
<1>3. FirstOf(i) = DaysToYear(x) + DaysToMonth(p) /\ FirstOf(k) = DaysToYear(y) + DaysToMonth(q)
  BY DEF FirstOf
<1> HIDE DEF x, p, y, q
<1>4. /\ DaysToMonth(p) \in Int /\ DaysToMonth(p) <= 337
      /\ DaysToMonth(q) \in Int /\ 0 <= DaysToMonth(q)
  BY <1>1, <1>2 DEF DaysToMonth
<1>5. CASE x = y
  <2>1. p <= q
    BY <1>0, <1>1, <1>2, <1>5
  <2>2. DaysToMonth(p) <= DaysToMonth(q)
    BY <1>1, <1>2, <2>1 DEF DaysToMonth
  <2>3. DaysToYear(x) \in Int
    BY <1>1, YearsGrow
  <2> QED
    BY <1>0, <1>3, <1>4, <1>5, <2>2, <2>3
<1>6. CASE x < y
  <2>1. x + 1 \in Int /\ x + 1 <= y
    BY <1>1, <1>2, <1>6
  <2>2. /\ DaysToYear(x) \in Int /\ DaysToYear(y) \in Int
        /\ DaysToYear(x + 1) \in Int /\ DaysToYear(x + 1) <= DaysToYear(y)
    BY <1>1, <1>2, <2>1, YearsGrow
  <2>3. DaysToYear(x) + 365 <= DaysToYear(x + 1)
    BY <1>1, <2>2, YearLength
  <2> QED
    BY <1>0, <1>3, <1>4, <2>2, <2>3
<1>7. x <= y
  BY <1>0, <1>1, <1>2
<1> QED
  BY <1>1, <1>2, <1>5, <1>6, <1>7

\* No day has two dates.
LEMMA OneDate ==
    ASSUME NEW j \in Int, NEW k \in Int, NEW c \in Int, NEW d \in Int,
           1 <= c, c <= MonthLen(j), 1 <= d, d <= MonthLen(k),
           FirstOf(j) + c = FirstOf(k) + d
    PROVE  j = k /\ c = d
<1>1. /\ FirstOf(j) \in Int /\ FirstOf(k) \in Int /\ MonthLen(j) \in Int /\ MonthLen(k) \in Int
  BY MonthNext
<1>2. ~(j < k)
  BY <1>1, MonthsGrow
<1>3. ~(k < j)
  BY <1>1, MonthsGrow
<1> QED
  BY <1>1, <1>2, <1>3

-----------------------------------------------------------------------------
(***************************************************************************)
(* The two conversions: ymd_to_timestamp gives the start of the day the    *)
(* date names, and timestamp_to_ymd the date of the day.                   *)
(***************************************************************************)

\* The timestamp at which day n starts.
At(n) == n * DaySecs

\* 1970-01-01, in days since 0000-03-01.
Epoch == 719468

\* The month on the line of months.
MonthIndex(year, month) == 12 * year + month - 1

\* ymd_to_timestamp counts the days of the line, and saturates before 1970.
LEMMA ToTimestamp ==
    ASSUME NEW year \in Int, NEW month \in 1..12, NEW d \in Int
    PROVE  ymd_to_timestamp(year, month, d)
              = At(SaturatingSub(FirstOf(MonthIndex(year, month)) + d - 1, Epoch))
<1> DEFINE k == MonthIndex(year, month)
           y == IF month <= 2 THEN year - 1 ELSE year
           m == IF month <= 2 THEN month + 9 ELSE month - 3
           era == y \div 400
           yoe == y - era * 400
           doy == (153 * m + 2) \div 5 + d - 1
           doe == yoe * 365 + yoe \div 4 - yoe \div 100 + doy
<1>1. (k - 2) \div 12 = y /\ (k - 2) % 12 = m /\ y \in Int /\ m \in 0..11
  BY DEF MonthIndex
<1>2. FirstOf(k) = DaysToYear(y) + DaysToMonth(m)
  BY <1>1 DEF FirstOf
<1>3. ymd_to_timestamp(year, month, d) = At(SaturatingSub(era * 146097 + doe, Epoch))
  BY DEF ymd_to_timestamp, At, Epoch
<1> HIDE DEF y, m
<1>4. era \in Int /\ yoe \in Int /\ 0 <= yoe /\ yoe < 400 /\ y = yoe + 400 * era
  BY <1>1
<1> HIDE DEF era, yoe
<1>5. DaysToYear(y) = DaysToYear(yoe) + 146097 * era
  BY <1>4, EraShift
<1>6. DaysToYear(yoe) = 365 * yoe + yoe \div 4 - yoe \div 100
  BY <1>4 DEF DaysToYear
<1>7. DaysToMonth(m) = (153 * m + 2) \div 5 /\ DaysToMonth(m) \in Int
  BY <1>1 DEF DaysToMonth
<1>8. yoe \div 4 \in Int /\ yoe \div 100 \in Int
  BY <1>4
<1>9. era * 146097 + doe = FirstOf(k) + d - 1
  BY <1>2, <1>4, <1>5, <1>6, <1>7, <1>8
<1> QED
  BY <1>3, <1>9

\* The month of day n, as timestamp_to_ymd names it.
Index(n) == MonthIndex(Ymd(n).year, Ymd(n).month)

\* timestamp_to_ymd names a date that exists, and it is the date of the day.
LEMMA ToDate ==
    ASSUME NEW n \in Int
    PROVE  /\ Ymd(n) = [year |-> Ymd(n).year, month |-> Ymd(n).month, day |-> Ymd(n).day]
           /\ Ymd(n).year \in Int /\ Ymd(n).month \in 1..12 /\ Ymd(n).day \in Int
           /\ 1 <= Ymd(n).day /\ Ymd(n).day <= MonthLen(Index(n))
           /\ n + Epoch = FirstOf(Index(n)) + Ymd(n).day - 1
<1> DEFINE z    == (n * DaySecs) \div DaySecs + 719468
           era  == z \div 146097
           doe  == z - era * 146097
           yoe  == (doe - doe \div 1460 + doe \div 36524 - doe \div 146096) \div 365
           doy  == doe - (365 * yoe + yoe \div 4 - yoe \div 100)
           mp   == (5 * doy + 2) \div 153
           m    == IF mp < 10 THEN mp + 3 ELSE mp - 9
           year == yoe + era * 400 + (IF m <= 2 THEN 1 ELSE 0)
           dd   == doy - (153 * mp + 2) \div 5 + 1
           t    == Ymd(n)
           y    == yoe + 400 * era
<1>1. t = [year |-> year, month |-> m, day |-> dd]
  BY DEF timestamp_to_ymd, Ymd
<1>2. z = n + 719468
  <2>1. (n * DaySecs) \div DaySecs = n
    BY DaySecsAssumption
  <2> QED
    BY <2>1
<1> HIDE DEF z, t
<1>3. z \in Int
  BY <1>2
<1>4. era \in Int /\ doe \in Int /\ 0 <= doe /\ doe <= 146096 /\ z = doe + 146097 * era
  BY <1>3
<1>a. yoe = YearOfEra(doe)
  BY DEF YearOfEra
<1> HIDE DEF era, doe, yoe
<1>5. yoe \in Int /\ 0 <= yoe /\ yoe <= 399 /\ DaysToYear(yoe) <= doe /\ doe < DaysToYear(yoe + 1)
  BY <1>4, <1>a, YearInEra
<1>6. DaysToYear(yoe) = 365 * yoe + yoe \div 4 - yoe \div 100 /\ DaysToYear(yoe) \in Int
  BY <1>5 DEF DaysToYear
<1>7. doy \in Int /\ doy = doe - DaysToYear(yoe)
  BY <1>4, <1>5, <1>6
<1>8. DaysToYear(y) = DaysToYear(yoe) + 146097 * era
  BY <1>4, <1>5, EraShift
<1>9. DaysToYear(y + 1) = DaysToYear(yoe + 1) + 146097 * era
  <2>1. yoe + 1 \in Int /\ y + 1 = (yoe + 1) + 400 * era
    BY <1>4, <1>5
  <2> QED
    BY <1>4, <2>1, EraShift
<1> HIDE DEF doy
<1>10. /\ y \in Int /\ DaysToYear(y) \in Int
       /\ DaysToYear(y + 1) \in Int /\ DaysToYear(yoe + 1) \in Int
  <2>1. y \in Int /\ y + 1 \in Int /\ yoe + 1 \in Int
    BY <1>4, <1>5
  <2> QED
    BY <2>1, YearsGrow
<1> HIDE DEF y
<1>11. 0 <= doy /\ z = DaysToYear(y) + doy /\ z < DaysToYear(y + 1)
  BY <1>4, <1>5, <1>6, <1>7, <1>8, <1>9, <1>10
<1>12. doy <= 365
  BY <1>3, <1>7, <1>10, <1>11, YearLength
<1>b. mp = (5 * doy + 2) \div 153
  OBVIOUS
<1> HIDE DEF mp
<1>13. mp \in Int /\ 0 <= mp /\ mp <= 11 /\ DaysToMonth(mp) <= doy /\ doy < DaysToMonth(mp + 1)
  BY <1>7, <1>11, <1>12, <1>b, MonthInYear
<1>14. m \in 1..12 /\ year = (IF mp < 10 THEN y ELSE y + 1) /\ year \in Int
  BY <1>4, <1>5, <1>10, <1>13 DEF y
<1> DEFINE k == 12 * year + m - 1
<1>15. k - 2 = 12 * y + mp /\ k \in Int
  BY <1>10, <1>13, <1>14
<1>17. FirstOf(k) = DaysToYear(y) + DaysToMonth(mp)
  <2> HIDE DEF k
  <2> QED
    BY <1>10, <1>13, <1>15, FirstAt
<1>18. /\ DaysToMonth(mp) = (153 * mp + 2) \div 5
       /\ DaysToMonth(mp) \in Int /\ DaysToMonth(mp + 1) \in Int
  BY <1>13 DEF DaysToMonth
<1>19. dd \in Int /\ dd = doy - DaysToMonth(mp) + 1
  BY <1>7, <1>18
<1> HIDE DEF dd, m, year
<1>20. 1 <= dd /\ z = FirstOf(k) + dd - 1
  BY <1>7, <1>10, <1>11, <1>13, <1>17, <1>18, <1>19
<1>21. dd <= MonthLen(k)
  <2>1. FirstOf(k + 1) = FirstOf(k) + MonthLen(k) /\ FirstOf(k) \in Int /\ MonthLen(k) \in Int
    BY <1>15, MonthNext
  <2> HIDE DEF k
  <2>2. z < FirstOf(k + 1)
    <3>1. CASE mp < 11
      <4>1. k + 1 \in Int /\ mp + 1 \in Int /\ 0 <= mp + 1 /\ mp + 1 <= 11
            /\ k + 1 = 12 * y + (mp + 1) + 2
        BY <1>10, <1>13, <1>15, <3>1
      <4>2. FirstOf(k + 1) = DaysToYear(y) + DaysToMonth(mp + 1)
        BY <1>10, <4>1, FirstAt
      <4> QED
        BY <1>7, <1>10, <1>11, <1>13, <1>18, <4>2
    <3>2. CASE mp = 11
      <4> DEFINE w == y + 1
                 q == 0
                 j == k + 1
      <4>1. j \in Int /\ w \in Int /\ q \in Int /\ 0 <= q /\ q <= 11 /\ j = 12 * w + q + 2
        BY <1>10, <1>15, <3>2
      <4> HIDE DEF j, q, w
      <4>a. FirstOf(j) = DaysToYear(w) + DaysToMonth(q)
        BY <4>1, FirstAt
      <4>2. FirstOf(k + 1) = DaysToYear(y + 1) + DaysToMonth(0)
        BY <4>a DEF j, q, w
      <4>3. DaysToMonth(0) = 0
        BY DEF DaysToMonth
      <4> QED
        BY <1>10, <1>11, <4>2, <4>3
    <3> QED
      BY <1>13, <3>1, <3>2
  <2> QED
    BY <1>3, <1>19, <1>20, <2>1, <2>2
<1>22. t.year = year /\ t.month = m /\ t.day = dd
  BY <1>1
<1>23. Index(n) = k
  BY <1>22 DEF Index, MonthIndex, t
<1>24. /\ t = [year |-> t.year, month |-> t.month, day |-> t.day]
       /\ t.year \in Int /\ t.month \in 1..12 /\ t.day \in Int
       /\ 1 <= t.day /\ t.day <= MonthLen(k)
       /\ n + Epoch = FirstOf(k) + t.day - 1
  <2> HIDE DEF k
  <2> QED
    BY <1>1, <1>2, <1>14, <1>19, <1>20, <1>21, <1>22 DEF Epoch
<1> QED
  BY <1>23, <1>24 DEF t

\* The same, with the year and the month taken from the line of months.
LEMMA DateOf ==
    ASSUME NEW n \in Int
    PROVE  /\ Ymd(n) = [year |-> Index(n) \div 12, month |-> (Index(n) % 12) + 1,
                        day |-> Ymd(n).day]
           /\ Index(n) \in Int /\ Ymd(n).day \in Int
           /\ 1 <= Ymd(n).day /\ Ymd(n).day <= MonthLen(Index(n))
           /\ n + Epoch = FirstOf(Index(n)) + Ymd(n).day - 1
<1> DEFINE t == Ymd(n)
           k == Index(n)
<1>1. /\ t = [year |-> t.year, month |-> t.month, day |-> t.day]
      /\ t.year \in Int /\ t.month \in 1..12 /\ t.day \in Int
      /\ 1 <= t.day /\ t.day <= MonthLen(k)
      /\ n + Epoch = FirstOf(k) + t.day - 1
  BY ToDate
<1>2. k = 12 * t.year + t.month - 1
  BY DEF Index, MonthIndex
<1> HIDE DEF t, k
<1>3. k \in Int /\ k \div 12 = t.year /\ (k % 12) + 1 = t.month
  BY <1>1, <1>2
<1>4. t = [year |-> k \div 12, month |-> (k % 12) + 1, day |-> t.day]
  BY <1>1, <1>3
<1> QED
  BY <1>1, <1>3, <1>4 DEF t, k

\* A day that lies in month k as its d-th has that date.
LEMMA DateIs ==
    ASSUME NEW n \in Int, NEW k \in Int, NEW d \in Int, 1 <= d, d <= MonthLen(k),
           n + Epoch = FirstOf(k) + d - 1
    PROVE  Index(n) = k /\ Ymd(n).day = d
<1>1. /\ Index(n) \in Int /\ Ymd(n).day \in Int /\ 1 <= Ymd(n).day
      /\ Ymd(n).day <= MonthLen(Index(n))
      /\ n + Epoch = FirstOf(Index(n)) + Ymd(n).day - 1
  BY DateOf
<1>2. FirstOf(k) \in Int /\ FirstOf(Index(n)) \in Int
  BY <1>1, MonthNext
<1>3. FirstOf(Index(n)) + Ymd(n).day = FirstOf(k) + d
  BY <1>1, <1>2 DEF Epoch
<1> QED
  BY <1>1, <1>3, OneDate

\* January 1970 starts at the epoch.
LEMMA EpochMonth == FirstOf(23640) = Epoch
<1>1. FirstOf(23640) = DaysToYear(1969) + DaysToMonth(10)
  BY FirstAt
<1>2. DaysToYear(1969) = 719162 /\ DaysToMonth(10) = 306
  BY DEF DaysToYear, DaysToMonth
<1> QED
  BY <1>1, <1>2 DEF Epoch

\* No month after it starts before.
LEMMA SinceEpoch ==
    ASSUME NEW k \in Int, 23640 <= k
    PROVE  FirstOf(k) \in Int /\ Epoch <= FirstOf(k)
<1>1. CASE k = 23640
  BY <1>1, EpochMonth, MonthNext DEF Epoch
<1>2. CASE 23640 < k
  <2>1. FirstOf(23640) + MonthLen(23640) <= FirstOf(k)
    BY <1>2, MonthsGrow
  <2>2. MonthLen(23640) \in Int /\ 28 <= MonthLen(23640) /\ FirstOf(k) \in Int
    BY MonthNext
  <2> QED
    BY <2>1, <2>2, EpochMonth DEF Epoch
<1> QED
  BY <1>1, <1>2

\* A timestamp that is not negative lies in 1970 or later.
LEMMA IndexSinceEpoch ==
    ASSUME NEW n \in Nat
    PROVE  23640 <= Index(n)
<1>1. /\ Index(n) \in Int /\ Ymd(n).day \in Int /\ Ymd(n).day <= MonthLen(Index(n))
      /\ n + Epoch = FirstOf(Index(n)) + Ymd(n).day - 1
  BY DateOf
<1>2. FirstOf(Index(n)) \in Int /\ MonthLen(Index(n)) \in Int
  BY <1>1, MonthNext
<1>3. Index(n) < 23640 => FirstOf(Index(n)) + MonthLen(Index(n)) <= Epoch
  BY <1>1, EpochMonth, MonthsGrow
<1> QED
  BY <1>1, <1>2, <1>3 DEF Epoch

\* The d-th day of month k, counted from 1970-01-01.
DayNumber(k, d) == FirstOf(k) + d - 1 - Epoch

\* From 1970 on ymd_to_timestamp never saturates.
LEMMA StampOf ==
    ASSUME NEW year \in Int, NEW month \in 1..12, NEW d \in Int, 1 <= d,
           23640 <= MonthIndex(year, month)
    PROVE  /\ DayNumber(MonthIndex(year, month), d) \in Nat
           /\ ymd_to_timestamp(year, month, d) = At(DayNumber(MonthIndex(year, month), d))
<1> DEFINE k == MonthIndex(year, month)
           f == FirstOf(k) + d - 1
<1>1. k \in Int
  BY DEF MonthIndex
<1>2. FirstOf(k) \in Int /\ Epoch <= FirstOf(k)
  BY <1>1, SinceEpoch
<1>3. ymd_to_timestamp(year, month, d) = At(SaturatingSub(f, Epoch))
  BY ToTimestamp
<1>4. f \in Int /\ f >= Epoch /\ Epoch \in Int /\ DayNumber(k, d) = f - Epoch
  BY <1>2 DEF Epoch, DayNumber
<1> HIDE DEF f, k
<1>5. SaturatingSub(f, Epoch) = f - Epoch /\ f - Epoch \in Nat
  BY <1>4 DEF SaturatingSub
<1> QED
  BY <1>3, <1>4, <1>5 DEF k

\* ymd_to_timestamp inverts timestamp_to_ymd.
LEMMA DatesInvert ==
    ASSUME NEW n \in Nat
    PROVE  ymd_to_timestamp(Ymd(n).year, Ymd(n).month, Ymd(n).day) = n * DaySecs
<1> DEFINE y == Ymd(n).year
           m == Ymd(n).month
           d == Ymd(n).day
           k == Index(n)
<1>1. y \in Int /\ m \in 1..12 /\ d \in Int /\ 1 <= d /\ k = MonthIndex(y, m)
  BY DateOf DEF Index
<1>2. n + Epoch = FirstOf(k) + d - 1 /\ k \in Int
  BY DateOf
<1>3. 23640 <= k /\ FirstOf(k) \in Int
  BY <1>2, IndexSinceEpoch, MonthNext
<1> HIDE DEF y, m, d, k
<1>4. ymd_to_timestamp(y, m, d) = At(DayNumber(k, d))
  BY <1>1, <1>3, StampOf
<1>5. DayNumber(k, d) = n
  BY <1>1, <1>2, <1>3 DEF Epoch, DayNumber
<1> QED
  BY <1>4, <1>5 DEF y, m, d, At

\* The date of the next day is the day after, over every end of a month or a year.
LEMMA Tomorrow ==
    ASSUME NEW n \in Nat
    PROVE  Ymd(n + 1) = DayAfter(Ymd(n))
<1> DEFINE d == Ymd(n).day
           k == Index(n)
<1>1. /\ Ymd(n) = [year |-> k \div 12, month |-> (k % 12) + 1, day |-> d]
      /\ k \in Int /\ d \in Int /\ 1 <= d /\ d <= MonthLen(k)
      /\ n + Epoch = FirstOf(k) + d - 1
  BY DateOf
<1>2. /\ Ymd(n + 1) = [year |-> Index(n + 1) \div 12, month |-> (Index(n + 1) % 12) + 1,
                       day |-> Ymd(n + 1).day]
  BY DateOf
<1> HIDE DEF d, k
<1>3. /\ FirstOf(k) \in Int /\ MonthLen(k) \in Int /\ MonthLen(k + 1) \in Int
      /\ FirstOf(k + 1) = FirstOf(k) + MonthLen(k) /\ 28 <= MonthLen(k + 1)
  BY <1>1, MonthNext
<1>4. days_in_month(Ymd(n).year, Ymd(n).month) = MonthLen(k)
  BY <1>1 DEF MonthLen
<1>5. CASE d < MonthLen(k)
  <2>1. /\ (n + 1) + Epoch = FirstOf(k) + (d + 1) - 1
        /\ d + 1 \in Int /\ 1 <= d + 1 /\ d + 1 <= MonthLen(k)
    BY <1>1, <1>3, <1>5 DEF Epoch
  <2>2. Index(n + 1) = k /\ Ymd(n + 1).day = d + 1
    BY <1>1, <2>1, DateIs
  <2>3. DayAfter(Ymd(n)) = [year |-> k \div 12, month |-> (k % 12) + 1, day |-> d + 1]
    BY <1>1, <1>4, <1>5 DEF DayAfter
  <2> QED
    BY <1>2, <2>2, <2>3
<1>6. CASE d = MonthLen(k)
  <2>1. (n + 1) + Epoch = FirstOf(k + 1) + 1 - 1 /\ k + 1 \in Int /\ 1 <= MonthLen(k + 1)
    BY <1>1, <1>3, <1>6 DEF Epoch
  <2>2. Index(n + 1) = k + 1 /\ Ymd(n + 1).day = 1
    BY <2>1, DateIs
  <2>3. DayAfter(Ymd(n)) = [day |-> 1, month |-> (((k % 12) + 1) % 12) + 1,
                            year |-> k \div 12 + (IF (k % 12) + 1 = 12 THEN 1 ELSE 0)]
    BY <1>1, <1>3, <1>4, <1>6 DEF DayAfter
  <2>4. /\ (k + 1) % 12 = ((k % 12) + 1) % 12
        /\ (k + 1) \div 12 = k \div 12 + (IF (k % 12) + 1 = 12 THEN 1 ELSE 0)
    BY <1>1
  <2> QED
    BY <1>2, <2>2, <2>3, <2>4
<1> QED
  BY <1>1, <1>3, <1>5, <1>6

-----------------------------------------------------------------------------
(***************************************************************************)
(* Billing dates.                                                          *)
(***************************************************************************)

\* The day of the n-th billing date of a lease that starts on day d.
Billed(d, n) == DayNumber(Index(d) + n, MinOf(Ymd(d).day, MonthLen(Index(d) + n)))

\* next_billing_date counts n months on the line and clamps the day to the month.
LEMMA BilledOn ==
    ASSUME NEW d \in Nat, NEW n \in Nat
    PROVE  /\ next_billing_date(At(d), n) = At(Billed(d, n)) /\ Billed(d, n) \in Nat
           /\ Index(Billed(d, n)) = Index(d) + n
           /\ Ymd(Billed(d, n)).day = MinOf(Ymd(d).day, MonthLen(Index(d) + n))
<1> DEFINE k     == Index(d)
           i     == Ymd(d).day
           total == Ymd(d).month - 1 + n
           month == (total % 12) + 1
           year  == Ymd(d).year + total \div 12
           j     == k + n
           c     == MinOf(i, MonthLen(j))
<1>1. /\ Ymd(d) = [year |-> k \div 12, month |-> (k % 12) + 1, day |-> i]
      /\ k \in Int /\ i \in Int /\ 1 <= i /\ 23640 <= k
  BY DateOf, IndexSinceEpoch
<1>2. next_billing_date(At(d), n)
         = ymd_to_timestamp(year, month, MinOf(i, days_in_month(year, month)))
  BY DEF next_billing_date, Ymd, At
<1>3. total = (k % 12) + n /\ year = k \div 12 + total \div 12
  BY <1>1
<1> HIDE DEF k, i
<1>4. j \in Int /\ 23640 <= j /\ year = j \div 12 /\ month = (j % 12) + 1
  BY <1>1, <1>3
<1>5. year \in Int /\ month \in 1..12 /\ j = MonthIndex(year, month)
  BY <1>4 DEF MonthIndex
<1>6. days_in_month(year, month) = MonthLen(j)
  BY <1>4 DEF MonthLen
<1> HIDE DEF total, month, year, j
<1>7. MonthLen(j) \in Int /\ 28 <= MonthLen(j) /\ FirstOf(j) \in Int
  BY <1>4, MonthNext
<1>8. c \in Int /\ 1 <= c /\ c <= MonthLen(j)
  BY <1>1, <1>7 DEF MinOf
<1>9. next_billing_date(At(d), n) = ymd_to_timestamp(year, month, c)
  BY <1>2, <1>6
<1> HIDE DEF c
<1> DEFINE b == DayNumber(j, c)
<1>10. b \in Nat /\ ymd_to_timestamp(year, month, c) = At(b)
  BY <1>4, <1>5, <1>8, StampOf
<1>11. b + Epoch = FirstOf(j) + c - 1 /\ b \in Int
  BY <1>7, <1>8, <1>10 DEF Epoch, DayNumber
<1>12. Billed(d, n) = b
  BY DEF Billed, j, k, i, c
<1> HIDE DEF b
<1>13. Index(b) = j /\ Ymd(b).day = c
  BY <1>4, <1>8, <1>11, DateIs
<1> QED
  BY <1>9, <1>10, <1>12, <1>13 DEF j, k, i, c

\* A billing date lies n months after the start, on its day or the last of the month.
LEMMA Anchored ==
    ASSUME NEW d \in Nat, NEW n \in Nat
    PROVE  LET b == timestamp_to_ymd(next_billing_date(At(d), n))
           IN  /\ 12 * b.year + b.month = 12 * Ymd(d).year + Ymd(d).month + n
               /\ b.day = MinOf(Ymd(d).day, days_in_month(b.year, b.month))
<1> DEFINE b == Billed(d, n)
           x == Ymd(b)
           i == Ymd(d)
<1>1. next_billing_date(At(d), n) = At(b) /\ b \in Nat
  BY BilledOn
<1>2. Index(b) = Index(d) + n /\ x.day = MinOf(i.day, MonthLen(Index(b)))
  BY BilledOn
<1>3. timestamp_to_ymd(next_billing_date(At(d), n)) = x
  BY <1>1 DEF Ymd, At
<1> HIDE DEF b
<1>4. /\ x = [year |-> Index(b) \div 12, month |-> (Index(b) % 12) + 1, day |-> x.day]
      /\ Index(b) \in Int
  BY <1>1, DateOf
<1>5. days_in_month(x.year, x.month) = MonthLen(Index(b))
  BY <1>4 DEF MonthLen
<1>6. x.year \in Int /\ x.month \in Int /\ i.year \in Int /\ i.month \in Int /\ Index(d) \in Int
  BY <1>1, ToDate, DateOf
<1>7. Index(b) = 12 * x.year + x.month - 1 /\ Index(d) = 12 * i.year + i.month - 1
  BY DEF Index, MonthIndex
<1> HIDE DEF x, i
<1>8. 12 * x.year + x.month = 12 * i.year + i.month + n
  <2> DEFINE xy == x.year
             xm == x.month
             iy == i.year
             im == i.month
  <2> SUFFICES 12 * xy + xm = 12 * iy + im + n
    OBVIOUS
  <2>1. xy \in Int /\ xm \in Int /\ iy \in Int /\ im \in Int
    BY <1>6
  <2>2. 12 * xy + xm - 1 = 12 * iy + im - 1 + n
    BY <1>2, <1>7
  <2> HIDE DEF xy, xm, iy, im
  <2> QED
    BY <2>1, <2>2
<1>9. x.day = MinOf(i.day, days_in_month(x.year, x.month))
  BY <1>2, <1>5
<1> QED
  BY <1>3, <1>8, <1>9 DEF i

\* Days apart are timestamps apart.
LEMMA Scaled ==
    ASSUME NEW a \in Int, NEW b \in Int, NEW c \in Int, a + c <= b
    PROVE  At(b) - At(a) >= c * DaySecs /\ At(a) \in Int /\ At(b) \in Int
<1>1. DaySecs \in Nat
  BY DaySecsAssumption
<1> QED
  BY <1>1 DEF At

LEMMA ScaledUp ==
    ASSUME NEW a \in Int, NEW b \in Int, NEW c \in Int, b <= a + c
    PROVE  At(b) - At(a) <= c * DaySecs
<1>1. DaySecs \in Nat
  BY DaySecsAssumption
<1> QED
  BY <1>1 DEF At

LEMMA ScaledOrder ==
    ASSUME NEW a \in Int, NEW b \in Int, a <= b
    PROVE  At(a) <= At(b)
<1>1. DaySecs \in Nat
  BY DaySecsAssumption
<1> QED
  BY <1>1 DEF At

\* Two billing dates in a row are 28 to 31 days apart: a clamped day is made up for by
\* the month after it.
LEMMA Advance ==
    ASSUME NEW d \in Nat, NEW n \in Nat
    PROVE  /\ next_billing_date(At(d), n + 1) - next_billing_date(At(d), n)
                 >= 28 * DaySecs
           /\ next_billing_date(At(d), n + 1) - next_billing_date(At(d), n)
                 <= 31 * DaySecs
<1> DEFINE j == Index(d) + n
           i == Ymd(d).day
           a == Billed(d, n)
           b == Billed(d, n + 1)
<1>0. n + 1 \in Nat
  OBVIOUS
<1>1. /\ next_billing_date(At(d), n) = At(a) /\ a \in Nat
      /\ next_billing_date(At(d), n + 1) = At(b) /\ b \in Nat
  BY <1>0, BilledOn
<1>2. i \in Int /\ 1 <= i /\ i <= MonthLen(Index(d)) /\ Index(d) \in Int
  BY DateOf
<1>3. /\ a = FirstOf(j) + MinOf(i, MonthLen(j)) - 1 - Epoch
      /\ b = FirstOf(j + 1) + MinOf(i, MonthLen(j + 1)) - 1 - Epoch
  <2>1. Index(d) + (n + 1) = j + 1
    BY <1>2
  <2> QED
    BY <2>1 DEF Billed, DayNumber
<1>4. j \in Int
  BY <1>2
<1> HIDE DEF a, b, j, i
<1>5. /\ FirstOf(j) \in Int /\ MonthLen(j) \in Int /\ 28 <= MonthLen(j) /\ MonthLen(j) <= 31
      /\ FirstOf(j + 1) = FirstOf(j) + MonthLen(j)
  BY <1>4, MonthNext
<1>6. MonthLen(j + 1) \in Int /\ 28 <= MonthLen(j + 1) /\ MonthLen(j + 1) <= 31
  BY <1>4, MonthNext
<1>7. a + 28 <= b /\ b <= a + 31
  BY <1>1, <1>2, <1>3, <1>5, <1>6 DEF MinOf, Epoch
<1> QED
  BY <1>1, <1>7, Scaled, ScaledUp

\* A lease that starts a day later is not billed earlier.
LEMMA Ordered ==
    ASSUME NEW d \in Nat, NEW n \in Nat
    PROVE  next_billing_date(At(d), n) <= next_billing_date(At(d + 1), n)
<1> DEFINE j == Index(d) + n
           k == Index(d + 1) + n
           x == Ymd(d).day
           y == Ymd(d + 1).day
           a == Billed(d, n)
           b == Billed(d + 1, n)
<1>0. d + 1 \in Nat
  OBVIOUS
<1>1. /\ next_billing_date(At(d), n) = At(a) /\ a \in Nat
      /\ next_billing_date(At(d + 1), n) = At(b) /\ b \in Nat
  BY <1>0, BilledOn
<1>2. /\ x \in Int /\ 1 <= x /\ x <= MonthLen(Index(d)) /\ Index(d) \in Int
      /\ y \in Int /\ 1 <= y /\ y <= MonthLen(Index(d + 1)) /\ Index(d + 1) \in Int
      /\ d + Epoch = FirstOf(Index(d)) + x - 1
      /\ (d + 1) + Epoch = FirstOf(Index(d + 1)) + y - 1
  BY DateOf
<1>3. /\ FirstOf(Index(d)) \in Int /\ MonthLen(Index(d)) \in Int
      /\ FirstOf(Index(d + 1)) \in Int /\ MonthLen(Index(d + 1)) \in Int
  BY <1>2, MonthNext
<1>4. ~(Index(d + 1) < Index(d))
  <2>1. Index(d + 1) < Index(d)
           => FirstOf(Index(d + 1)) + MonthLen(Index(d + 1)) <= FirstOf(Index(d))
    BY <1>2, MonthsGrow
  <2> QED
    BY <1>2, <1>3, <2>1 DEF Epoch
<1>5. /\ a = FirstOf(j) + MinOf(x, MonthLen(j)) - 1 - Epoch
      /\ b = FirstOf(k) + MinOf(y, MonthLen(k)) - 1 - Epoch
  BY DEF Billed, DayNumber
<1>6. j \in Int /\ k \in Int /\ j <= k /\ (j = k => Index(d) = Index(d + 1))
  BY <1>2, <1>4
<1> HIDE DEF j, k, x, y, a, b
<1>7. /\ FirstOf(j) \in Int /\ MonthLen(j) \in Int /\ 28 <= MonthLen(j)
      /\ FirstOf(k) \in Int /\ MonthLen(k) \in Int /\ 28 <= MonthLen(k)
  BY <1>6, MonthNext
<1>8. CASE j = k
  <2>1. x <= y
    BY <1>2, <1>3, <1>6, <1>8 DEF Epoch
  <2>2. a <= b
    BY <1>1, <1>2, <1>5, <1>7, <1>8, <2>1 DEF MinOf, Epoch
  <2> QED
    BY <1>1, <2>2, ScaledOrder
<1>9. CASE j < k
  <2>1. FirstOf(j) + MonthLen(j) <= FirstOf(k)
    BY <1>6, <1>9, MonthsGrow
  <2>2. a <= b
    BY <1>1, <1>2, <1>5, <1>7, <2>1 DEF MinOf, Epoch
  <2> QED
    BY <1>1, <2>2, ScaledOrder
<1> QED
  BY <1>6, <1>8, <1>9

-----------------------------------------------------------------------------
(***************************************************************************)
(* The other calendar, get_seconds_in_month. Its two while loops and its   *)
(* loop over the months are recursive functions; a closed form that        *)
(* satisfies the equation of such a function shows that the function       *)
(* exists, and the least place where a function that satisfies it could    *)
(* differ from the closed form shows that there is no other.               *)
(***************************************************************************)

\* The day on which year y starts, and the year of day n.
Jan(y) == FirstOf(12 * y) - Epoch

YearAt(n) == Index(n) \div 12

\* A year has the days that days_in_year gives it.
LEMMA YearSpan ==
    ASSUME NEW y \in Int
    PROVE  /\ Jan(y) \in Int /\ days_in_year(y) \in {365, 366}
           /\ Jan(y + 1) = Jan(y) + days_in_year(y)
           /\ Jan(y) = DaysToYear(y - 1) + 306 - Epoch
<1>1. \A x \in Int : FirstOf(12 * x) = DaysToYear(x - 1) + 306 /\ DaysToYear(x - 1) \in Int
  <2> TAKE x \in Int
  <2>1. FirstOf(12 * x) = DaysToYear(x - 1) + DaysToMonth(10)
    BY FirstAt
  <2>2. DaysToMonth(10) = 306
    BY DEF DaysToMonth
  <2>3. DaysToYear(x - 1) \in Int
    BY YearsGrow
  <2> QED
    BY <2>1, <2>2, <2>3
<1>2. DaysToYear((y - 1) + 1) = DaysToYear(y - 1) + (IF is_leap_year((y - 1) + 1) THEN 366 ELSE 365)
  BY YearLength
<1>3. (y - 1) + 1 = y /\ (y + 1) - 1 = y
  OBVIOUS
<1>4. FirstOf(12 * y) = DaysToYear(y - 1) + 306 /\ DaysToYear(y - 1) \in Int
  BY <1>1
<1>5. FirstOf(12 * (y + 1)) = DaysToYear(y) + 306
  BY <1>1, <1>3
<1>6. DaysToYear(y) = DaysToYear(y - 1) + days_in_year(y)
  BY <1>2, <1>3 DEF days_in_year
<1>7. days_in_year(y) \in {365, 366}
  BY DEF days_in_year
<1>8. Epoch \in Int
  BY DEF Epoch
<1> QED
  BY <1>4, <1>5, <1>6, <1>7, <1>8 DEF Jan

\* Months and years in order.
LEMMA FirstsGrow ==
    ASSUME NEW j \in Int, NEW k \in Int, j <= k
    PROVE  FirstOf(j) \in Int /\ FirstOf(k) \in Int /\ FirstOf(j) <= FirstOf(k)
<1>1. /\ FirstOf(j) \in Int /\ FirstOf(k) \in Int
      /\ MonthLen(j) \in Int /\ 28 <= MonthLen(j)
  BY MonthNext
<1>2. j < k => FirstOf(j) + MonthLen(j) <= FirstOf(k)
  BY MonthsGrow
<1> QED
  BY <1>1, <1>2

LEMMA JanGrows ==
    ASSUME NEW x \in Int, NEW y \in Int, x <= y
    PROVE  Jan(x) \in Int /\ Jan(y) \in Int /\ Jan(x) <= Jan(y)
<1>1. 12 * x \in Int /\ 12 * y \in Int /\ 12 * x <= 12 * y
  OBVIOUS
<1>2. FirstOf(12 * x) \in Int /\ FirstOf(12 * y) \in Int /\ FirstOf(12 * x) <= FirstOf(12 * y)
  BY <1>1, FirstsGrow
<1> QED
  BY <1>2 DEF Jan, Epoch

\* Every day lies in its year, and in no other.
LEMMA YearHolds ==
    ASSUME NEW n \in Int
    PROVE  YearAt(n) \in Int /\ Jan(YearAt(n)) <= n /\ n < Jan(YearAt(n) + 1)
<1> DEFINE k == Index(n)
           y == YearAt(n)
           d == Ymd(n).day
<1>1. /\ k \in Int /\ d \in Int /\ 1 <= d /\ d <= MonthLen(k)
      /\ n + Epoch = FirstOf(k) + d - 1
  BY DateOf
<1>2. y \in Int /\ 12 * y <= k /\ k + 1 <= 12 * (y + 1)
  <2>1. y = k \div 12
    BY DEF YearAt
  <2> HIDE DEF k, y
  <2> QED
    BY <1>1, <2>1
<1> HIDE DEF k, y, d
<1>3. FirstOf(12 * y) \in Int /\ FirstOf(12 * y) <= FirstOf(k)
  BY <1>1, <1>2, FirstsGrow
<1>4. FirstOf(12 * (y + 1)) \in Int /\ FirstOf(k + 1) <= FirstOf(12 * (y + 1))
  BY <1>1, <1>2, FirstsGrow
<1>5. FirstOf(k + 1) = FirstOf(k) + MonthLen(k) /\ FirstOf(k) \in Int /\ MonthLen(k) \in Int
  BY <1>1, MonthNext
<1>6. Jan(y) <= n /\ n < Jan(y + 1)
  BY <1>1, <1>3, <1>4, <1>5 DEF Jan, Epoch
<1> QED
  BY <1>2, <1>6 DEF y

LEMMA YearIs ==
    ASSUME NEW n \in Int, NEW y \in Int, Jan(y) <= n, n < Jan(y + 1)
    PROVE  YearAt(n) = y
<1> DEFINE x == YearAt(n)
<1>1. x \in Int /\ Jan(x) <= n /\ n < Jan(x + 1)
  BY YearHolds
<1> HIDE DEF x
<1>2. ~(x < y)
  <2>1. x < y => x + 1 \in Int /\ x + 1 <= y
    BY <1>1
  <2>2. x < y => Jan(x + 1) <= Jan(y) /\ Jan(x + 1) \in Int /\ Jan(y) \in Int
    BY <2>1, JanGrows
  <2> QED
    BY <1>1, <2>2
<1>3. ~(y < x)
  <2>1. y < x => y + 1 \in Int /\ y + 1 <= x
    BY <1>1
  <2>2. y < x => Jan(y + 1) <= Jan(x) /\ Jan(y + 1) \in Int /\ Jan(x) \in Int
    BY <1>1, <2>1, JanGrows
  <2> QED
    BY <1>1, <2>2
<1> QED
  BY <1>1, <1>2, <1>3 DEF x

\* Day n as the loops return it: the year and the days since its start.
YearDay(n) == <<YearAt(n), n - Jan(YearAt(n))>>

\* What the first loop returns, while remaining_days is negative.
Backed == [p \in Int \X Int |-> IF p[2] < 0 THEN YearDay(Jan(p[1]) + p[2]) ELSE p]

\* It satisfies the equation of GoBack,
LEMMA BackedStep ==
    ASSUME NEW y \in Int, NEW d \in Int
    PROVE  Backed[<<y, d>>]
             = IF d < 0 THEN Backed[<<y - 1, d + days_in_year(y - 1)>>] ELSE <<y, d>>
<1> DEFINE c == d + days_in_year(y - 1)
           n == Jan(y) + d
<1>1. y - 1 \in Int /\ (y - 1) + 1 = y
  OBVIOUS
<1>2. /\ Jan(y - 1) \in Int /\ Jan(y) \in Int /\ days_in_year(y - 1) \in Int
      /\ Jan(y) = Jan(y - 1) + days_in_year(y - 1)
  BY <1>1, YearSpan
<1>3. c \in Int /\ n \in Int /\ Jan(y - 1) + c = n
  BY <1>2
<1>4. \A x \in Int, e \in Int :
         Backed[<<x, e>>] = IF e < 0 THEN YearDay(Jan(x) + e) ELSE <<x, e>>
  BY DEF Backed
<1> HIDE DEF c
<1>5. CASE d >= 0
  BY <1>4, <1>5
<1>6. CASE d < 0 /\ c < 0
  <2>1. Backed[<<y, d>>] = YearDay(n) /\ Backed[<<y - 1, c>>] = YearDay(n)
    BY <1>1, <1>3, <1>4, <1>6
  <2> QED
    BY <1>6, <2>1 DEF c
<1>7. CASE d < 0 /\ c >= 0
  <2> HIDE DEF n
  <2>1. Jan(y - 1) <= n /\ n < Jan((y - 1) + 1)
    BY <1>1, <1>2, <1>3, <1>7 DEF n
  <2>2. YearAt(n) = y - 1
    BY <1>1, <1>3, <2>1, YearIs
  <2>3. n - Jan(y - 1) = c
    BY <1>2, <1>3
  <2>4. YearDay(n) = <<y - 1, c>>
    BY <2>2, <2>3 DEF YearDay
  <2>5. Backed[<<y, d>>] = YearDay(n) /\ Backed[<<y - 1, c>>] = <<y - 1, c>>
    BY <1>1, <1>3, <1>4, <1>7 DEF n
  <2> QED
    BY <1>7, <2>4, <2>5 DEF c
<1> QED
  BY <1>3, <1>5, <1>6, <1>7

\* nothing else does,
LEMMA BackedOnly ==
    ASSUME NEW f,
           f = [p \in Int \X Int |-> IF p[2] < 0
                                     THEN f[<<p[1] - 1, p[2] + days_in_year(p[1] - 1)>>]
                                     ELSE p],
           NEW y \in Int, NEW d \in Int
    PROVE  f[<<y, d>>] = Backed[<<y, d>>]
<1>1. \A x \in Int, e \in Int :
         f[<<x, e>>] = IF e < 0 THEN f[<<x - 1, e + days_in_year(x - 1)>>] ELSE <<x, e>>
  <2> TAKE x \in Int, e \in Int
  <2>1. <<x, e>> \in Int \X Int /\ <<x, e>>[1] = x /\ <<x, e>>[2] = e
    OBVIOUS
  <2> QED
    BY <2>1
<1>2. \A x \in Int, e \in Int :
         Backed[<<x, e>>] = IF e < 0 THEN Backed[<<x - 1, e + days_in_year(x - 1)>>] ELSE <<x, e>>
  BY BackedStep
<1> DEFINE Off(m) == \E x \in Int : f[<<x, -m>>] # Backed[<<x, -m>>]
           T == {m \in Nat : Off(m)}
<1> SUFFICES ASSUME f[<<y, d>>] # Backed[<<y, d>>] PROVE FALSE
  OBVIOUS
<1>3. d < 0
  BY <1>1, <1>2
<1>4. -d \in Nat /\ -(-d) = d
  BY <1>3
<1>5. -d \in T
  BY <1>4
<1>6. T \in SUBSET Nat /\ T # {}
  BY <1>5
<1> HIDE DEF T
<1>7. PICK m \in T : \A n \in T : m <= n
  BY <1>6, LeastNat
<1> USE DEF T
<1>8. m \in Nat
  BY <1>7
<1>9. PICK x \in Int : f[<<x, -m>>] # Backed[<<x, -m>>]
  BY <1>7
<1> HIDE DEF T
<1> DEFINE e == -m + days_in_year(x - 1)
<1>10. days_in_year(x - 1) \in {365, 366} /\ x - 1 \in Int
  BY DEF days_in_year
<1>11. e \in Int /\ e > -m /\ -m \in Int
  BY <1>8, <1>10
<1>12. -m < 0 /\ f[<<x - 1, e>>] # Backed[<<x - 1, e>>]
  BY <1>1, <1>2, <1>9, <1>11
<1> HIDE DEF e
<1>13. e < 0
  BY <1>1, <1>2, <1>10, <1>11, <1>12
<1>14. -e \in Nat /\ -(-e) = e /\ -e < m
  BY <1>8, <1>11, <1>13
<1>15. -e \in T
  <2>1. f[<<x - 1, -(-e)>>] # Backed[<<x - 1, -(-e)>>]
    BY <1>12, <1>14
  <2>2. Off(-e)
    BY <1>10, <2>1
  <2> HIDE DEF Off
  <2> QED
    BY <1>14, <2>2 DEF T
<1> QED
  BY <1>7, <1>8, <1>14, <1>15

\* so it is GoBack.
LEMMA GoBackIs ==
    ASSUME NEW y \in Int, NEW d \in Int
    PROVE  GoBack[<<y, d>>] = Backed[<<y, d>>]
<1> DEFINE Turn(f) == [p \in Int \X Int |-> IF p[2] < 0
                                THEN f[<<p[1] - 1, p[2] + days_in_year(p[1] - 1)>>]
                                ELSE p]
<1>1. Backed = Turn(Backed)
  <2>1. \A p \in Int \X Int : Backed[p] = Turn(Backed)[p]
    <3> TAKE p \in Int \X Int
    <3>1. PICK x \in Int, e \in Int : p = <<x, e>>
      OBVIOUS
    <3>2. p[1] = x /\ p[2] = e
      BY <3>1
    <3>3. Backed[<<x, e>>]
             = IF e < 0 THEN Backed[<<x - 1, e + days_in_year(x - 1)>>] ELSE <<x, e>>
      BY BackedStep
    <3> QED
      BY <3>1, <3>2, <3>3
  <2>2. Backed = [p \in Int \X Int |-> Backed[p]]
    BY DEF Backed
  <2> QED
    BY <2>1, <2>2
<1>2. GoBack = Turn(GoBack)
  BY <1>1, Zenon DEF GoBack
<1> QED
  BY <1>2, BackedOnly

\* What the second loop returns, while the year is too short.
Onward == [p \in Int \X Int |->
             IF p[2] >= days_in_year(p[1]) THEN YearDay(Jan(p[1]) + p[2]) ELSE p]

\* It satisfies the equation of GoOn,
LEMMA OnwardStep ==
    ASSUME NEW y \in Int, NEW d \in Int
    PROVE  Onward[<<y, d>>]
             = IF d >= days_in_year(y) THEN Onward[<<y + 1, d - days_in_year(y)>>] ELSE <<y, d>>
<1> DEFINE c == d - days_in_year(y)
           n == Jan(y) + d
<1>1. y + 1 \in Int
  OBVIOUS
<1>2. /\ Jan(y) \in Int /\ days_in_year(y) \in Int /\ Jan(y + 1) = Jan(y) + days_in_year(y)
      /\ days_in_year(y + 1) \in Int /\ Jan((y + 1) + 1) = Jan(y + 1) + days_in_year(y + 1)
  BY <1>1, YearSpan
<1>3. c \in Int /\ n \in Int /\ Jan(y + 1) + c = n
  BY <1>2
<1>4. \A x \in Int, e \in Int :
         Onward[<<x, e>>] = IF e >= days_in_year(x) THEN YearDay(Jan(x) + e) ELSE <<x, e>>
  BY DEF Onward
<1> HIDE DEF c
<1>5. CASE ~(d >= days_in_year(y))
  BY <1>4, <1>5
<1>6. CASE d >= days_in_year(y) /\ c >= days_in_year(y + 1)
  <2>1. Onward[<<y, d>>] = YearDay(n) /\ Onward[<<y + 1, c>>] = YearDay(n)
    BY <1>1, <1>3, <1>4, <1>6
  <2> QED
    BY <1>6, <2>1 DEF c
<1>7. CASE d >= days_in_year(y) /\ ~(c >= days_in_year(y + 1))
  <2>0. c >= 0
    BY <1>2, <1>7 DEF c
  <2>a. Onward[<<y, d>>] = YearDay(n)
    BY <1>4, <1>7
  <2> HIDE DEF n
  <2>1. Jan(y + 1) <= n /\ n < Jan((y + 1) + 1)
    BY <1>2, <1>3, <1>7, <2>0
  <2>2. YearAt(n) = y + 1
    BY <1>1, <1>3, <2>1, YearIs
  <2>3. n - Jan(y + 1) = c
    BY <1>2, <1>3
  <2>4. YearDay(n) = <<y + 1, c>>
    BY <2>2, <2>3 DEF YearDay
  <2>5. Onward[<<y + 1, c>>] = <<y + 1, c>>
    BY <1>1, <1>3, <1>4, <1>7
  <2> QED
    BY <1>7, <2>a, <2>4, <2>5 DEF c
<1> QED
  BY <1>3, <1>5, <1>6, <1>7

\* nothing else does,
LEMMA OnwardOnly ==
    ASSUME NEW f,
           f = [p \in Int \X Int |-> IF p[2] >= days_in_year(p[1])
                                     THEN f[<<p[1] + 1, p[2] - days_in_year(p[1])>>]
                                     ELSE p],
           NEW y \in Int, NEW d \in Int
    PROVE  f[<<y, d>>] = Onward[<<y, d>>]
<1>1. \A x \in Int, e \in Int :
         f[<<x, e>>] = IF e >= days_in_year(x) THEN f[<<x + 1, e - days_in_year(x)>>] ELSE <<x, e>>
  <2> TAKE x \in Int, e \in Int
  <2>1. <<x, e>> \in Int \X Int /\ <<x, e>>[1] = x /\ <<x, e>>[2] = e
    OBVIOUS
  <2> QED
    BY <2>1
<1>2. \A x \in Int, e \in Int :
         Onward[<<x, e>>]
           = IF e >= days_in_year(x) THEN Onward[<<x + 1, e - days_in_year(x)>>] ELSE <<x, e>>
  BY OnwardStep
<1>0. \A x \in Int : days_in_year(x) \in {365, 366}
  BY DEF days_in_year
<1> DEFINE Off(m) == \E x \in Int : f[<<x, m>>] # Onward[<<x, m>>]
           T == {m \in Nat : Off(m)}
<1> SUFFICES ASSUME f[<<y, d>>] # Onward[<<y, d>>] PROVE FALSE
  OBVIOUS
<1>3. d >= days_in_year(y)
  BY <1>1, <1>2
<1>4. d \in Nat
  BY <1>0, <1>3
<1>5. d \in T
  BY <1>4
<1>6. T \in SUBSET Nat /\ T # {}
  BY <1>5
<1> HIDE DEF T
<1>7. PICK m \in T : \A n \in T : m <= n
  BY <1>6, LeastNat
<1> USE DEF T
<1>8. m \in Nat
  BY <1>7
<1>9. PICK x \in Int : f[<<x, m>>] # Onward[<<x, m>>]
  BY <1>7
<1> HIDE DEF T
<1> DEFINE e == m - days_in_year(x)
<1>10. days_in_year(x) \in {365, 366} /\ x + 1 \in Int
  BY <1>0
<1>11. m >= days_in_year(x) /\ f[<<x + 1, e>>] # Onward[<<x + 1, e>>]
  <2>0. m \in Int
    BY <1>8
  <2>1. f[<<x, m>>] = IF m >= days_in_year(x) THEN f[<<x + 1, e>>] ELSE <<x, m>>
    BY <1>1, <2>0, Zenon
  <2>2. Onward[<<x, m>>] = IF m >= days_in_year(x) THEN Onward[<<x + 1, e>>] ELSE <<x, m>>
    BY <1>2, <1>8
  <2> QED
    BY <1>9, <2>1, <2>2
<1>12. e \in Nat /\ e < m
  BY <1>8, <1>10, <1>11
<1> HIDE DEF e
<1>13. Off(e)
  BY <1>10, <1>11
<1> HIDE DEF Off
<1>14. e \in T
  BY <1>12, <1>13 DEF T
<1> QED
  BY <1>7, <1>8, <1>12, <1>14

\* so it is GoOn.
LEMMA GoOnIs ==
    ASSUME NEW y \in Int, NEW d \in Int
    PROVE  GoOn[<<y, d>>] = Onward[<<y, d>>]
<1> DEFINE Turn(f) == [p \in Int \X Int |-> IF p[2] >= days_in_year(p[1])
                                THEN f[<<p[1] + 1, p[2] - days_in_year(p[1])>>]
                                ELSE p]
<1>1. Onward = Turn(Onward)
  <2>1. \A p \in Int \X Int : Onward[p] = Turn(Onward)[p]
    <3> TAKE p \in Int \X Int
    <3>1. PICK x \in Int, e \in Int : p = <<x, e>>
      OBVIOUS
    <3>2. p[1] = x /\ p[2] = e
      BY <3>1
    <3>3. Onward[<<x, e>>]
             = IF e >= days_in_year(x) THEN Onward[<<x + 1, e - days_in_year(x)>>] ELSE <<x, e>>
      BY OnwardStep
    <3> QED
      BY <3>1, <3>2, <3>3
  <2>2. Onward = [p \in Int \X Int |-> Onward[p]]
    BY DEF Onward
  <2> QED
    BY <2>1, <2>2
<1>2. GoOn = Turn(GoOn)
  BY <1>1, Zenon DEF GoOn
<1> QED
  BY <1>2, OnwardOnly

\* The day that lies d days after the start of month m of year y.
DayIn(y, m, d) == FirstOf(12 * y + m - 1) - Epoch + d

\* What the loop over the months finds, from any month on.
MonthFound ==
    [p \in Int \X (1..12) \X Int |->
       IF p[3] < days_in_month(p[1], p[2]) \/ p[2] = 12
       THEN p[2]
       ELSE MinOf(12, Index(DayIn(p[1], p[2], p[3])) - 12 * p[1] + 1)]

\* It satisfies the equation of MonthOf,
LEMMA MonthFoundStep ==
    ASSUME NEW y \in Int, NEW m \in 1..12, NEW d \in Int
    PROVE  /\ MonthFound[<<y, m, d>>]
               = IF d < days_in_month(y, m) \/ m = 12
                 THEN m
                 ELSE MonthFound[<<y, m + 1, d - days_in_month(y, m)>>]
           /\ days_in_month(y, m) \in Int
<1> DEFINE k == 12 * y + m - 1
           c == d - days_in_month(y, m)
           n == DayIn(y, m, d)
<1>1. k \in Int /\ k \div 12 = y /\ (k % 12) + 1 = m
  OBVIOUS
<1>2. days_in_month(y, m) = MonthLen(k)
  BY <1>1 DEF MonthLen
<1>a. \A e \in Int : n = DayIn(y, m, d) /\ DayIn(y, m, e) = FirstOf(k) - Epoch + e
  BY DEF DayIn
<1> HIDE DEF k
<1>3. /\ FirstOf(k) \in Int /\ MonthLen(k) \in Int
      /\ FirstOf(k + 1) = FirstOf(k) + MonthLen(k) /\ FirstOf(k + 1) \in Int
  BY <1>1, MonthNext
<1>4. \A z \in Int, i \in 1..12, e \in Int :
         MonthFound[<<z, i, e>>]
            = IF e < days_in_month(z, i) \/ i = 12
              THEN i ELSE MinOf(12, Index(DayIn(z, i, e)) - 12 * z + 1)
  BY DEF MonthFound
<1>5. CASE d < days_in_month(y, m) \/ m = 12
  BY <1>2, <1>3, <1>4, <1>5
<1>6. CASE ~(d < days_in_month(y, m) \/ m = 12)
  <2>1. m + 1 \in 1..12 /\ 12 * y + (m + 1) - 1 = k + 1
    BY <1>6 DEF k
  <2>2. c \in Int /\ c >= 0
    BY <1>2, <1>3, <1>6
  <2>3. n \in Int /\ n = DayIn(y, m + 1, c) /\ n + Epoch = FirstOf(k + 1) + c
    BY <1>a, <1>2, <1>3, <2>1, <2>2 DEF DayIn, Epoch
  <2>4. MonthFound[<<y, m, d>>] = MinOf(12, Index(n) - 12 * y + 1)
    BY <1>4, <1>6
  <2>5. MonthFound[<<y, m + 1, c>>]
            = IF c < days_in_month(y, m + 1) \/ m + 1 = 12
              THEN m + 1 ELSE MinOf(12, Index(n) - 12 * y + 1)
    BY <1>4, <2>1, <2>2, <2>3
  <2>6. days_in_month(y, m + 1) = MonthLen(k + 1)
    <3>1. (k + 1) \div 12 = y /\ ((k + 1) % 12) + 1 = m + 1
      BY <2>1 DEF k
    <3> QED
      BY <3>1 DEF MonthLen
  <2>7. Index(n) \in Int
    BY <2>3, DateOf
  <2> HIDE DEF c, n
  <2>8. CASE c < MonthLen(k + 1)
    <3>1. k + 1 \in Int /\ c + 1 \in Int /\ 1 <= c + 1 /\ c + 1 <= MonthLen(k + 1)
      BY <1>1, <2>2, <2>8, MonthNext
    <3>2. n + Epoch = FirstOf(k + 1) + (c + 1) - 1
      BY <1>3, <2>2, <2>3
    <3>3. Index(n) = k + 1
      BY <2>3, <3>1, <3>2, DateIs
    <3>4. MinOf(12, Index(n) - 12 * y + 1) = m + 1
      BY <2>1, <3>3 DEF MinOf, k
    <3> QED
      BY <1>2, <1>3, <1>6, <2>4, <2>5, <2>6, <2>8, <3>4 DEF c
  <2>9. CASE ~(c < MonthLen(k + 1)) /\ m + 1 = 12
    <3>1. Index(n) >= k + 1
      <4>1. /\ Ymd(n).day \in Int /\ Ymd(n).day <= MonthLen(Index(n))
            /\ n + Epoch = FirstOf(Index(n)) + Ymd(n).day - 1
        BY <2>3, DateOf
      <4>2. Index(n) < k + 1 => FirstOf(Index(n)) + MonthLen(Index(n)) <= FirstOf(k + 1)
        BY <1>1, <2>7, MonthsGrow
      <4>3. FirstOf(Index(n)) \in Int /\ MonthLen(Index(n)) \in Int
        BY <2>7, MonthNext
      <4> QED
        BY <1>1, <1>3, <2>2, <2>3, <2>7, <4>1, <4>2, <4>3 DEF Epoch
    <3>2. MinOf(12, Index(n) - 12 * y + 1) = 12
      BY <2>7, <2>9, <3>1 DEF MinOf, k
    <3> QED
      BY <1>2, <1>3, <1>6, <2>4, <2>5, <2>9, <3>2 DEF c
  <2>10. CASE ~(c < MonthLen(k + 1)) /\ m + 1 # 12
    BY <1>2, <1>3, <1>6, <2>4, <2>5, <2>6, <2>10 DEF c
  <2> QED
    BY <2>8, <2>9, <2>10
<1> QED
  BY <1>5, <1>6

\* nothing else does,
LEMMA MonthFoundOnly ==
    ASSUME NEW f,
           f = [p \in Int \X (1..12) \X Int |->
                  IF p[3] < days_in_month(p[1], p[2]) \/ p[2] = 12
                  THEN p[2]
                  ELSE f[<<p[1], p[2] + 1, p[3] - days_in_month(p[1], p[2])>>]],
           NEW y \in Int, NEW m \in 1..12, NEW d \in Int
    PROVE  f[<<y, m, d>>] = MonthFound[<<y, m, d>>]
<1>1. \A x \in Int, i \in 1..12, e \in Int :
         f[<<x, i, e>>] = IF e < days_in_month(x, i) \/ i = 12
                          THEN i ELSE f[<<x, i + 1, e - days_in_month(x, i)>>]
  <2> TAKE x \in Int, i \in 1..12, e \in Int
  <2>1. /\ <<x, i, e>> \in Int \X (1..12) \X Int
        /\ <<x, i, e>>[1] = x /\ <<x, i, e>>[2] = i /\ <<x, i, e>>[3] = e
    OBVIOUS
  <2> QED
    BY <2>1
<1>2. \A x \in Int, i \in 1..12, e \in Int :
         /\ MonthFound[<<x, i, e>>] = IF e < days_in_month(x, i) \/ i = 12
                          THEN i ELSE MonthFound[<<x, i + 1, e - days_in_month(x, i)>>]
         /\ days_in_month(x, i) \in Int
  BY MonthFoundStep
<1> DEFINE Off(i) == \E e \in Int : f[<<y, i, e>>] # MonthFound[<<y, i, e>>]
           T == {j \in Nat : j <= 11 /\ Off(12 - j)}
<1> SUFFICES ASSUME f[<<y, m, d>>] # MonthFound[<<y, m, d>>] PROVE FALSE
  OBVIOUS
<1>3. Off(m)
  OBVIOUS
<1> HIDE DEF Off
<1>4. 12 - m \in T
  <2>1. 12 - m \in Nat /\ 12 - m <= 11 /\ 12 - (12 - m) = m
    OBVIOUS
  <2> QED
    BY <1>3, <2>1
<1>5. T \in SUBSET Nat /\ T # {}
  BY <1>4
<1> HIDE DEF T
<1>6. PICK j \in T : \A n \in T : j <= n
  BY <1>5, LeastNat
<1> DEFINE i == 12 - j
<1>7. j \in Nat /\ j <= 11 /\ Off(i)
  BY <1>6 DEF T
<1>8. i \in 1..12
  BY <1>7
<1>a. j = 12 - i
  BY <1>7
<1> HIDE DEF i
<1>9. PICK e \in Int : f[<<y, i, e>>] # MonthFound[<<y, i, e>>]
  BY <1>7 DEF Off
<1> DEFINE g == e - days_in_month(y, i)
<1>10. g \in Int
  <2>1. days_in_month(y, i) \in Int
    BY <1>8, MonthFoundStep
  <2> QED
    BY <2>1
<1>11. i # 12 /\ f[<<y, i + 1, g>>] # MonthFound[<<y, i + 1, g>>]
  <2>1. f[<<y, i, e>>] = IF e < days_in_month(y, i) \/ i = 12 THEN i ELSE f[<<y, i + 1, g>>]
    BY <1>1, <1>8
  <2>2. MonthFound[<<y, i, e>>]
           = IF e < days_in_month(y, i) \/ i = 12 THEN i ELSE MonthFound[<<y, i + 1, g>>]
    BY <1>2, <1>8
  <2> QED
    BY <1>9, <2>1, <2>2
<1> HIDE DEF g
<1>12. Off(i + 1)
  BY <1>10, <1>11 DEF Off
<1>13. j - 1 \in Nat /\ j - 1 <= 11 /\ 12 - (j - 1) = i + 1
  BY <1>7, <1>8, <1>11, <1>a
<1>14. j - 1 \in T
  BY <1>12, <1>13 DEF T
<1> QED
  BY <1>6, <1>7, <1>14

\* so it is MonthOf.
LEMMA MonthOfIs ==
    ASSUME NEW y \in Int, NEW m \in 1..12, NEW d \in Int
    PROVE  MonthOf[<<y, m, d>>] = MonthFound[<<y, m, d>>]
<1> DEFINE Turn(f) == [p \in Int \X (1..12) \X Int |->
                  IF p[3] < days_in_month(p[1], p[2]) \/ p[2] = 12
                  THEN p[2]
                  ELSE f[<<p[1], p[2] + 1, p[3] - days_in_month(p[1], p[2])>>]]
<1>1. MonthFound = Turn(MonthFound)
  <2>1. \A p \in Int \X (1..12) \X Int : MonthFound[p] = Turn(MonthFound)[p]
    <3> TAKE p \in Int \X (1..12) \X Int
    <3>1. PICK x \in Int, i \in 1..12, e \in Int : p = <<x, i, e>>
      OBVIOUS
    <3>2. p[1] = x /\ p[2] = i /\ p[3] = e
      BY <3>1
    <3>3. MonthFound[<<x, i, e>>] = IF e < days_in_month(x, i) \/ i = 12
                          THEN i ELSE MonthFound[<<x, i + 1, e - days_in_month(x, i)>>]
      BY MonthFoundStep, SMTT(60)
    <3> QED
      BY <3>1, <3>2, <3>3
  <2>2. MonthFound = [p \in Int \X (1..12) \X Int |-> MonthFound[p]]
    BY DEF MonthFound
  <2> QED
    BY <2>1, <2>2
<1>2. MonthOf = Turn(MonthOf)
  BY <1>1, Zenon DEF MonthOf
<1> QED
  BY <1>2, MonthFoundOnly

\* The day whose month get_days_in_month finds.
DayLookedUp(d) == IF is_leap_year(1970 + d \div 365) THEN d - 1 ELSE d

\* The first estimate: leap_years_before(year) counts the leap day of that year, too, so
\* that the loops are given the day before when it is a leap year.
LEMMA Estimate ==
    ASSUME NEW n \in Nat, NEW year, year = 1970 + n \div 365
    PROVE  /\ year \in Int /\ (n % 365) - leap_years_before(year) \in Int
           /\ DayLookedUp(n) \in Nat
           /\ Jan(year) + ((n % 365) - leap_years_before(year)) = DayLookedUp(n)
<1> DEFINE q == n \div 365
           r == n % 365
           a == year \div 4
           b == year \div 100
           c == year \div 400
<1>1. q \in Nat /\ r \in Nat /\ n = 365 * q + r /\ year = 1970 + q
  OBVIOUS
<1>2. year \in Int /\ year >= 1970 /\ a \in Int /\ b \in Int /\ c \in Int
  BY <1>1
<1>3. /\ (year - 1968) \div 4 = a - 492
      /\ (year - 1900) \div 100 = b - 19
      /\ (year - 1600) \div 400 = c - 4
  BY <1>2
<1>4. leap_years_before(year) = a - b + c - 477
  BY <1>2, <1>3 DEF leap_years_before
<1>5. DaysToYear(year) = 365 * year + a - b + c
  BY DEF DaysToYear
<1> HIDE DEF q, r, a, b, c
<1>6. /\ DaysToYear((year - 1) + 1) = DaysToYear(year - 1)
                                         + (IF is_leap_year((year - 1) + 1) THEN 366 ELSE 365)
      /\ (year - 1) + 1 = year
  BY <1>2, YearLength
<1>7. Jan(year) \in Int /\ Jan(year) = DaysToYear(year - 1) + 306 - Epoch
  BY <1>2, YearSpan
<1>8. DaysToYear(year - 1) \in Int
  BY <1>2, YearsGrow
<1>9. DayLookedUp(n) = IF is_leap_year(year) THEN n - 1 ELSE n
  BY DEF DayLookedUp
<1>10. Jan(year) = 365 * q + 365 - (IF is_leap_year(year) THEN 366 ELSE 365) + a - b + c - 477
  BY <1>1, <1>2, <1>5, <1>6, <1>7, <1>8 DEF Epoch
<1>11. Jan(year) + (r - leap_years_before(year)) = DayLookedUp(n)
  BY <1>1, <1>2, <1>4, <1>9, <1>10
<1>12. n > 0 \/ ~is_leap_year(year)
  <2>1. CASE n = 0
    <3>1. year = 1970
      BY <2>1
    <3> QED
      BY <3>1 DEF is_leap_year
  <2> QED
    BY <2>1
<1>13. DayLookedUp(n) \in Nat
  BY <1>9, <1>12
<1> QED
  BY <1>1, <1>2, <1>4, <1>11, <1>13 DEF r

\* The loops correct the year without moving the day.
LEMMA CorrectedYear ==
    ASSUME NEW y \in Int, NEW d \in Int
    PROVE  GoOn[GoBack[<<y, d>>]] = YearDay(Jan(y) + d)
<1> DEFINE n == Jan(y) + d
           b == GoBack[<<y, d>>]
<1>0. Jan(y) \in Int /\ n \in Int
  BY YearSpan
<1>1. YearAt(n) \in Int /\ Jan(YearAt(n)) <= n /\ n < Jan(YearAt(n) + 1)
  BY <1>0, YearHolds
<1>2. b = IF d < 0 THEN YearDay(n) ELSE <<y, d>>
  BY GoBackIs DEF Backed
<1> HIDE DEF n, b
<1>3. PICK x \in Int, e \in Int : b = <<x, e>> /\ 0 <= e /\ Jan(x) + e = n /\ Jan(x) \in Int
  <2>1. CASE d < 0
    <3>1. Jan(YearAt(n)) \in Int
      BY <1>1, YearSpan
    <3>2. /\ n - Jan(YearAt(n)) \in Int /\ 0 <= n - Jan(YearAt(n))
          /\ Jan(YearAt(n)) + (n - Jan(YearAt(n))) = n
      BY <1>0, <1>1, <3>1
    <3>3. b = <<YearAt(n), n - Jan(YearAt(n))>>
      BY <1>2, <2>1 DEF YearDay
    <3> QED
      BY <1>1, <3>1, <3>2, <3>3
  <2>2. CASE 0 <= d
    BY <1>0, <1>2, <2>2 DEF n
  <2> QED
    BY <2>1, <2>2
<1>4. GoOn[<<x, e>>] = IF e >= days_in_year(x) THEN YearDay(Jan(x) + e) ELSE <<x, e>>
  BY GoOnIs DEF Onward
<1>5. CASE e >= days_in_year(x)
  BY <1>3, <1>4, <1>5 DEF b, n
<1>6. CASE ~(e >= days_in_year(x))
  <2>1. Jan(x + 1) = Jan(x) + days_in_year(x) /\ days_in_year(x) \in Int
    BY YearSpan
  <2>2. Jan(x) <= n /\ n < Jan(x + 1)
    BY <1>0, <1>3, <1>6, <2>1
  <2>3. YearAt(n) = x
    BY <1>0, <2>2, YearIs
  <2>4. n - Jan(x) = e
    BY <1>0, <1>3
  <2>5. YearDay(n) = <<x, e>>
    BY <2>3, <2>4 DEF YearDay
  <2> QED
    BY <1>3, <1>4, <1>6, <2>5 DEF b, n
<1> QED
  BY <1>5, <1>6

\* The month found is the month of the day.
LEMMA MonthOfDay ==
    ASSUME NEW n \in Int
    PROVE  MonthOf[<<YearAt(n), 1, n - Jan(YearAt(n))>>] = (Index(n) % 12) + 1
<1> DEFINE k == Index(n)
           y == YearAt(n)
           d == n - Jan(y)
<1>1. k \in Int
  BY DateOf
<1>2. y \in Int /\ Jan(y) <= n /\ n < Jan(y + 1)
  BY YearHolds
<1>3. Jan(y) \in Int /\ Jan(y) = FirstOf(12 * y) - Epoch
  BY <1>2, YearSpan DEF Jan
<1>4. y = k \div 12
  BY DEF YearAt
<1> HIDE DEF k, y
<1>5. d \in Int /\ 0 <= d
  BY <1>2, <1>3
<1>6. FirstOf(12 * y) \in Int /\ 12 * y \in Int
  BY <1>2, MonthNext
<1>7. DayIn(y, 1, d) = n
  BY <1>2, <1>3, <1>6 DEF DayIn, Epoch
<1> HIDE DEF d
<1>8. MonthOf[<<y, 1, d>>] = IF d < days_in_month(y, 1) THEN 1 ELSE MinOf(12, k - 12 * y + 1)
  <2>1. 1 \in 1..12 /\ 1 # 12
    OBVIOUS
  <2>2. MonthOf[<<y, 1, d>>] = MonthFound[<<y, 1, d>>]
    BY <1>2, <1>5, <2>1, MonthOfIs
  <2>3. MonthFound[<<y, 1, d>>] = IF d < days_in_month(y, 1)
                                  THEN 1 ELSE MinOf(12, Index(DayIn(y, 1, d)) - 12 * y + 1)
    BY <1>2, <1>5, <2>1 DEF MonthFound
  <2> QED
    BY <1>7, <2>2, <2>3 DEF k
<1>9. CASE d < days_in_month(y, 1)
  <2>1. days_in_month(y, 1) = 31
    BY DEF days_in_month
  <2>2. MonthLen(12 * y) = 31
    <3>1. (12 * y) % 12 = 0
      BY <1>2
    <3> QED
      BY <3>1 DEF MonthLen, days_in_month
  <2>3. n + Epoch = FirstOf(12 * y) + (d + 1) - 1
    BY <1>2, <1>3, <1>5, <1>6 DEF Epoch, d
  <2>4. d + 1 \in Int /\ 1 <= d + 1 /\ d + 1 <= MonthLen(12 * y)
    BY <1>5, <1>9, <2>1, <2>2
  <2>5. k = 12 * y
    BY <1>6, <2>3, <2>4, DateIs DEF k
  <2> QED
    BY <1>2, <1>8, <1>9, <2>5 DEF k, y, d
<1>10. CASE ~(d < days_in_month(y, 1))
  <2>1. MinOf(12, k - 12 * y + 1) = (k % 12) + 1
    BY <1>1, <1>4 DEF MinOf
  <2> QED
    BY <1>8, <1>10, <2>1 DEF k, y, d
<1> QED
  BY <1>9, <1>10

\* The length of the month is that of the day looked up.
LEMMA MonthLookedUp ==
    ASSUME NEW n \in Nat
    PROVE  get_days_in_month(n)
             = days_in_month(Ymd(DayLookedUp(n)).year, Ymd(DayLookedUp(n)).month)
<1> DEFINE year == 1970 + n \div 365
           days == (n % 365) - leap_years_before(year)
           l    == DayLookedUp(n)
           on   == GoOn[GoBack[<<year, days>>]]
<1>1. year \in Int /\ days \in Int /\ l \in Nat /\ Jan(year) + days = l
  BY Estimate
<1>2. get_days_in_month(n) = days_in_month(on[1], MonthOf[<<on[1], 1, on[2]>>])
  BY DEF get_days_in_month
<1> HIDE DEF year, days, l
<1>3. on = <<YearAt(l), l - Jan(YearAt(l))>>
  BY <1>1, CorrectedYear DEF YearDay
<1> HIDE DEF on
<1>4. on[1] = YearAt(l) /\ on[2] = l - Jan(YearAt(l))
  BY <1>3
<1>5. MonthOf[<<on[1], 1, on[2]>>] = (Index(l) % 12) + 1
  BY <1>1, <1>4, MonthOfDay
<1>6. Ymd(l).year = YearAt(l) /\ Ymd(l).month = (Index(l) % 12) + 1
  BY <1>1, DateOf DEF YearAt
<1> QED
  BY <1>2, <1>4, <1>5, <1>6 DEF l

-----------------------------------------------------------------------------
(***************************************************************************)
(* Refunds and deposit splits.                                             *)
(***************************************************************************)

\* Whatever calendar arithmetic says, a month has 28 to 31 days: the divisor
\* of the proration is never zero (get_seconds_in_month).
LEMMA MonthLength ==
    ASSUME NEW timestamp
    PROVE  /\ get_days_in_month(timestamp \div DaySecs) \in 28..31
           /\ get_seconds_in_month(timestamp) \in Nat \ {0}
<1> DEFINE days == timestamp \div DaySecs
           year == 1970 + days \div 365
           back == GoBack[<<year, (days % 365) - leap_years_before(year)>>]
           on   == GoOn[back]
           mon  == MonthOf[<<on[1], 1, on[2]>>]
<1> HIDE DEF days, year, back, on, mon
<1>1. \A y, m : days_in_month(y, m) \in 28..31
  BY DEF days_in_month
<1>2. days_in_month(on[1], mon) \in 28..31
  BY <1>1
<1>3. get_days_in_month(days) = days_in_month(on[1], mon)
  BY DEF get_days_in_month, year, back, on, mon
<1>4. get_days_in_month(days) \in 28..31
  BY <1>2, <1>3
<1> QED
  BY <1>4, DaySecsAssumption DEF get_seconds_in_month, days

\* A termination refund leaves the protocol at least one unit, and stays within what was
\* paid and within the prorated rent (calculate_termination_refund).
LEMMA RefundsBounded ==
    ASSUME NEW rent \in Nat, rent > 0, NEW start \in Int, NEW end \in Int, NEW time \in Int,
           NEW paid \in Nat, start < time, time < end
    PROVE  RefundBounded(rent, start, end, time, paid)
<1> DEFINE month == get_seconds_in_month(time)
           share == (rent * (end - time)) \div month
           least == MinOf(paid, share)
<1>1. month \in Nat \ {0}
  BY MonthLength
<1>2. share \in Nat
  <2> DEFINE n == rent * (end - time)
  <2> HIDE DEF month
  <2>1. end - time \in Nat
    OBVIOUS
  <2>2. n \in Nat
    BY <2>1
  <2> HIDE DEF n
  <2>3. n \div month \in Nat
    BY <1>1, <2>2
  <2> QED
    BY <2>3 DEF n
<1>3. /\ calculate_termination_refund(rent, start, end, time, paid)
            = IF least > 0 THEN least - 1 ELSE 0
      /\ calculate_prorated_rent(rent, time, end) = share
  BY DEF calculate_termination_refund, calculate_prorated_rent
<1> HIDE DEF share
<1>4. least \in Nat /\ least <= paid /\ least <= share
  BY <1>2 DEF MinOf
<1> HIDE DEF least
<1> QED
  BY <1>2, <1>3, <1>4 DEF RefundBounded

\* Money is never created by rounding, for any rent, dates and amounts: a termination
\* refund stays within what was paid and within the prorated rent of the unused period,
\* and the parts of a deposit are not negative and add up to it
\* (calculate_termination_refund, calculate_deposit_split).
THEOREM SharesAlwaysBounded ==
    /\ \A rent \in Nat \ {0}, start, end, time \in Int, paid \in Nat :
          start < time /\ time < end => RefundBounded(rent, start, end, time, paid)
    /\ \A total, bps \in Nat : DepositSplitExact(total, bps)
<1>1. ASSUME NEW rent \in Nat \ {0}, NEW start \in Int, NEW end \in Int, NEW time \in Int,
             NEW paid \in Nat, start < time, time < end
      PROVE  RefundBounded(rent, start, end, time, paid)
  <2>1. rent \in Nat /\ rent > 0
    OBVIOUS
  <2> QED
    BY <1>1, <2>1, RefundsBounded
<1>2. ASSUME NEW total \in Nat, NEW bps \in Nat PROVE DepositSplitExact(total, bps)
  <2> DEFINE b == MinOf(bps, 10000)
             n == total * b
             q == n \div 10000
             s == calculate_deposit_split(total, bps)
  <2>1. b \in Nat /\ b <= 10000
    BY DEF MinOf
  <2> HIDE DEF b
  <2>2. n \in Nat /\ n <= total * 10000
    BY <2>1
  <2>3. s.landlord = q /\ s.tenant = total - q
    BY DEF calculate_deposit_split, b
  <2> HIDE DEF s, n
  <2>4. q \in Nat /\ q <= total /\ q * 10000 <= n
    BY <2>2
  <2> HIDE DEF q
  <2> QED
    BY <2>3, <2>4 DEF DepositSplitExact, s, n, b
<1> QED
  BY <1>1, <1>2

-----------------------------------------------------------------------------
(***************************************************************************)
(* The properties that MCLeaseMath checks day by day, for every day.       *)
(***************************************************************************)

\* A walk that starts at the epoch or later stays there.
LEMMA DaysAreNat == Spec => [](day \in Nat)
<1>1. Init => day \in Nat
  BY StartsAssumption DEF Init
<1>2. day \in Nat /\ [NextDay]_day => (day \in Nat)'
  BY DEF NextDay
<1> QED
  BY <1>1, <1>2, PTL DEF Spec

\* On every day since 1970 ymd_to_timestamp inverts timestamp_to_ymd and the next day has
\* the next date.
THEOREM CalendarIsFaithful == Spec => []CalendarFaithful
<1>1. day \in Nat => CalendarFaithful
  BY DatesInvert, Tomorrow DEF CalendarFaithful
<1> QED
  BY <1>1, DaysAreNat, PTL

\* How far the month used for proration can be off: get_seconds_in_month gives the length
\* of the month before on the first day of a month, when the estimated year is a leap year,
\* and is right on every other day.
THEOREM MonthWrongOnlyOnTheFirst ==
    ASSUME NEW n \in Nat,
           Ymd(n).day # 1 \/ ~is_leap_year(1970 + n \div 365)
    PROVE  get_days_in_month(n) = days_in_month(Ymd(n).year, Ymd(n).month)
<1>1. get_days_in_month(n)
        = days_in_month(Ymd(DayLookedUp(n)).year, Ymd(DayLookedUp(n)).month)
  BY MonthLookedUp
<1>2. CASE ~is_leap_year(1970 + n \div 365)
  BY <1>1, <1>2 DEF DayLookedUp
<1>3. CASE is_leap_year(1970 + n \div 365)
  <2> DEFINE k == Index(n)
             d == Ymd(n).day
  <2>1. DayLookedUp(n) = n - 1 /\ n - 1 \in Int
    BY <1>3 DEF DayLookedUp
  <2>2. /\ Ymd(n).year = k \div 12 /\ Ymd(n).month = (k % 12) + 1
        /\ k \in Int /\ d \in Int /\ 1 <= d /\ d # 1 /\ d <= MonthLen(k)
        /\ n + Epoch = FirstOf(k) + d - 1
    BY <1>3, DateOf
  <2>3. /\ Ymd(n - 1).year = Index(n - 1) \div 12
        /\ Ymd(n - 1).month = (Index(n - 1) % 12) + 1
    BY <2>1, DateOf
  <2>4. FirstOf(k) \in Int /\ MonthLen(k) \in Int
    BY <2>2, MonthNext
  <2> HIDE DEF k, d
  <2>5. /\ d - 1 \in Int /\ 1 <= d - 1 /\ d - 1 <= MonthLen(k)
        /\ (n - 1) + Epoch = FirstOf(k) + (d - 1) - 1
    BY <2>2, <2>4 DEF Epoch
  <2>6. Index(n - 1) = k
    BY <2>1, <2>2, <2>5, DateIs
  <2> QED
    BY <1>1, <2>1, <2>2, <2>3, <2>6
<1> QED
  BY <1>2, <1>3

\* From every start, billing dates never drift from their anchor, are 28 to 31 days apart
\* and keep the order in which the leases started (next_billing_date).
THEOREM BillingDatesAreSound == Spec => []BillingDatesSound
<1>1. ASSUME day \in Nat PROVE BillingDateAnchored
  <2> SUFFICES ASSUME NEW n \in 1..MaxCycles
               PROVE  LET i == Ymd(day)
                          b == timestamp_to_ymd(next_billing_date(day * DaySecs, n))
                      IN  /\ 12 * b.year + b.month = 12 * i.year + i.month + n
                          /\ b.day = MinOf(i.day, days_in_month(b.year, b.month))
    BY DEF BillingDateAnchored
  <2>1. n \in Nat
    BY MaxCyclesAssumption
  <2> QED
    BY <1>1, <2>1, Anchored DEF At
<1>2. ASSUME day \in Nat PROVE BillingDatesAdvance
  <2> SUFFICES ASSUME NEW n \in 1..MaxCycles
               PROVE  LET step == next_billing_date(day * DaySecs, n)
                                    - next_billing_date(day * DaySecs, n - 1)
                      IN  step >= 28 * DaySecs /\ step <= 31 * DaySecs
    BY DEF BillingDatesAdvance
  <2>1. n - 1 \in Nat /\ (n - 1) + 1 = n
    BY MaxCyclesAssumption
  <2>2. /\ next_billing_date(At(day), (n - 1) + 1) - next_billing_date(At(day), n - 1)
              >= 28 * DaySecs
        /\ next_billing_date(At(day), (n - 1) + 1) - next_billing_date(At(day), n - 1)
              <= 31 * DaySecs
    BY <1>2, <2>1, Advance
  <2> QED
    BY <2>1, <2>2 DEF At
<1>3. ASSUME day \in Nat PROVE BillingOrderPreserved
  <2> SUFFICES ASSUME NEW n \in 1..MaxCycles
               PROVE  next_billing_date(day * DaySecs, n)
                         <= next_billing_date((day + 1) * DaySecs, n)
    BY DEF BillingOrderPreserved
  <2>1. n \in Nat
    BY MaxCyclesAssumption
  <2>2. next_billing_date(At(day), n) <= next_billing_date(At(day + 1), n)
    BY <1>3, <2>1, Ordered
  <2> QED
    BY <2>2 DEF At
<1>4. day \in Nat => BillingDatesSound
  BY <1>1, <1>2, <1>3 DEF BillingDatesSound
<1> QED
  BY <1>4, DaysAreNat, PTL

\* On every day refunds stay within what was paid and prorated, and the parts of a deposit
\* add up to it (calculate_termination_refund, calculate_deposit_split).
THEOREM SharesStayBounded == Spec => []SharesBounded
<1>1. ASSUME day \in Nat,
             NEW rent \in Rents, NEW before \in {1, 3}, NEW span \in Spans,
             NEW paid \in {0, 1, 50, 500}
      PROVE  RefundBounded(rent, day * DaySecs - before * DaySecs,
                           day * DaySecs + span * DaySecs, day * DaySecs, paid)
  <2>1. rent \in Nat \ {0} /\ paid \in Nat /\ span \in Nat \ {0} /\ before \in Nat \ {0}
    BY DEF Rents, Spans
  <2>0. rent \in Nat /\ rent > 0
    BY DEF Rents
  <2>2. /\ day * DaySecs \in Int /\ before * DaySecs \in Nat \ {0}
        /\ span * DaySecs \in Nat \ {0}
    BY <1>1, <2>1, DaySecsAssumption
  <2> DEFINE t == day * DaySecs
             b == before * DaySecs
             s == span * DaySecs
  <2>3. t \in Int /\ b \in Nat \ {0} /\ s \in Nat \ {0}
    BY <2>2
  <2> HIDE DEF t, b, s
  <2> DEFINE start == t - b
             end == t + s
  <2>4. start \in Int /\ end \in Int /\ start < t /\ t < end
    BY <2>3
  <2> HIDE DEF start, end
  <2>5. RefundBounded(rent, start, end, t, paid)
    BY <2>0, <2>1, <2>3, <2>4, RefundsBounded
  <2> QED
    BY <2>5 DEF t, b, s, start, end
<1>2. ASSUME day \in Nat, NEW total \in {0, 1, 3, 10 + (day % 1000)},
             NEW bps \in {0, 1, 3333, 9999, 10000, 20000}
      PROVE  DepositSplitExact(total, bps)
  <2>1. total \in Nat /\ bps \in Nat
    BY <1>2
  <2> QED
    BY <2>1, SharesAlwaysBounded
<1>3. day \in Nat => SharesBounded
  BY <1>1, <1>2 DEF SharesBounded
<1> QED
  BY <1>3, DaysAreNat, PTL
=============================================================================
