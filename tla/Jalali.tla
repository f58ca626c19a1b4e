-------------------------------- MODULE Jalali --------------------------------
(***************************************************************************)
(* The date in the texts of notifications: jalali() of                     *)
(* hub/icsd_hub/notify.py computes the Iranian date from the Gregorian one *)
(* with divisions of the number of days. Here it is compared, day by day,  *)
(* with a calendar that is counted: the months have 31, 31, 31, 31, 31,    *)
(* 31, 30, 30, 30, 30, 30 and 29 or 30 days. The hour, the time zone and   *)
(* the Persian digits are left out.                                        *)
(***************************************************************************)
EXTENDS Integers, Sequences

CONSTANT LastYear    \* bound: the Gregorian year the count ends with

VARIABLES
    greg,    \* the Gregorian date <<year, month, day>>
    iran     \* the Iranian date, counted

jalaliVars == <<greg, iran>>

GregLeap(y)    == y % 4 = 0 /\ (y % 100 # 0 \/ y % 400 = 0)
GregDays(y, m) == IF m = 2 THEN (IF GregLeap(y) THEN 29 ELSE 28)
                  ELSE IF m \in {4, 6, 9, 11} THEN 30 ELSE 31

\* The leap years of the Iranian calendar between 1210 and 1500: those that
\* leave one of these remainders.
IranLeap(y)    == y % 33 \in {1, 5, 9, 13, 17, 22, 26, 30}
IranDays(y, m) == IF m <= 6 THEN 31 ELSE IF m <= 11 \/ IranLeap(y) THEN 30 ELSE 29

NextDay(date, Days(_, _)) ==
    LET y == date[1]
        m == date[2]
    IN IF date[3] < Days(y, m) THEN <<y, m, date[3] + 1>>
       ELSE IF m < 12 THEN <<y, m + 1, 1>> ELSE <<y + 1, 1, 1>>

\* g_d_m: the days before a month in a year that is not a leap year.
DaysBefore == <<0, 31, 59, 90, 120, 151, 181, 212, 243, 273, 304, 334>>

M_DayNumber(gy, gm, gd) ==
    355666 + 365 * gy + ((gy + 3) \div 4) - ((gy + 99) \div 100) + ((gy + 399) \div 400)
    + gd + DaysBefore[gm]

\* The number of the day, counted from the beginning of a 33-year cycle.
DayNumber(gy, gm, gd) ==
    LET gy2 == IF gm > 2 THEN gy + 1 ELSE gy
    IN 355666 + 365 * gy + ((gy2 + 3) \div 4) - ((gy2 + 99) \div 100) + ((gy2 + 399) \div 400)
       + gd + DaysBefore[gm]

\* Month and day of the n-th day of a year, from 0.
MonthAndDay(n) ==
    IF n < 186 THEN <<1 + (n \div 31), 1 + (n % 31)>>
    ELSE <<7 + ((n - 186) \div 30), 1 + ((n - 186) % 30)>>

\* jalali: cycles of 33 years, then of four, then years; the first year of
\* four has the leap day.
JalaliDate(g) ==
    LET all   == DayNumber(g[1], g[2], g[3])
        cycle == all % 12053
        four  == cycle % 1461
        jy    == 33 * (all \div 12053) - 1595 + 4 * (cycle \div 1461)
    IN IF four > 365 THEN <<jy + ((four - 1) \div 365)>> \o MonthAndDay((four - 1) % 365)
       ELSE <<jy>> \o MonthAndDay(four)

\* 25 February 1996 was the sixth day of the last month of 1374.
JalaliInit == greg = <<1996, 2, 25>> /\ iran = <<1374, 12, 6>>

JalaliNext ==
    /\ greg[1] < LastYear
    /\ greg' = NextDay(greg, GregDays)
    /\ iran' = NextDay(iran, IranDays)

JalaliSpec == JalaliInit /\ [][JalaliNext]_jalaliVars

-----------------------------------------------------------------------------
\* jalali() gives the date of the Iranian calendar for every day: no day is
\* left out, repeated or put in the wrong year, at the ends of months and of
\* years, in leap years of either calendar and in years that are leap years
\* in one of them only.
JalaliCounts == JalaliDate(greg) = iran
=============================================================================
