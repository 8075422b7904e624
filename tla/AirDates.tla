------------------------------ MODULE AirDates ------------------------------
(***************************************************************************)
(* The years a ranking is limited to, api/ranking.rs.  What the user chose *)
(* is nothing, a year, a month or a range of months; each is numbers that  *)
(* need not be a year or a month.  The filter that goes to Bangumi is the  *)
(* first month of the time asked for and the first month after it.         *)
(***************************************************************************)
EXTENDS Integers

CONSTANTS LastYear,  \* the last year that is taken for one, 9999
          Written    \* the numbers the user writes

ASSUME AirDatesAssumption == LastYear \in Nat \ {0} /\ Written \subseteq Int

VARIABLES chosen,  \* what the user chose
          dates    \* build_air_date_filter of it

airVars == <<chosen, dates>>

AllYears == [form |-> "all", start |-> <<0, 0>>, end |-> <<0, 0>>]
NoDates == <<>>

AirInit == chosen = AllYears /\ dates = NoDates

(* YearMonth; parse_year_month has none for other numbers.                 *)
YearMonth == {d \in Written \X Written : d[1] \in 1..LastYear /\ d[2] \in 1..12}
NotAfter(a, b) == a[1] < b[1] \/ (a[1] = b[1] /\ a[2] <= b[2])

\* Mutant: after the twelfth month of a year comes the thirteenth.
NextMonthOnly(a) == <<a[1], a[2] + 1>>
NextYearMonth(a) == IF a[2] = 12 THEN <<a[1] + 1, 1>> ELSE <<a[1], a[2] + 1>>

(* Anything that cannot be read, and a range that ends before it starts,   *)
(* leaves the years unlimited.                                             *)
AirDateFilter(choice) ==
  CASE choice.form = "range" /\ {choice.start, choice.end} \subseteq YearMonth
       /\ NotAfter(choice.start, choice.end) ->
         <<choice.start, NextYearMonth(choice.end)>>
    [] choice.form = "month" /\ choice.start \in YearMonth ->
         <<choice.start, NextYearMonth(choice.start)>>
    [] choice.form = "year" /\ choice.start[1] \in 1..LastYear ->
         <<<<choice.start[1], 1>>, <<choice.start[1] + 1, 1>>>>
    [] OTHER -> NoDates

Choice == [form : {"year", "month", "range"}, start : Written \X Written,
           end : Written \X Written]

(* fetch_bangumi_subjects_v0 and its callers.                              *)
Limit ==
  /\ chosen = AllYears
  /\ chosen' \in Choice
  /\ dates' = AirDateFilter(chosen')

-----------------------------------------------------------------------------
(* The half-open interval that is sent holds the months that were chosen   *)
(* and no other, over the turn of a year and in the last year there is;    *)
(* without a sound choice there is no interval.                            *)
DatesAsChosen ==
  LET years == Written \cup {y + 1 : y \in Written}
      months == {<<y, m>> : y \in years, m \in 1..12}
      asked(d) == CASE chosen.form = "year" -> d[1] = chosen.start[1]
                    [] chosen.form = "month" -> d = chosen.start
                    [] OTHER -> NotAfter(chosen.start, d)
                                /\ NotAfter(d, chosen.end)
      valid(d) == d[1] \in 1..LastYear /\ d[2] \in 1..12
      sound == CASE chosen.form = "year" -> chosen.start[1] \in 1..LastYear
                 [] chosen.form = "month" -> valid(chosen.start)
                 [] chosen.form = "range" ->
                      /\ valid(chosen.start) /\ valid(chosen.end)
                      /\ NotAfter(chosen.start, chosen.end)
                 [] OTHER -> FALSE
  IN IF ~sound THEN dates = NoDates
     ELSE /\ dates[1] \in months /\ dates[2] \in months
          /\ \A d \in months :
               (NotAfter(dates[1], d) /\ ~NotAfter(dates[2], d)) <=> asked(d)
=============================================================================
