-------------------------------- MODULE Dates --------------------------------
(***************************************************************************)
(* How the validation tools read a date (parse_date and                    *)
(* SUPPORTED_DATE_FORMATS of src/domain/validation_tools.py), and how      *)
(* documents print one.                                                    *)
(*                                                                         *)
(* A text is the separator a date is printed with and the three numbers    *)
(* between them; a month printed by its English name comes with the        *)
(* separator "name".  A date is year, month, day; what a text is read as   *)
(* is a set, empty when no layout fits.                                    *)
(***************************************************************************)
EXTENDS Integers, Sequences, FiniteSetsExt

Layout(sep, order) == [sep |-> sep, order |-> order]

(* In the order strptime is tried.                                         *)
SupportedDateFormats ==
  <<Layout("/", <<"d", "m", "y">>),
    Layout("-", <<"d", "m", "y">>),
    Layout(".", <<"d", "m", "y">>),
    Layout("-", <<"y", "m", "d">>),
    Layout("/", <<"y", "m", "d">>),
    Layout("/", <<"m", "d", "y">>),
    Layout("name", <<"d", "m", "y">>)>>

Unprinted == [sep |-> "", parts |-> <<0, 0, 0>>]

Leap(year) == year % 4 = 0 /\ (year % 100 # 0 \/ year % 400 = 0)

DaysIn(year, month) ==
  CASE month = 2             -> IF Leap(year) THEN 29 ELSE 28
    [] month \in {4, 6, 9, 11} -> 30
    [] OTHER                 -> 31

Calendar(date) ==
  /\ date[1] \in 1000..9999 /\ date[2] \in 1..12
  /\ date[3] \in 1..DaysIn(date[1], date[2])

(* strptime of one format.                                                 *)
InLayout(text, layout) ==
  LET number == [p \in {"y", "m", "d"} |->
                   text.parts[CHOOSE i \in 1..3 : layout.order[i] = p]]
      date   == <<number["y"], number["m"], number["d"]>>
  IN IF text.sep = layout.sep /\ Calendar(date) THEN {date} ELSE {}

(* Seeded fault: the month-first layout is tried before the day-first one. *)
month_first(text) ==
  LET american == InLayout(text, Layout("/", <<"m", "d", "y">>))
  IN IF american # {} THEN american
     ELSE UNION {InLayout(text, SupportedDateFormats[i]) :
                   i \in DOMAIN SupportedDateFormats}

parse_date(text) ==
  LET fitting == {i \in DOMAIN SupportedDateFormats :
                    InLayout(text, SupportedDateFormats[i]) # {}}
  IN IF fitting = {} THEN {} ELSE InLayout(text, SupportedDateFormats[Min(fitting)])

Before(date, other) ==
  LET ordinal(d) == 10000 * d[1] + 100 * d[2] + d[3]
  IN ordinal(date) < ordinal(other)

(* %y%m%d, as a CURP encodes it.                                           *)
ShortDate(date) == <<date[1] % 100, date[2], date[3]>>

-----------------------------------------------------------------------------
PrintedDate(date, layout) ==
  LET number == [y |-> date[1], m |-> date[2], d |-> date[3]]
  IN [sep |-> layout.sep, parts |-> [i \in 1..3 |-> number[layout.order[i]]]]

(* The reader cannot tell the American layout from the day-first one when  *)
(* the day could be a month.                                               *)
Ambiguous(date, layout) == layout = Layout("/", <<"m", "d", "y">>) /\ date[3] <= 12
=============================================================================
