----------------------------- MODULE MCReports -----------------------------
(***************************************************************************)
(* The books over the turn of the year 2024, the lists and the statistics   *)
(* asked of them in every state, from sessions in three time zones.         *)
(***************************************************************************)
EXTENDS MCBooks, Statistics

MCYears == 2022..2025
MCAskedYears == {2023, 2024}
MCMonths == {-10, 0, 2, 14}
MCZones == {-1, 0, 1}

\* Noon in UTC, and already the new year in the east; midnight in UTC, and
\* still the old year in the west.
LastNoon == Midnight(Date(2023, 12, 31)) + 1
NewYear == Midnight(Date(2024, 1, 1))
MCInstants == {LastNoon, NewYear}

\* Accounts are edited in MCBalances.
NoAccountEdits == {}

\* One edit changes the account, hence the user, the amount and the month.
Moves == { [NoEdit EXCEPT !.account = eur, !.amount = 4, !.date = Late] }
=============================================================================
