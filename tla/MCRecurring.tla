----------------------------- MODULE MCRecurring -----------------------------
(* A leap year, from January to March, with an idle stretch of five weeks.  *)
(* When a template is created its start date is still to come, or past.     *)
EXTENDS Recurring

MCInstant == {Day(2024, 1, 10), Day(2024, 2, 9), Day(2024, 3, 14)}
MCStart == {Day(2024, 1, 28)}
MCEnd == {Day(2024, 2, 9)}
EndOfMonth == {Day(2024, 1, 31)}
=============================================================================
