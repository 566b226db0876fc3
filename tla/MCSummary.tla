------------------------------ MODULE MCSummary -------------------------------
(* A small instance of Summary for TLC.                                    *)
EXTENDS SummaryInvariant, TLC

CONSTANTS nequi, bank, wise, COP, USD

\* Two accounts in the user's currency, one in another.
MCCurrencyOf == nequi :> COP @@ bank :> COP @@ wise :> USD
\* Around a new year, which falls into the middle of an ISO week, and around a
\* leap day.
NewYearsEve == DateOf(12 * 2024 + 11, 31)
NewYear == DateOf(12 * 2025, 1)
LeapDay == DateOf(12 * 2024 + 1, 29)
MCDates == {NewYearsEve, NewYear}
MCWindows == {<<DateOf(12 * 2024 + 11, 29), NewYear>>, <<NewYear, NewYear>>,
              <<LeapDay, DateOf(12 * 2024 + 2, 4)>>, <<NewYear, NewYearsEve>>,
              <<None, None>>, <<NewYear, None>>}
\* Rows of one movement are as good as those of another.
SummarySymmetry == Permutations(Movements)
===============================================================================
