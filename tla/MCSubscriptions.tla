--------------------------- MODULE MCSubscriptions ---------------------------
(* Small instances of Subscriptions for TLC.                               *)
EXTENDS SubscriptionInvariant, TLC

CONSTANTS a1, a2, s1, s2

Day(year, month, day) == DateOf(12 * year + month - 1, day)

\* Before and on the last of January, a clamped end of February, a silence.
MonthEnds == {Day(2024, 1, 30), Day(2024, 1, 31), Day(2024, 2, 29),
              Day(2024, 7, 15)}
FewDays == {Day(2023, 1, 30), Day(2023, 1, 31), Day(2023, 2, 28), Day(2023, 3, 31)}
OneCurrency == [x \in {a1, a2, s1} |-> "COP"]
TwoCurrencies == a1 :> "COP" @@ a2 :> "COP" @@ s1 :> "COP" @@ s2 :> "USD"
DriftDue == {s1 :> SubRow("live", 5, TRUE, Day(2023, 1, 31), None, FALSE)}
\* One due at a month end, or never dated (rows from before the due date was
\* required); one still to be created, in another currency.
DueOrUndated ==
  {s1 :> SubRow("live", 5, TRUE, next, None, TRUE)
     @@ s2 :> SubRow("unused", 0, TRUE, None, None, FALSE)
   : next \in {Day(2024, 1, 31), None}}
\* The hypothesis of the theorem BillingIsExact holds of these instances.
ASSUME CatchUpAssumption == WithinCatchUp

Twins == Permutations({a1, a2}) \union Permutations(Requests)
==============================================================================
