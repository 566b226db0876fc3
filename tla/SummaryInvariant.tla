-------------------------- MODULE SummaryInvariant ---------------------------
(***************************************************************************)
(* Why the parts of a summary agree: until a commit tears it, everything a *)
(* summary has read so far is what its statement would read again, so that *)
(* after the last statement all of them describe one table.                *)
(***************************************************************************)
EXTENDS Summary

\* A summary under way has a window of dates and a unit; between summaries
\* nothing is left of the one before.
WindowInv ==
  IF report.pc = "idle" THEN report = NoReport
  ELSE /\ \A d \in {report.from, report.to} : IsDate(d) /\ MonthOf(d) > 0
       /\ report.from <= report.to
       /\ report.group \in SummaryGroups

\* The steps after the one that reads a part.
After(pc) ==
  CASE pc = "currency"    -> {"totals", "by_account", "by_category", "buckets", "recent", "done"}
    [] pc = "totals"      -> {"by_account", "by_category", "buckets", "recent"}
    [] pc = "by_account"  -> {"by_category", "buckets", "recent"}
    [] pc = "by_category" -> {"buckets", "recent"}
    [] pc = "buckets"     -> {"recent"}

\* The currency stays the one that was read, whatever PATCH does to it.
CurrencyInv == report.pc \in After("currency") => report.currency \in Currencies
\* What an untorn summary has read is still so.
StillSo ==
  ~report.torn =>
    /\ report.pc \in After("totals") => report.totals = SUMMARY_TOTALS
    /\ report.pc \in After("by_account") => report.by_account = SUMMARY_BY_ACCOUNT
    /\ report.pc \in After("by_category") => report.by_category = SUMMARY_BY_CATEGORY
    /\ report.pc \in After("buckets") => report.buckets = Buckets
\* The windows of the buckets do not depend on the rows.
WindowsInv ==
  report.buckets # None =>
    DOMAIN report.buckets = summary_bucket_windows(report.group, report.from, report.to)

\* The inductive invariant: an answer whose statements no commit came between
\* adds up, because each part still describes the table the totals were read
\* from when the last one is read (movement_summary_handler).
SummaryInv ==
  /\ TypeOK
  /\ WindowInv /\ CurrencyInv /\ StillSo /\ WindowsInv
  /\ PartsAgree
==============================================================================
