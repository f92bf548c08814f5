----------------------------- MODULE MCCatalog -----------------------------
(* Instances of Catalog for TLC. *)
EXTENDS Catalog, TLC

CONSTANTS h1, h2

TwoHandlers == {h1, h2}
Alike == Permutations(TwoHandlers)

\* The end of a long month before a short February, and the leap day.
EndsOfMonths == {DayNumber(2027, 1, 31), DayNumber(2028, 2, 29)}

\* Monthly terms with every kind of count, and yearly ones.
MonthlyAndYearly ==
  {[amount |-> 1, interval |-> "month", count |-> n] : n \in {-1, 0, 1}}
  \cup {[amount |-> 1, interval |-> "year", count |-> 1]}
=============================================================================
