----------------------------- MODULE MCBackoffice -----------------------------
(* Values for Backoffice: what each component is small enough to be checked  *)
(* with, and large enough to go wrong with.                                  *)
EXTENDS Backoffice, TLC

CONSTANTS a, b,     \* two of whatever a component has two of: calls, jobs, merges, writers
          one, two, three,      \* tokens; three is a refund key beside a and b
          early, second, third, last, shipped, confirmed,
          local, faraway

Symmetry == Permutations({a, b})

\* Three jobs for the confirmation, one for the dispatch.
KindOfLetter == [l \in Letters |-> IF l = last THEN shipped ELSE confirmed]

\* A line of one paisa, lines that round, a line of two units; GST of 0.25 to 18 percent.
SmallCart ==
    {[unit |-> 1, quantity |-> 1, rate |-> 500], [unit |-> 3333, quantity |-> 1, rate |-> 1800],
     [unit |-> 3333, quantity |-> 3, rate |-> 500], [unit |-> 50, quantity |-> 1, rate |-> 1800],
     [unit |-> 75, quantity |-> 2, rate |-> 25]}

\* Ten percent, ninety with a cap, two paise off, and all but two paise of a hundred rupees.
SomeOffers ==
    {[type |-> "percent", value |-> 1000, cap |-> NoCap, minOrder |-> 0],
     [type |-> "percent", value |-> 9000, cap |-> 150, minOrder |-> 100],
     [type |-> "flat", value |-> 2, cap |-> NoCap, minOrder |-> 0],
     [type |-> "flat", value |-> 9998, cap |-> NoCap, minOrder |-> 200]}

\* Both sides of every scale, up to TLC's largest integer.
SomeAmounts ==
    [rupees : {0, 7, 19, 20, 21, 99, 100, 101, 119, 999, 1000, 1001, 1100, 99999, 100000, 100100,
               110001, 9999999, 10000000, 10000001, 1234567890, 2147483647},
     paise : {0, 1, 20, 99}]

Card(zone, min, max, base, perKg, freeAbove, active) ==
    [zone |-> zone, min |-> min, max |-> max, base |-> base, perKg |-> perKg,
     freeAbove |-> freeAbove, active |-> active]
SomeCards ==
    {Card(local, 0, 1000, 4900, 25, 50000, TRUE), Card(local, 0, 1000, 4900, 0, NoAmount, FALSE),
     Card(local, 500, 1000, 3900, 0, NoAmount, TRUE),
     Card(faraway, 0, 500, 9900, 0, NoAmount, TRUE)}
SomeParcels ==
    {[grams |-> 500, value |-> 50000], [grams |-> 500, value |-> 100],
     [grams |-> 620, value |-> 49999], [grams |-> 1200, value |-> 49999]}
=============================================================================
