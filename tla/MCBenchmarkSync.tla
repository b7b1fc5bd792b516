------------------------- MODULE MCBenchmarkSync -------------------------
(* Values for BenchmarkSync: a week in which assets are entered and moved, closes appear    *)
(* late, and an outage of more than the refreshed days fits, with a reader of all its days. *)
EXTENDS BenchmarkSync

WeekTrading == {1, 3, 5}
WeekAssets == {2, 4}
WeekQueries == {Interval(1, 5)}
=============================================================================
