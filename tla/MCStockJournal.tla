--------------------------- MODULE MCStockJournal ---------------------------
(***************************************************************************)
(* Instances of StockJournal for TLC: a dividend with record date 1 and    *)
(* ex-dividend date 2, paid on day 2 or, revised, on day 3.                *)
(***************************************************************************)
EXTENDS StockJournal, TLC

CONSTANTS e1, e2, auto

MCIds == {e1, e2}

Trade(kind, date, qty) == [kind |-> kind, date |-> date, qty |-> qty, amount |-> qty, fx |-> TRUE]
Paid(date, fx) == [kind |-> "dividend", date |-> date, qty |-> 0, amount |-> 1, fx |-> fx]

MCDrafts == {Trade("buy", 1, 1), Trade("sell", 2, 1), Paid(3, TRUE), Paid(2, FALSE)}
\* Announced for day 2 or for day 3, at 1; then raised to 2, or with a split.
Announce(pay, share, split) == [pay |-> pay, share |-> share, split |-> split]
MCAnnouncements == {Announce(2, 1, FALSE), Announce(3, 1, FALSE), Announce(3, 2, FALSE), Announce(3, 1, TRUE)}

MCHoldings == {[qty |-> 1, cash |-> 2]}

Entered == Permutations(MCIds)
=============================================================================
