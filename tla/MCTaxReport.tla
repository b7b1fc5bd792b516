--------------------------- MODULE MCTaxReport ---------------------------
(* Instances of TaxReport for TLC: statements of up to two rows, the short ones under *)
(* two names and in two layouts.                                                       *)
EXTENDS TaxReport

CONSTANTS a1, a2, p1, f1

Trade2(kind, side, date, account, quantity, amount, fee) ==
    [kind |-> kind, side |-> side, date |-> date, account |-> account, currency |-> "HKD",
     pool |-> IF kind = "fund" THEN f1 ELSE p1, quantity |-> quantity, amount |-> amount, fee |-> fee]
Cash(reason, date, change) ==
    [kind |-> "cash", reason |-> reason, date |-> date, account |-> a1, currency |-> "USD", change |-> change]

MCRows == {Trade2("security", "buy_open", 1, a1, 2, 4, 2),
           Trade2("security", "buy_open", 2, a2, 1, 3, 1),
           Trade2("security", "sell_close", 2, a2, 1, 5, 1),
           Trade2("security", "sell_close", 3, a1, 2, 6, 4),
           Trade2("security", "sell_open", 1, a2, 1, 3, 1),
           Trade2("security", "buy_close", 3, a1, 1, 5, 2),
           Trade2("fund", "buy_open", 2, a1, 1, 2, 1),
           Trade2("fund", "sell_close", 3, a2, 1, 1, 1),
           Cash("dividend", 2, 3), Cash("charge", 3, -1)}

File(name, rows, layout) == [name |-> name, digest |-> <<rows, layout>>, rows |-> rows]
MCFiles == {File(1, <<r>>, "csv") : r \in MCRows} \cup {File(3, <<r>>, layout) : r \in MCRows, layout \in {"csv", "xlsx"}}
             \cup {File(2, <<r, s>>, "csv") : r, s \in MCRows}
MCYearOf(d) == IF d = 1 THEN 1 ELSE 2
MCRates == [k \in {<<2, "HKD">>, <<2, "USD">>, <<1, "HKD">>} |-> IF k[2] = "HKD" THEN 1 ELSE 7]
=============================================================================
