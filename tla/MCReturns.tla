---------------------------- MODULE MCReturns ----------------------------
(* Instances of AccountReturns and PortfolioReturns for TLC: five days in two years,  *)
(* an account and one in another currency.                                            *)
EXTENDS PortfolioReturns

CONSTANTS a1, a2

Entry(date, kind, flow, assets) ==
    [date |-> date, kind |-> kind, flow |-> flow, assets |-> assets, carried |-> FALSE, manual |-> FALSE]

MCEntries(a) ==
    IF a = a1
    THEN {Entry(1, "asset", Nothing, 4), Entry(2, "asset", Nothing, 0), Entry(4, "asset", Nothing, 5),
          Entry(3, "cash_flow", 1, 5), Entry(4, "log", Nothing, Nothing)}
           \cup {Entry(d, "cash_flow", f, Nothing) : d \in {2, 5}, f \in {-2, 3}}
    ELSE {Entry(3, "asset", Nothing, 3), Entry(3, "cash_flow", 3, 1), Entry(4, "cash_flow", 5, Nothing)}
MCYearOf(d) == IF d <= 3 THEN 1 ELSE 2
MCRates == [a \in Accounts |-> IF a = a1 THEN <<1, 1>> ELSE <<3, 2>>]
=============================================================================
