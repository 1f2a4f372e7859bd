---------------------------- MODULE MCCashAccount ----------------------------
(* Two assets, one of them quoted in USD, a few bars for each of them and one *)
(* thing out of the ordinary in a run.                                        *)
EXTENDS CashAccount

CONSTANTS a, f

Wide == [half |-> 2, slips |-> {1}]
Narrow == [half |-> 1, slips |-> {0, 1}]
MCCosts == {Narrow, Wide}
MCTierCosts == [t \in Tiers |-> IF t = "high" THEN Narrow ELSE Wide]

MCSymbols == {a, f}
MCForeign == {f}
MCSector == [s \in MCSymbols |-> "sector"]

Bar(s, open, high, low, close, trade) ==
    [open |-> open, high |-> high, low |-> low, close |-> close,
     trade |-> trade, volume |-> 12, liquid |-> TRUE,
     turnover |-> "high"]

\* A quiet day, a stop and a profit inside the day, a crash at the open.
Normal(s) == {Bar(s, 10, 10, 10, 10, "normal"), Bar(s, 10, 13, 8, 10, "normal"),
              Bar(s, 10, 13, 9, 12, "normal"), Bar(s, 6, 6, 6, 6, "normal")}
Thin(s) == [Bar(s, 10, 10, 10, 10, "normal") EXCEPT !.turnover = "low"]
Unusual(s) == {NoBar, [Bar(s, 10, 10, 10, 10, "normal") EXCEPT !.liquid = FALSE],
               [Bar(s, 10, 10, 10, 10, "normal") EXCEPT !.turnover = "below"],
               Bar(s, 10, 9, 10, 10, "normal"),
               Bar(s, 10, 10, 10, 10, "limit_up"), Bar(s, 6, 6, 6, 6, "limit_down"),
               Bar(s, 6, 6, 6, 6, "halted")}
Quiet == [s \in MCSymbols |-> Bar(s, 10, 10, 10, 10, "normal")]
Bars == UNION {{[Quiet EXCEPT ![s] = b] : b \in Normal(s) \cup Unusual(s) \cup {Thin(s)}} : s \in MCSymbols}

Investable == [s \in MCSymbols |-> "investable"]
Lives == {Investable} \cup {[Investable EXCEPT ![s] = l] :
                              s \in MCSymbols, l \in {"absent", "suspended"}}

Signal(s, lag, alike) ==
    [symbol |-> s, side |-> "long", lag |-> lag, alike |-> alike, costs |-> NoCosts]
Orders == {<<>>, <<Signal(f, 1, {}), Signal(a, 1, {})>>}
OddOrders == {<<Signal(a, 0, {})>>, <<Signal(a, 1, {f})>>,
              <<[Signal(a, 1, {}) EXCEPT !.costs = Wide]>>}

Rate == [buy |-> 2, sell |-> 1]
Day(bars, covered, life, rate, entries) ==
    [bars |-> bars, covered |-> covered, life |-> life, rate |-> rate,
     entries |-> entries]
MCDays ==
    {Day(b, TRUE, Investable, Rate, e) : b \in Bars, e \in Orders}
    \cup {Day(Quiet, TRUE, Investable, Rate, e) : e \in OddOrders}
    \cup {Day(Quiet, TRUE, l, Rate, e) : l \in Lives, e \in Orders}
    \cup {Day(Quiet, FALSE, Investable, Rate, e) : e \in Orders}
    \cup {Day([Quiet EXCEPT ![f] = b], TRUE, Investable, NoRate, <<>>) : b \in Normal(f)}

Event(id, kind, on, announced, payable, times, over, currency, confirmed) ==
    [id |-> id, symbol |-> a, kind |-> kind, on |-> on, announced |-> announced,
     payable |-> payable, times |-> times, over |-> over, cash |-> 1,
     currency |-> currency, confirmed |-> confirmed, raw |-> TRUE]
MCActions ==
    { {},
      {Event(1, "split", 2, 0, 2, 2, 1, "JPY", TRUE),
       Event(2, "dividend", 2, 0, 3, 1, 1, "JPY", TRUE),
       Event(3, "dividend", 2, 0, 3, 1, 1, "JPY", TRUE)},
      {Event(1, "split", 2, 0, 2, 1, 3, "JPY", TRUE)},
      {Event(1, "dividend", 2, 0, 2, 1, 1, "USD", TRUE)},
      {Event(1, "unsupported", 3, 1, 3, 1, 1, "JPY", TRUE)} }
==============================================================================
