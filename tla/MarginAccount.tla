---------------------------- MODULE MarginAccount ----------------------------
(***************************************************************************)
(* The margin account of src/app/backtest/margin_position.py as the        *)
(* portfolio runner of margin_portfolio.py drives it.  In every session    *)
(* the runner opens candidates on a copy of the account, advances the      *)
(* positions held before on another copy (financing, liquidations, exits), *)
(* merges the two, books dividends and checks the maintenance margin.      *)
(*                                                                         *)
(* Amounts are whole numbers.  A rate is a number of parts of Base, a      *)
(* financing rate one of Base^2 and per day; a price is in yen in the      *)
(* market and in 1/Base yen once costs are added; money is in 1/Base^3     *)
(* yen.  Nothing is rounded but the lots, which the code rounds down too.  *)
(***************************************************************************)
EXTENDS Integers, Sequences, FiniteSets, Functions

CONSTANTS
    Symbols,        \* the assets
    Modes,          \* the modes of the series: one, or all for auto_select
    Terms,          \* the margin terms candidates and updates carry
    Days,           \* what the inputs may say of each session of a calendar
    NoBar,          \* no bar of the asset in that session
    NoTerms,        \* no update of the terms
    Calendars,      \* bound: the dates of the sessions of a run
    FlowSets,       \* the dividends a run may be given
    MaxIncidents,   \* bound: sessions out of the ordinary in a run
    Base, Fee, HalfSpread, Slip, InitialCash, LotSize, MaxPositions,
    RiskRate, OpenRiskRate, NotionalRate, SectorRate, GroupRate, Leverage,
    WarningBuffer

Margin == {"margin_long", "margin_short"}

Spread == 2 * HalfSpread
Adverse == HalfSpread + Slip

\* MarginExecutionPolicy: the bounds of its fields and validate_policy.
ValidExecutionPolicy ==
    /\ Base \in Nat \ {0} /\ LotSize \in Nat \ {0} /\ InitialCash \in Nat \ {0}
    /\ Fee \in Nat /\ HalfSpread \in Nat /\ Slip \in Nat /\ Adverse < Base
    /\ MaxPositions \in Nat \ {0} /\ WarningBuffer \in Nat
    /\ RiskRate \in 1..(Base - 1) /\ OpenRiskRate \in RiskRate..(Base - 1)
    /\ Leverage \in Nat \ {0}
    /\ NotionalRate \in 1..(Leverage * Base)
    /\ SectorRate \in 1..(Leverage * Base) /\ GroupRate \in 1..(Leverage * Base)

ASSUME PolicyAssumption == ValidExecutionPolicy

\* MarginPositionTerms: cash is fully funded and free of margin costs.
IsTerms(t) ==
    /\ t.mode \in Margin \cup {"cash"}
    /\ t.initial \in 1..Base /\ t.maintenance \in 0..t.initial
    /\ t.minimum \in Nat /\ t.rate \in Nat /\ t.reverse \in Nat /\ t.term \in Nat
    /\ t.mode = "cash" => /\ t.initial = Base /\ t.maintenance = 0
                          /\ t.minimum = 0 /\ t.rate = 0 /\ t.term = 0
    /\ t.mode \in Margin => t.term > 0
    /\ t.mode # "margin_short" => t.reverse = 0
    /\ t.from \in Nat /\ t.until \in Nat /\ t.known \in Nat
    /\ t.until # 0 => t.until > t.from

\* MarginOhlcBar with its own order of prices.
IsBar(b) ==
    /\ {b.low, b.high} \subseteq Nat \ {0}
    /\ b.open \in b.low..b.high /\ b.close \in b.low..b.high
    /\ b.fx \in Nat \ {0}
    /\ b.trade \in {"normal", "halted", "limit_up", "limit_down"}

\* MarginBacktestCandidate: the mode of the plan is that of its terms; lag is
\* how many days before the entry it was decided, and approved whether a human
\* reviewed its warnings.
IsCandidate(c, d) ==
    /\ c.symbol \in Symbols /\ d.bars[c.symbol] # NoBar
    /\ c.terms \in Terms /\ c.terms.mode \in Modes
    /\ c.lag \in Nat \ {0} /\ c.stop \in Nat \ {0} /\ c.take \in Nat \ {0}
    /\ c.volume \in Nat /\ c.requested \in Nat
    /\ c.approved \in BOOLEAN
    /\ c.card.late \in BOOLEAN /\ c.card.hard \in BOOLEAN

IsDay(d) ==
    /\ \E s \in Symbols : d.bars[s] # NoBar
    /\ \A s \in Symbols : d.bars[s] # NoBar => IsBar(d.bars[s])
    /\ \A i \in DOMAIN d.entries : IsCandidate(d.entries[i], d)
    /\ \A s \in Symbols : d.updates[s] # NoTerms => d.updates[s] \in Terms

ASSUME InputsAssumption ==
    /\ Modes \subseteq Margin \cup {"cash"}
    /\ \A t \in Terms : IsTerms(t)
    /\ \A c \in Calendars : \A n \in DOMAIN c : \A d \in Days[c][n] : IsDay(d)
    /\ \A c \in Calendars :
          c \in Seq(Nat) /\ \A i \in 1..(Len(c) - 1) : c[i] < c[i + 1]
    /\ \A run \in FlowSets : IsFiniteSet(run) /\ \A f \in run : f.amount \in Nat
    /\ MaxIncidents \in Nat

VARIABLES
    calendar,   \* the dates of the sessions
    flows,      \* the dividends of the run
    session,    \* the session that runs or ran last
    phase,      \* the part of the loop that runs
    at,         \* its position
    day,        \* bars, candidates and updates of the session
    account,    \* the account before the session
    entered,    \* the copy the candidates are opened on
    advanced,   \* the copy the positions held before are advanced on
    entitled,   \* dividends a position was entitled to
    incidents   \* what MaxIncidents bounds

vars == <<calendar, flows, session, phase, at, day, account, entered, advanced,
          entitled, incidents>>

-----------------------------------------------------------------------------
(* The value of positions. *)

Smaller(a, b) == IF a < b THEN a ELSE b
Larger(a, b) == IF a > b THEN a ELSE b

\* A market price in the unit of costs, and yen in that of money.
Scaled(price) == price * Base
Money(yen) == yen * Base * Base * Base

Capital == Money(InitialCash)

Sum(f) == FoldFunction(LAMBDA a, b : a + b, 0, f)

Direction(mode) == IF mode = "margin_short" THEN -1 ELSE 1

CurrentValue(p) == p.mark * p.quantity * p.fx * Base * Base

AccountEquity(p) ==
    p.margin + Direction(p.mode) * (CurrentValue(p) - p.notional) - p.accrued

MarginPositions(list) == {i \in DOMAIN list : list[i].mode \in Margin}

Gross(acc) == Sum([i \in DOMAIN acc.positions |-> CurrentValue(acc.positions[i])])

Equity(acc) ==
    acc.cash + Sum([i \in DOMAIN acc.positions |-> AccountEquity(acc.positions[i])])

MarginNotional(list) == Sum([i \in MarginPositions(list) |-> CurrentValue(list[i])])
MarginEquity(list) == Sum([i \in MarginPositions(list) |-> AccountEquity(list[i])])

MaintenanceRequired(list) ==
    Sum([i \in MarginPositions(list) |->
            (CurrentValue(list[i]) * list[i].terms.maintenance) \div Base])

EntryPrice(mode, open) == open * (Base + Adverse * Direction(mode))

\* The value at an exit; the price is in the unit of costs.
ExitValue(p, price, fx) ==
    price * (Base - Adverse * Direction(p.mode)) * p.quantity * fx * Base

-----------------------------------------------------------------------------
(* The sizing of an order. *)

Lots(amount, unit) ==
    IF amount <= 0 THEN 0 ELSE (amount \div (unit * LotSize)) * LotSize

Fx(s) == day.bars[s].fx

\* One share at the entry, in 1/Base yen, and what it may lose, in 1/Base^2.
Unit(c) == EntryPrice(c.terms.mode, day.bars[c.symbol].open) * Fx(c.symbol)

UnitRisk(c) ==
    LET stop == Scaled(c.stop) * Fx(c.symbol)
        distance == IF Unit(c) > stop THEN Unit(c) - stop ELSE stop - Unit(c)
    IN  distance * Base + Unit(c) * (Fee + Spread + Slip)

PlannedRisk(acc) ==
    Sum([i \in DOMAIN acc.positions |-> acc.positions[i].loss])

\* What the positions with the same value in a field are worth.
Alike(acc, field, value) ==
    Sum([i \in {j \in DOMAIN acc.positions : acc.positions[j][field] = value} |->
            CurrentValue(acc.positions[i])])

\* Every quantity an order may not exceed.
Capacities(acc, c) ==
    LET equity == Equity(acc)
        share == Unit(c) * Base * Base * Base
    IN  { Lots(Smaller(equity * RiskRate,
                       equity * OpenRiskRate - PlannedRisk(acc) * Base),
               UnitRisk(c) * Base * Base),
          Lots(acc.cash, Unit(c) * (c.terms.initial + Fee) * Base),
          Lots(c.volume, 1),
          Lots(equity * NotionalRate, share),
          Lots(equity * SectorRate - Alike(acc, "sector", c.sector) * Base, share),
          Lots(equity * GroupRate - Alike(acc, "group", c.group) * Base, share),
          Lots(equity * Leverage - Gross(acc), Unit(c) * Base * Base) }
        \cup IF c.requested = 0 THEN {} ELSE {Lots(c.requested, 1)}

\* A faulty variant: sized beside what was held before this session only.
QuantityOfBefore(acc, c) ==
    IF Equity(acc) <= 0 THEN 0
    ELSE CHOOSE q \in Capacities(account, c) : \A r \in Capacities(account, c) : q <= r

Quantity(acc, c) ==
    IF Equity(acc) <= 0 THEN 0
    ELSE CHOOSE q \in Capacities(acc, c) : \A r \in Capacities(acc, c) : q <= r

Notional(c, quantity) == Unit(c) * quantity * Base * Base

MarginReserved(c, quantity) ==
    Larger((Notional(c, quantity) * c.terms.initial) \div Base,
           Money(c.terms.minimum) * Fx(c.symbol))

EntryFee(c, quantity) == (Notional(c, quantity) * Fee) \div Base

CashRequired(c, quantity) == MarginReserved(c, quantity) + EntryFee(c, quantity)

-----------------------------------------------------------------------------
(* Opening a position. *)

Date == calendar[session]
Decided(c) == Date - c.lag

\* The terms and the analysis were known at the decision, and in force.
KnownInTime(c) ==
    /\ ~c.card.late
    /\ c.terms.known <= Decided(c)
    /\ c.terms.from <= Decided(c)
    /\ c.terms.until # 0 => Decided(c) < c.terms.until

\* The card allows it: a warning only after a review.
CardAllows(c) ==
    /\ c.card.status \notin {"blocked", "not_eligible", "insufficient_data"}
    /\ c.card.status = "warning" => c.approved
    /\ ~c.card.hard

\* The account is neither being liquidated nor close to it.
HasHeadroom(acc) ==
    LET list == acc.positions
    IN  /\ \A i \in DOMAIN list : list[i].forced = "none"
        /\ MarginNotional(list) > 0 =>
              \A i \in MarginPositions(list) :
                  MarginEquity(list) * Base
                    > (list[i].terms.maintenance + WarningBuffer) * MarginNotional(list)

\* A long is not bought at the upper limit nor a short sold at the lower one.
CanOpen(c) ==
    /\ day.bars[c.symbol].trade # "halted"
    /\ day.bars[c.symbol].trade
         # IF c.terms.mode = "margin_short" THEN "limit_down" ELSE "limit_up"

LevelsInOrder(c) ==
    LET price == EntryPrice(c.terms.mode, day.bars[c.symbol].open)
    IN  IF c.terms.mode = "margin_short"
        THEN Scaled(c.take) < price /\ price < Scaled(c.stop)
        ELSE Scaled(c.stop) < price /\ price < Scaled(c.take)

Admitted(acc, c) ==
    /\ KnownInTime(c)
    /\ CardAllows(c)
    /\ HasHeadroom(acc)
    /\ Len(acc.positions) < MaxPositions
    /\ \A i \in DOMAIN acc.positions : acc.positions[i].symbol # c.symbol
    /\ CanOpen(c)
    /\ LevelsInOrder(c)

Affordable(acc, c) ==
    /\ Quantity(acc, c) > 0
    /\ CashRequired(c, Quantity(acc, c)) <= acc.cash

NewPosition(c, quantity) ==
    [symbol |-> c.symbol, mode |-> c.terms.mode, sector |-> c.sector,
     group |-> c.group, quantity |-> quantity,
     notional |-> Notional(c, quantity), margin |-> MarginReserved(c, quantity),
     fee |-> EntryFee(c, quantity), loss |-> UnitRisk(c) * quantity * Base,
     accrued |-> 0, accruedTo |-> Date, opened |-> session,
     deadline |-> IF c.terms.term = 0 THEN 0 ELSE Date + c.terms.term,
     stop |-> c.stop, take |-> c.take,
     mark |-> EntryPrice(c.terms.mode, day.bars[c.symbol].open),
     fx |-> Fx(c.symbol), forced |-> "none", exit |-> "none", terms |-> c.terms]

NoDay == [bars |-> [s \in Symbols |-> NoBar], entries |-> <<>>,
          updates |-> [s \in Symbols |-> NoTerms]]

NewAccount == [cash |-> Capital, realized |-> 0, positions |-> <<>>]

Init ==
    /\ calendar \in Calendars /\ flows \in FlowSets
    /\ session = 0 /\ phase = "night" /\ at = 1 /\ day = NoDay
    /\ account = NewAccount /\ entered = NewAccount /\ advanced = NewAccount
    /\ entitled = {} /\ incidents = 0

\* What MaxIncidents counts.
Odd(d) ==
    Cardinality({s \in Symbols :
        d.bars[s] = NoBar \/ (d.bars[s] # NoBar /\ d.bars[s].trade # "normal")})
      + Cardinality({s \in Symbols : d.updates[s] # NoTerms})

\* The next session: both copies begin with the account of the night before.
OpenSession ==
    /\ phase = "night" /\ session < Len(calendar)
    /\ \E d \in Days[calendar][session + 1] :
          /\ incidents + Odd(d) <= MaxIncidents
          /\ incidents' = incidents + Odd(d)
          /\ day' = d
    /\ session' = session + 1
    /\ entered' = account /\ advanced' = account
    /\ phase' = "entries" /\ at' = 1
    /\ UNCHANGED <<calendar, flows, account, entitled>>

Enter ==
    /\ phase = "entries" /\ at \in DOMAIN day.entries
    /\ LET c == day.entries[at]
           q == Quantity(entered, c)
       IN  /\ Admitted(entered, c) /\ Affordable(entered, c)
           /\ entered' = [entered EXCEPT
                            !.cash = @ - CashRequired(c, q),
                            !.positions = Append(@, NewPosition(c, q))]
    /\ at' = at + 1
    /\ UNCHANGED <<calendar, flows, session, phase, day, account, advanced,
                   entitled, incidents>>

Refuse ==
    /\ phase = "entries" /\ at \in DOMAIN day.entries
    /\ LET c == day.entries[at]
       IN  ~(Admitted(entered, c) /\ Affordable(entered, c))
    /\ at' = at + 1
    /\ UNCHANGED <<calendar, flows, session, phase, day, account, entered,
                   advanced, entitled, incidents>>

EndEntries ==
    /\ phase = "entries" /\ at > Len(day.entries)
    /\ phase' = "advance" /\ at' = 1
    /\ UNCHANGED <<calendar, flows, session, day, account, entered, advanced,
                   entitled, incidents>>

-----------------------------------------------------------------------------
(* Advancing the positions held before. *)

\* The new terms of a position, when the session brings some.
Update(p) ==
    IF day.updates[p.symbol] = NoTerms THEN p.terms ELSE day.updates[p.symbol]

\* An update that does not fit the position ends the run with an error.
Fits(p, t) ==
    \/ t = p.terms
    \/ /\ t.mode = p.mode
       /\ t.known <= Date /\ t.from <= Date
       /\ t.until # 0 => Date < t.until
       /\ t.from >= p.terms.from

\* The cost of a day.
Daily(p, t, fx) ==
    IF p.mode = "cash" THEN 0
    ELSE (p.notional * t.rate) \div (Base * Base)
           + IF p.mode = "margin_short" THEN t.reverse * p.quantity * fx ELSE 0

\* The old terms run to the day the new ones take effect, or to the last
\* accrual if that is later, and the new ones from there.
Transition(p) == Larger(p.accruedTo, Update(p).from)

\* A faulty variant: the time before the new terms is charged again.
FinancingTwice(p) ==
    Daily(p, p.terms, Fx(p.symbol)) * (Date - p.accruedTo)
      + IF Update(p) = p.terms THEN 0
        ELSE Daily(p, Update(p), Fx(p.symbol)) * (Date - Transition(p))

Financing(p) ==
    Daily(p, p.terms, Fx(p.symbol)) * (Transition(p) - p.accruedTo)
      + Daily(p, Update(p), Fx(p.symbol)) * (Date - Transition(p))

\* A new term may bring the deadline forward, never put it off.
Renewed(p) ==
    [p EXCEPT !.terms = Update(p),
              !.deadline = IF @ = 0 \/ Update(p).term = 0 THEN 0
                           ELSE Smaller(@, calendar[p.opened] + Update(p).term)]

CanClose(p) ==
    /\ day.bars[p.symbol].trade # "halted"
    /\ day.bars[p.symbol].trade
         # IF p.mode = "margin_short" THEN "limit_up" ELSE "limit_down"

\* Why the position has to be closed at this open.
ForcedReason(p) ==
    IF p.forced = "none" /\ p.deadline # 0 /\ Date >= p.deadline
    THEN "deadline" ELSE p.forced

\* The price and the reason of the exit rule that is met, stop before profit.
RegularExit(p) ==
    LET b == day.bars[p.symbol]
        long == p.mode # "margin_short"
        Stopped(price) == IF long THEN price <= p.stop ELSE price >= p.stop
        Taken(price) == IF long THEN price >= p.take ELSE price <= p.take
    IN  CASE Stopped(b.open) \/ Taken(b.open) -> b.open
          [] ~Stopped(b.open) /\ ~Taken(b.open)
               /\ Stopped(IF long THEN b.low ELSE b.high) -> p.stop
          [] ~Stopped(IF long THEN b.low ELSE b.high) /\ ~Taken(b.open)
               /\ Taken(IF long THEN b.high ELSE b.low) -> p.take
          [] OTHER -> 0

Holds(acc, p) == CHOOSE i \in DOMAIN acc.positions : acc.positions[i] = p

Without(list, i) ==
    [j \in 1..(Len(list) - 1) |-> IF j < i THEN list[j] ELSE list[j + 1]]

\* A close releases the margin with the result and the costs.
Closed(acc, p, price, cost) ==
    LET value == ExitValue(p, Scaled(price), Fx(p.symbol))
        fee == (value * Fee) \div Base
        gross == Direction(p.mode) * (value - p.notional)
        costs == fee + p.accrued + cost
    IN  [cash |-> acc.cash + p.margin + gross - costs,
         realized |-> acc.realized + gross - p.fee - costs,
         positions |-> Without(acc.positions, Holds(acc, p))]

\* A session a position stays open in.
Carried(p, forced, exit) ==
    [Renewed(p) EXCEPT !.accrued = @ + Financing(p), !.accruedTo = Date,
                       !.mark = Scaled(day.bars[p.symbol].close),
                       !.fx = Fx(p.symbol), !.forced = forced, !.exit = exit]

\* The position whose turn it is, and that its bar and its update are usable.
Turn(p) == phase = "advance" /\ at \in DOMAIN account.positions
             /\ p = account.positions[at]

Usable(p) == day.bars[p.symbol] # NoBar /\ Fits(p, Update(p))

Pending(p) == ForcedReason(Renewed(p)) # "none" \/ p.exit # "none"

CloseAt(p, price) ==
    /\ advanced' = Closed(advanced, p, price, Financing(p))
    /\ at' = at + 1
    /\ UNCHANGED <<calendar, flows, session, phase, day, account, entered,
                   entitled, incidents>>

CarryOn(p, forced, exit) ==
    /\ advanced' = [advanced EXCEPT
                      !.positions[Holds(advanced, p)] = Carried(p, forced, exit)]
    /\ at' = at + 1
    /\ UNCHANGED <<calendar, flows, session, phase, day, account, entered,
                   entitled, incidents>>

\* A missing bar of a position, or an update that does not fit it, is an error.
Fail(p) ==
    /\ Turn(p) /\ ~Usable(p)
    /\ phase' = "failed"
    /\ UNCHANGED <<calendar, flows, session, at, day, account, entered, advanced,
                   entitled, incidents>>

\* A pending liquidation or exit closes at the first open that can trade.
ClosePending(p) ==
    /\ Turn(p) /\ Usable(p) /\ Pending(p) /\ CanClose(p)
    /\ CloseAt(p, day.bars[p.symbol].open)

DeferPending(p) ==
    /\ Turn(p) /\ Usable(p) /\ Pending(p) /\ ~CanClose(p)
    /\ CarryOn(p, ForcedReason(Renewed(p)), p.exit)

CloseByRule(p) ==
    /\ Turn(p) /\ Usable(p) /\ ~Pending(p) /\ RegularExit(p) # 0 /\ CanClose(p)
    /\ CloseAt(p, RegularExit(p))

DeferExit(p) ==
    /\ Turn(p) /\ Usable(p) /\ ~Pending(p) /\ RegularExit(p) # 0 /\ ~CanClose(p)
    /\ CarryOn(p, "none", "rule")

Hold(p) ==
    /\ Turn(p) /\ Usable(p) /\ ~Pending(p) /\ RegularExit(p) = 0
    /\ CarryOn(p, "none", "none")

-----------------------------------------------------------------------------
(* The end of a session. *)

\* evaluate_margin_maintenance: a breach schedules every margin position.
Breached(list) ==
    /\ MarginPositions(list) # {}
    /\ MarginEquity(list) <= MaintenanceRequired(list)

\* A faulty variant: positions opened in this session are spared.
MaintainedOld(list) ==
    [i \in DOMAIN list |->
        IF Breached(list) /\ list[i].mode \in Margin /\ list[i].opened < session
        THEN [list[i] EXCEPT !.forced = "maintenance"] ELSE list[i]]

Maintained(list) ==
    [i \in DOMAIN list |->
        IF Breached(list) /\ list[i].mode \in Margin /\ list[i].forced = "none"
        THEN [list[i] EXCEPT !.forced = "maintenance"] ELSE list[i]]

NewPositions == SubSeq(entered.positions, Len(account.positions) + 1,
                       Len(entered.positions))

\* A faulty variant: what the exits and the financing changed is lost.
MergedEntries == entered.cash

\* Entries before exits: what a close pays is not there for an entry.
MergedCash == entered.cash + (advanced.cash - account.cash)

MergedPositions == Maintained(advanced.positions) \o NewPositions

\* Dividends of positions held before the session, which an exit does not lose.
EntitledTo(f, p) ==
    f.entitled = session /\ f.symbol = p.symbol /\ f.opened = p.opened

NewlyEntitled ==
    LET held == {x \in flows \X DOMAIN account.positions :
                   EntitledTo(x[1], account.positions[x[2]])}
    IN  {[flow |-> x[1], quantity |-> account.positions[x[2]].quantity,
          sign |-> Direction(account.positions[x[2]].mode)] : x \in held}

Paid ==
    LET payable == {e \in entitled \cup NewlyEntitled : e.flow.paid = session}
    IN  Sum([e \in payable |-> e.sign * Money(e.quantity * e.flow.amount)])

\* What was opened today is valued at today's close.
MarkedToday(list) ==
    [i \in DOMAIN list |->
        IF list[i].opened = session
        THEN [list[i] EXCEPT !.mark = Scaled(day.bars[list[i].symbol].close),
                             !.fx = Fx(list[i].symbol)]
        ELSE list[i]]

Settle ==
    /\ phase = "advance" /\ at > Len(account.positions)
    /\ account' = [cash |-> MergedCash + Paid,
                   realized |-> advanced.realized + Paid,
                   positions |-> Maintained(MarkedToday(MergedPositions))]
    /\ entered' = account' /\ advanced' = account'
    /\ entitled' = entitled \cup NewlyEntitled
    /\ phase' = "night" /\ at' = 1 /\ day' = NoDay
    /\ UNCHANGED <<calendar, flows, session, incidents>>

Advance(p) ==
    \/ Fail(p) \/ ClosePending(p) \/ DeferPending(p)
    \/ CloseByRule(p) \/ DeferExit(p) \/ Hold(p)

Next ==
    \/ OpenSession
    \/ Enter \/ Refuse \/ EndEntries
    \/ \E i \in DOMAIN account.positions : Advance(account.positions[i])
    \/ Settle

Spec == Init /\ [][Next]_vars
-----------------------------------------------------------------------------
(* Properties. *)

\* MarginPositionState.
IsPosition(p) ==
    /\ p.symbol \in Symbols /\ p.mode = p.terms.mode
    /\ p.quantity \in Nat \ {0} /\ p.quantity % LotSize = 0
    /\ p.notional > 0 /\ p.margin > 0 /\ p.fee >= 0 /\ p.loss >= 0
    /\ p.accrued \in Nat
    /\ p.stop > 0 /\ p.take > 0 /\ p.mark > 0 /\ p.fx > 0
    /\ p.opened \in 1..session /\ p.accruedTo <= Date
    /\ p.forced \in {"none", "deadline", "maintenance"}
    /\ p.exit \in {"none", "rule"}

TypeOK ==
    /\ session \in 0..Len(calendar) /\ at \in Nat \ {0}
    /\ phase \in {"night", "entries", "advance", "failed"}
    /\ Len(account.positions) <= MaxPositions
    /\ \A i, j \in DOMAIN account.positions :
          account.positions[i].symbol = account.positions[j].symbol => i = j
    /\ \A i \in DOMAIN account.positions : IsPosition(account.positions[i])
    /\ incidents \in 0..MaxIncidents

\* Merging the two copies loses and doubles nothing: what is in cash, reserved
\* as margin and paid as entry fees is the initial cash and the result.
Reconciles ==
    phase = "night" =>
        account.cash + Sum([i \in DOMAIN account.positions |->
                               account.positions[i].margin + account.positions[i].fee])
          = Capital + account.realized

\* The entries of a session together stay within the leverage, the sector and
\* the group limits of the equity the account had the night before.
EntriesKeepLimits ==
    phase = "advance" /\ entered # account =>
        /\ Gross(entered) <= Equity(account) * Leverage
        /\ \A i \in (Len(account.positions) + 1)..Len(entered.positions) :
              LET p == entered.positions[i]
              IN  /\ Alike(entered, "sector", p.sector) * Base
                        <= Equity(account) * SectorRate
                  /\ Alike(entered, "group", p.group) * Base
                        <= Equity(account) * GroupRate

\* Every calendar day since the last session is charged exactly once, at the
\* rate of the old terms or of the new ones: not again when the terms change in
\* between, not left out over a weekend or while an exit waits.
FinancingOncePerDay ==
    [][Settle =>
        \A i \in DOMAIN account.positions, j \in DOMAIN account'.positions :
            LET p == account.positions[i]
                q == account'.positions[j]
                days == Date - calendar[session - 1]
                costs == {Daily(p, p.terms, q.fx), Daily(p, q.terms, q.fx)}
            IN  p.symbol = q.symbol /\ p.opened = q.opened =>
                    \E low, high \in costs :
                        q.accrued - p.accrued \in (low * days)..(high * days)]_vars

\* At a close in breach of the maintenance margin every margin position is
\* scheduled, those opened that day at that day's prices included.
BreachForcesAll ==
    phase = "night" /\ Breached(account.positions) =>
        \A i \in MarginPositions(account.positions) :
            account.positions[i].forced # "none"

=============================================================================
