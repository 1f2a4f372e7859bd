---------------------------- MODULE CashAccount ----------------------------
(***************************************************************************)
(* The virtual cash account of src/app/backtest/ohlc.py: a run takes the   *)
(* signals and the daily bars of the sessions it knows and walks through   *)
(* them.  In every session it looks up the lifecycle of what it holds,     *)
(* applies the corporate actions of the day, tries the entries in the      *)
(* order of their score, closes what met an exit rule, books the dividends *)
(* that are payable and values what is left.                               *)
(*                                                                         *)
(* Amounts are whole numbers.  A rate is a number of parts of Base (with   *)
(* Base = 20 one part is 5%), a price a whole number of yen in the market  *)
(* and of 1/Base^2 yen once costs are added, money a whole number of       *)
(* 1/Base^4 yen; nothing is rounded but the number of lots, which the code *)
(* rounds down as well, and the prices of a position that is split, whose  *)
(* fractions the code keeps.                                               *)
(***************************************************************************)
EXTENDS Integers, Sequences, FiniteSets

CONSTANTS
    Symbols,        \* the assets a signal may name
    Foreign,        \* those quoted in USD
    Sector,         \* the sector of each asset
    Days,           \* what the inputs may say of a session
    NoBar,          \* no row for the asset on that day
    NoRate,         \* no USDJPY rate usable on that day
    ActionSets,     \* the corporate actions a run may be given
    LastSession,    \* bound: sessions a run may know
    MaxIncidents,   \* bound: lifecycle changes, gaps and odd bars in a run
    Base, Fee, StopLoss, TakeProfit,
    Costs,          \* the cost profiles an order may have
    NoCosts,        \* the signal names no rates of its own
    TierCosts,      \* use_turnover_cost_model: the profile of each tier
    FixedCosts,     \* the profile without that model
    TurnoverCosts,  \* whether it is used
    InitialCash, LotSize, MaxPositions, MaxHold,
    PositionRate, SectorRate, RiskRate, OpenRiskRate, MaxDrawdown,
    LossThreshold, CooldownSessions

\* Where a price may be missing: real ones are positive.
NoPrice == 0

LifeStates == {"absent", "investable", "suspended", "delisted"}

Trading == {"normal", "halted", "limit_up", "limit_down", "special"}

\* The turnover tiers with a modelled cost; what is traded less has none.
Tiers == {"low", "medium", "high"}
Turnovers == Tiers \cup {"below", "unknown"}

\* A cost profile: half its spread, and what the slippage may come to, which
\* grows with the share of the volume the order takes.
IsCosts(c) ==
    /\ c.half \in Nat
    /\ c.slips \subseteq Nat /\ c.slips # {}
    /\ \A slip \in c.slips : c.half + slip < Base

\* The checks of MarketImpactAssumptions, PortfolioRiskRules and of the run.
ValidRules ==
    /\ Base \in Nat \ {0} /\ LotSize \in Nat \ {0} /\ InitialCash \in Nat \ {0}
    /\ Fee \in 0..(Base - 1)
    /\ StopLoss \in 1..Base /\ TakeProfit \in Nat \ {0}
    /\ \A c \in Costs : IsCosts(c)
    /\ NoCosts \notin Costs /\ FixedCosts \in Costs
    /\ TierCosts \in [Tiers -> Costs] /\ TurnoverCosts \in BOOLEAN
    /\ MaxPositions \in Nat \ {0} /\ MaxHold \in Nat \ {0}
    /\ PositionRate \in 1..Base /\ SectorRate \in 1..Base
    /\ RiskRate \in 1..(Base - 1) /\ OpenRiskRate \in RiskRate..(Base - 1)
    /\ MaxDrawdown \in 1..(Base - 1)
    /\ LossThreshold \in Nat \ {0} /\ CooldownSessions \in Nat

ASSUME RatesAssumption ==
    ValidRules /\ LastSession \in Nat \ {0} /\ MaxIncidents \in Nat

\* A bar has positive prices; its volume is the share of the previous
\* session's volume an order may take, it is liquid when what that session
\* traded is known and high enough, and the turnover gives its cost tier.  A
\* signal names the session it was decided in, the held assets it moves too
\* closely with, and perhaps its own costs.
IsBar(b) ==
    /\ b.open \in Nat \ {0} /\ b.high \in Nat \ {0}
    /\ b.low \in Nat \ {0} /\ b.close \in Nat \ {0}
    /\ b.trade \in Trading /\ b.volume \in Nat /\ b.liquid \in BOOLEAN
    /\ b.turnover \in Turnovers

IsDay(d) ==
    /\ \A s \in Symbols : d.bars[s] # NoBar => IsBar(d.bars[s])
    /\ d.covered \in BOOLEAN
    /\ d.life \in [Symbols -> LifeStates]
    /\ d.rate # NoRate => d.rate.sell \in Nat \ {0} /\ d.rate.buy \in Nat
                             /\ d.rate.buy >= d.rate.sell
    /\ \A i \in DOMAIN d.entries :
          /\ d.entries[i].symbol \in Symbols
          /\ d.entries[i].lag \in Nat
          /\ d.entries[i].alike \subseteq Symbols
          /\ d.entries[i].costs \in Costs \cup {NoCosts}

\* normalize_corporate_actions: a split has a ratio times / over, a dividend
\* is payable on or after its ex date, an announcement precedes its event.
IsAction(a) ==
    /\ a.symbol \in Symbols /\ a.kind \in {"split", "dividend", "unsupported"}
    /\ a.on \in Nat /\ a.announced \in 0..a.on /\ a.payable \in Nat
    /\ a.payable >= a.on
    /\ a.times \in Nat \ {0} /\ a.over \in Nat \ {0} /\ a.cash \in Nat
    /\ a.currency \in {"JPY", "USD", "other"}
    /\ a.confirmed \in BOOLEAN /\ a.raw \in BOOLEAN /\ a.id \in Nat

ASSUME InputsAssumption ==
    /\ IsFiniteSet(Symbols) /\ Foreign \subseteq Symbols
    /\ \A d \in Days : IsDay(d)
    /\ \A S \in ActionSets : \A a \in S : IsAction(a)

VARIABLES
    known,      \* sessions the prices of this run reach
    actions,    \* corporate actions it is given
    session,    \* session_index
    phase,      \* the loop of the session that runs
    at,         \* its position
    day,        \* bars, lifecycle records, rate and entries of the session
    due,        \* corporate actions of the session still to be applied
    positions,  \* the dictionary of positions in its order
    receivables,\* pending_dividends
    book,       \* cash, realized_pnl, loss streak, cooldown, watermark, halt
    blocked,    \* blocked_symbols and lifecycle_blocked_symbols
    incidents   \* what MaxIncidents bounds

vars == <<known, actions, session, phase, at, day, due, positions,
          receivables, book, blocked, incidents>>

-----------------------------------------------------------------------------
(* Money. *)

Smaller(a, b) == IF a < b THEN a ELSE b
Larger(a, b) == IF a > b THEN a ELSE b

\* A market price in the unit of costs.
Scaled(p) == p * Base * Base

\* What the account began with.
Capital == InitialCash * Base * Base * Base * Base

\* fx_mid_on: domestic assets need no rate, foreign ones that of the day.
HasRate(s) == s \in Foreign => day.rate # NoRate

\* fx_execution_rate on either side of the mid.
FxBuy(s) == IF s \in Foreign THEN day.rate.buy ELSE 1
FxSell(s) == IF s \in Foreign THEN day.rate.sell ELSE 1

\* The execution price of a purchase, over the open by half the spread and the
\* slippage, and the levels derived from it.
EntryPrice(open, over) == open * (Base + over) * Base
StopPrice(open, over) == open * (Base + over) * (Base - StopLoss)
TakePrice(open, over) == open * (Base + over) * (Base + TakeProfit)

\* gross + fee of a purchase.
EntryCost(s, open, over, quantity) ==
    EntryPrice(open, over) * quantity * FxBuy(s) * (Base + Fee) * Base

\* planned_risk: the loss at the stop and the fee.
PlannedRisk(s, open, over, quantity) ==
    EntryPrice(open, over) * quantity * FxBuy(s) * (StopLoss + Fee) * Base

\* gross - fee of a sale; the tax rate is held at zero.
Proceeds(p, price) ==
    price * (Base - p.over) * p.quantity * FxSell(p.symbol)
          * (Base - Fee)

\* What the first i amounts of a list come to.
Sums(amounts) ==
    LET sum[i \in 0..Len(amounts)] ==
            IF i = 0 THEN 0 ELSE sum[i - 1] + amounts[i]
    IN  sum

Sum(amounts) == Sums(amounts)[Len(amounts)]

\* The sum of a field over the positions.
Total(field) == Sum([i \in DOMAIN positions |-> positions[i][field]])

SectorCost(sector) ==
    Sum([i \in DOMAIN positions |->
           IF Sector[positions[i].symbol] = sector THEN positions[i].cost ELSE 0])

-----------------------------------------------------------------------------
(* The positions. *)

Held == {positions[i].symbol : i \in DOMAIN positions}

Without(list, i) ==
    [j \in 1..(Len(list) - 1) |-> IF j < i THEN list[j] ELSE list[j + 1]]

NoDay == [bars |-> [s \in Symbols |-> NoBar], covered |-> FALSE,
          life |-> [s \in Symbols |-> "absent"], rate |-> NoRate,
          entries |-> <<>>]

\* The account never owes: the cash is a natural number.
Books ==
    [cash: Nat, realized: Int, streak: Nat, cooldown: Nat, peak: Int,
     halted: 0..LastSession]

PositionRecords ==
    [symbol: Symbols, quantity: Nat, entry: Nat, stop: Nat, take: Nat,
     cost: Nat, risk: Nat, over: 0..(Base - 1), held: Nat, mark: Nat,
     since: 1..LastSession]

DividendRecords ==
    [id: Nat, shares: Nat, cash: Nat, payable: Nat, currency: {"JPY", "USD"}]

TypeOK ==
    /\ known \in 1..LastSession /\ session \in 0..known
    /\ actions \in ActionSets /\ due \subseteq actions
    /\ phase \in {"night", "lifecycle", "actions", "entries", "exits",
                  "dividends", "valuation"}
    /\ at \in Nat \ {0}
    /\ day \in Days \cup {NoDay}
    /\ positions \in Seq(PositionRecords)
    /\ receivables \in Seq(DividendRecords)
    /\ book \in Books
    /\ blocked \in [action: SUBSET Symbols, life: SUBSET Symbols]
    /\ incidents \in 0..MaxIncidents

Init ==
    /\ known \in 1..LastSession
    /\ actions \in ActionSets
    /\ session = 0 /\ phase = "night" /\ at = 1
    /\ day = NoDay /\ due = {}
    /\ positions = <<>> /\ receivables = <<>>
    /\ book = [cash |-> Capital, realized |-> 0, streak |-> 0, cooldown |-> 0,
               peak |-> Capital, halted |-> 0]
    /\ blocked = [action |-> {}, life |-> {}]
    /\ incidents = 0

\* A faulty variant: the result keeps what the position cost.
SoldGross(b, p, paid) == [b EXCEPT !.cash = @ + paid, !.realized = @ + paid]

\* What a sale, or a write-off that pays nothing, leaves in the books.
Sold(b, p, paid) ==
    [b EXCEPT !.cash = @ + paid, !.realized = @ + paid - p.cost]

\* A loss: three in a row, by default, start a cooldown and the count anew.
AfterLoss(b) ==
    IF b.streak + 1 >= LossThreshold
    THEN [b EXCEPT !.streak = 0, !.cooldown = session + CooldownSessions]
    ELSE [b EXCEPT !.streak = @ + 1]

-----------------------------------------------------------------------------
(* A session. *)

\* What in a day is out of the ordinary, for MaxIncidents.
Odd(d) ==
      Cardinality({s \in Symbols :
          d.bars[s] = NoBar \/ (d.bars[s] # NoBar /\ d.bars[s].trade # "normal")})
    + Cardinality({s \in Symbols : d.life[s] # "investable"})
    + (IF d.covered THEN 0 ELSE 1) + (IF d.rate = NoRate THEN 1 ELSE 0)

\* The next session of the price frame; the run ends after the last it knows.
OpenSession ==
    /\ phase = "night" /\ session < known
    /\ \E d \in Days :
          /\ incidents + Odd(d) <= MaxIncidents
          /\ incidents' = incidents + Odd(d)
          /\ day' = d
    /\ session' = session + 1
    /\ due' = {a \in actions : a.on = session + 1}
    /\ phase' = "lifecycle" /\ at' = 1
    /\ UNCHANGED <<known, actions, positions, receivables, book, blocked>>

\* The loops of a session follow each other.
EndOfLoop(from, to) ==
    /\ phase = from /\ phase' = to /\ at' = 1
    /\ UNCHANGED <<known, actions, session, day, due, positions, receivables,
                   book, blocked, incidents>>

EndLifecycle == at > Len(positions) /\ EndOfLoop("lifecycle", "actions")
EndActions == due = {} /\ EndOfLoop("actions", "entries")
EndEntries == at > Len(day.entries) /\ EndOfLoop("entries", "exits")
EndExits == at > Len(positions) /\ EndOfLoop("exits", "dividends")
EndDividends == at > Len(receivables) /\ EndOfLoop("dividends", "valuation")

-----------------------------------------------------------------------------
(* Lifecycle of what is held. *)

\* lifecycle_record_on: without a complete universe nothing is known.
LifeOf(s) == IF day.covered THEN day.life[s] ELSE "uncovered"

\* A faulty variant: only the suspension is forgotten.
UnblockedLife(s) == [blocked EXCEPT !.life = @ \ {s}]

Unblocked(s) ==
    [action |-> blocked.action \ {s}, life |-> blocked.life \ {s}]

\* A position whose asset left the market is written off at zero.
WriteOff ==
    /\ phase = "lifecycle" /\ at \in DOMAIN positions
    /\ LET p == positions[at]
       IN  /\ LifeOf(p.symbol) \in {"absent", "delisted"}
           /\ book' = AfterLoss(Sold(book, p, 0))
           /\ blocked' = Unblocked(p.symbol)
    /\ positions' = Without(positions, at)
    /\ UNCHANGED <<known, actions, session, phase, at, day, due, receivables,
                   incidents>>

\* Otherwise the record only tells whether the position can be evaluated.
KeepListed ==
    /\ phase = "lifecycle" /\ at \in DOMAIN positions
    /\ LET s == positions[at].symbol
       IN  /\ LifeOf(s) \notin {"absent", "delisted"}
           /\ blocked' =
                CASE LifeOf(s) = "suspended" -> [blocked EXCEPT !.life = @ \cup {s}]
                  [] LifeOf(s) = "investable" -> [blocked EXCEPT !.life = @ \ {s}]
                  [] OTHER -> blocked
    /\ at' = at + 1
    /\ UNCHANGED <<known, actions, session, phase, day, due, positions,
                   receivables, book, incidents>>

-----------------------------------------------------------------------------
(* Corporate actions of the session: splits, then dividends, then the rest. *)

Rank(a) == CASE a.kind = "split" -> 0 [] a.kind = "dividend" -> 1 [] OTHER -> 2

Before(a, b) == Rank(a) < Rank(b) \/ (Rank(a) = Rank(b) /\ a.id < b.id)

\* What cannot be reflected: unconfirmed or unsupported, without unadjusted
\* prices, or with shares left over.
CannotApply(a, p) ==
    \/ ~a.confirmed
    \/ a.kind = "unsupported"
    \/ ~a.raw
    \/ a.kind = "split" /\ (p.quantity * a.times) % a.over # 0

Split(p, a) ==
    [p EXCEPT !.quantity = (@ * a.times) \div a.over,
              !.entry = (@ * a.over) \div a.times,
              !.stop = (@ * a.over) \div a.times,
              !.take = (@ * a.over) \div a.times]

\* The next action of the session.
IsNext(a) == a \in due /\ \A b \in due \ {a} : Before(a, b)

\* Nothing of the asset is held.
PassAction(a) ==
    /\ phase = "actions" /\ IsNext(a) /\ a.symbol \notin Held
    /\ due' = due \ {a}
    /\ UNCHANGED <<known, actions, session, phase, at, day, positions,
                   receivables, book, blocked, incidents>>

BlockOnAction(a) ==
    /\ phase = "actions" /\ IsNext(a)
    /\ \E i \in DOMAIN positions :
          positions[i].symbol = a.symbol /\ CannotApply(a, positions[i])
    /\ blocked' = [blocked EXCEPT !.action = @ \cup {a.symbol}]
    /\ due' = due \ {a}
    /\ UNCHANGED <<known, actions, session, phase, at, day, positions,
                   receivables, book, incidents>>

ApplySplit(a) ==
    /\ phase = "actions" /\ IsNext(a) /\ a.kind = "split"
    /\ \E i \in DOMAIN positions :
          /\ positions[i].symbol = a.symbol /\ ~CannotApply(a, positions[i])
          /\ positions' = [positions EXCEPT ![i] = Split(@, a)]
    /\ due' = due \ {a}
    /\ UNCHANGED <<known, actions, session, phase, at, day, receivables, book,
                   blocked, incidents>>

\* A dividend in a currency the account cannot convert is only noted.
RecordDividend(a) ==
    /\ phase = "actions" /\ IsNext(a) /\ a.kind = "dividend"
    /\ \E i \in DOMAIN positions :
          /\ positions[i].symbol = a.symbol /\ ~CannotApply(a, positions[i])
          /\ receivables' =
                IF a.currency = "other" THEN receivables
                ELSE Append(receivables,
                            [id |-> a.id, shares |-> positions[i].quantity,
                             cash |-> a.cash, payable |-> a.payable,
                             currency |-> a.currency])
    /\ due' = due \ {a}
    /\ UNCHANGED <<known, actions, session, phase, at, day, positions, book,
                   blocked, incidents>>

-----------------------------------------------------------------------------
(* Entries. *)

Decided(signal) == session - signal.lag

\* The gate of the historical asset universe; missing coverage only warns.
NotInvestable(s) == day.covered /\ day.life[s] # "investable"

\* known_unsupported_event_in_horizon, the horizon being cut at the last
\* session the run knows.
Horizon == Smaller(session + MaxHold, known)

KnownUnsupported(signal) ==
    \E a \in actions :
        /\ a.symbol = signal.symbol /\ a.kind = "unsupported"
        /\ a.on \in session..Horizon
        /\ a.announced # 0 /\ a.announced <= Decided(signal)

\* The drawdown halt and the cooldown after a series of losses.
Stopped == book.halted # 0 \/ session <= book.cooldown

\* The volume and the turnover of the session before.
Liquid(s) == day.bars[s].liquid

\* _execution_cost_profile: the signal's own rates, the fixed ones, or those of
\* the turnover tier, outside of which there are none.
HasCosts(signal) ==
    \/ signal.costs # NoCosts
    \/ ~TurnoverCosts
    \/ day.bars[signal.symbol].turnover \in Tiers

CostsOf(signal) ==
    CASE signal.costs # NoCosts -> signal.costs
      [] signal.costs = NoCosts /\ ~TurnoverCosts -> FixedCosts
      [] OTHER -> TierCosts[day.bars[signal.symbol].turnover]

\* The checks before the sizing.
Admitted(signal) ==
    LET s == signal.symbol
    IN  /\ ~NotInvestable(s)
        /\ signal.side = "long"
        /\ Decided(signal) < session
        /\ ~Stopped
        /\ day.bars[s] # NoBar
        /\ HasRate(s)
        /\ day.bars[s].trade \notin {"halted", "limit_up", "special"}
        /\ s \notin Held
        /\ Len(positions) < MaxPositions
        /\ signal.alike \cap Held = {}
        /\ Liquid(s)
        /\ HasCosts(signal)
        /\ ~KnownUnsupported(signal)

\* A faulty variant: what the open positions may lose is not taken off.
AllowedRiskAlone == (Capital * RiskRate) \div Base

\* What one trade may lose: its own share and what the open ones leave.
AllowedRisk ==
    Smaller((Capital * RiskRate) \div Base,
            Larger(0, (Capital * OpenRiskRate) \div Base - Total("risk")))

SectorCapacity(s) ==
    Larger(0, (Capital * SectorRate) \div Base - SectorCost(Sector[s]))

Budget(s) ==
    Smaller(Smaller(book.cash, (Capital * PositionRate) \div Base),
            Smaller(SectorCapacity(s), (AllowedRisk * Base) \div StopLoss))

\* Whole lots the budget buys at the open with the fee and half the spread,
\* and no more than the liquidity allows.
Quantity(signal) ==
    LET s == signal.symbol
        bar == day.bars[s]
        lot == bar.open * FxBuy(s) * LotSize
                  * (Base + Fee + CostsOf(signal).half) * Base * Base * Base
    IN  Smaller(Budget(s) \div lot, bar.volume \div LotSize) * LotSize

\* What the execution may come to over the open.
Overs(signal) == {CostsOf(signal).half + slip : slip \in CostsOf(signal).slips}

Cost(signal, over) ==
    EntryCost(signal.symbol, day.bars[signal.symbol].open, over, Quantity(signal))

\* The order that remains: nothing to buy, or its cost exceeds the cash.
Unfilled(signal, over) == Quantity(signal) = 0 \/ Cost(signal, over) > book.cash

Reject ==
    /\ phase = "entries" /\ at \in DOMAIN day.entries
    /\ LET signal == day.entries[at]
       IN  Admitted(signal) => \E over \in Overs(signal) : Unfilled(signal, over)
    /\ at' = at + 1
    /\ UNCHANGED <<known, actions, session, phase, day, due, positions,
                   receivables, book, blocked, incidents>>

Position(signal, over) ==
    LET s == signal.symbol
        open == day.bars[s].open
    IN  [symbol |-> s, quantity |-> Quantity(signal), entry |-> EntryPrice(open, over),
         stop |-> StopPrice(open, over), take |-> TakePrice(open, over),
         cost |-> Cost(signal, over),
         risk |-> PlannedRisk(s, open, over, Quantity(signal)),
         over |-> over, held |-> 0, mark |-> NoPrice, since |-> session]

Enter ==
    /\ phase = "entries" /\ at \in DOMAIN day.entries
    /\ LET signal == day.entries[at]
       IN  /\ Admitted(signal)
           /\ \E over \in Overs(signal) :
                 /\ ~Unfilled(signal, over)
                 /\ positions' = Append(positions, Position(signal, over))
                 /\ book' = [book EXCEPT !.cash = @ - Cost(signal, over)]
    /\ at' = at + 1
    /\ UNCHANGED <<known, actions, session, phase, day, due, receivables,
                   blocked, incidents>>

-----------------------------------------------------------------------------
(* Exits. *)

ValidBar(b) == b.high >= Larger(b.open, b.close) /\ b.low <= Smaller(b.open, b.close)

\* The position is evaluated today.
CanSell(s) ==
    /\ s \notin blocked.action \cup blocked.life
    /\ day.bars[s] # NoBar
    /\ ValidBar(day.bars[s])
    /\ day.bars[s].trade \notin {"halted", "limit_down", "special"}

\* A faulty variant: only the close is compared with the levels.
ExitAtClose(p, b) ==
    IF Scaled(b.close) <= p.stop \/ Scaled(b.close) >= p.take \/ p.held + 1 >= MaxHold
    THEN Scaled(b.close) ELSE NoPrice

\* The price of the exit rule that is met: a gap at the open, the stop before
\* the profit, the close of the last day; NoPrice when none is.
ExitPrice(p, b) ==
    CASE Scaled(b.open) <= p.stop \/ Scaled(b.open) >= p.take -> Scaled(b.open)
      [] Scaled(b.open) > p.stop /\ Scaled(b.low) <= p.stop -> p.stop
      [] Scaled(b.low) > p.stop /\ Scaled(b.open) < p.take
            /\ Scaled(b.high) >= p.take -> p.take
      [] OTHER -> IF p.held + 1 >= MaxHold THEN Scaled(b.close) ELSE NoPrice

Closes(p) ==
    /\ CanSell(p.symbol)
    /\ ExitPrice(p, day.bars[p.symbol]) # NoPrice
    /\ HasRate(p.symbol)

\* Deferred or nothing met: a session that could be evaluated is counted.
HoldOn ==
    /\ phase = "exits" /\ at \in DOMAIN positions /\ ~Closes(positions[at])
    /\ positions' = IF CanSell(positions[at].symbol)
                    THEN [positions EXCEPT ![at].held = @ + 1] ELSE positions
    /\ at' = at + 1
    /\ UNCHANGED <<known, actions, session, phase, day, due, receivables, book,
                   blocked, incidents>>

Close ==
    /\ phase = "exits" /\ at \in DOMAIN positions /\ Closes(positions[at])
    /\ LET p == positions[at]
           paid == Proceeds(p, ExitPrice(p, day.bars[p.symbol]))
       IN  book' = IF paid < p.cost THEN AfterLoss(Sold(book, p, paid))
                   ELSE [Sold(book, p, paid) EXCEPT !.streak = 0]
    /\ positions' = Without(positions, at)
    /\ UNCHANGED <<known, actions, session, phase, at, day, due, receivables,
                   blocked, incidents>>

-----------------------------------------------------------------------------
(* Dividends and the valuation. *)

Payable(r) == r.payable <= session /\ (r.currency = "USD" => day.rate # NoRate)

NetDividend(r) ==
    r.cash * r.shares * (IF r.currency = "USD" THEN day.rate.sell ELSE 1)
           * Base * Base * Base * Base

DeferDividend ==
    /\ phase = "dividends" /\ at \in DOMAIN receivables
    /\ ~Payable(receivables[at])
    /\ at' = at + 1
    /\ UNCHANGED <<known, actions, session, phase, day, due, positions,
                   receivables, book, blocked, incidents>>

\* A faulty variant: the loop passes over what follows a paid dividend.
PayDividendSkipping ==
    /\ phase = "dividends" /\ at \in DOMAIN receivables
    /\ Payable(receivables[at])
    /\ book' = [book EXCEPT !.cash = @ + NetDividend(receivables[at]),
                            !.realized = @ + NetDividend(receivables[at])]
    /\ receivables' = Without(receivables, at) /\ at' = at + 1
    /\ UNCHANGED <<known, actions, session, phase, day, due, positions,
                   blocked, incidents>>

PayDividend ==
    /\ phase = "dividends" /\ at \in DOMAIN receivables
    /\ Payable(receivables[at])
    /\ book' = [book EXCEPT !.cash = @ + NetDividend(receivables[at]),
                            !.realized = @ + NetDividend(receivables[at])]
    /\ receivables' = Without(receivables, at)
    /\ UNCHANGED <<known, actions, session, phase, at, day, due, positions,
                   blocked, incidents>>

\* The price a position is valued at: the close, the last verified one of a
\* blocked position, else what it was bought for.
Valuation(p) ==
    LET bar == day.bars[p.symbol]
    IN  IF p.symbol \in blocked.action \cup blocked.life
        THEN IF p.mark = NoPrice THEN p.entry ELSE p.mark
        ELSE IF bar = NoBar THEN p.entry ELSE Scaled(bar.close)

Marked(p) ==
    IF p.symbol \in blocked.action \cup blocked.life
    THEN p ELSE [p EXCEPT !.mark = Valuation(p)]

MarketValue ==
    Sum([i \in DOMAIN positions |->
           Valuation(positions[i]) * positions[i].quantity
             * FxSell(positions[i].symbol) * Base * Base])

\* Without every rate there is no equity and no judgement on the drawdown.
Value ==
    /\ phase = "valuation"
    /\ positions' = [i \in DOMAIN positions |-> Marked(positions[i])]
    /\ book' =
        IF \A s \in Held : HasRate(s)
        THEN LET equity == book.cash + MarketValue
                 peak == Larger(book.peak, equity)
             IN  [book EXCEPT !.peak = peak,
                              !.halted =
                                  IF @ = 0 /\ equity * Base <= peak * (Base - MaxDrawdown)
                                  THEN session ELSE @]
        ELSE book
    /\ phase' = "night" /\ at' = 1 /\ day' = NoDay
    /\ UNCHANGED <<known, actions, session, due, receivables, blocked, incidents>>

-----------------------------------------------------------------------------
Next ==
    \/ OpenSession
    \/ EndLifecycle \/ EndActions \/ EndEntries \/ EndExits \/ EndDividends
    \/ WriteOff \/ KeepListed
    \/ \E a \in due : PassAction(a) \/ BlockOnAction(a) \/ ApplySplit(a)
                      \/ RecordDividend(a)
    \/ Reject \/ Enter
    \/ HoldOn \/ Close
    \/ DeferDividend \/ PayDividend
    \/ Value

Spec == Init /\ [][Next]_vars

-----------------------------------------------------------------------------
(* Properties. *)

\* The books agree at every step: what is in cash and what the open positions
\* cost is the initial cash and the realized result, whatever was written off,
\* split, deferred or paid as a dividend.
CashReconciles == book.cash + Total("cost") = Capital + book.realized

\* A symbol is blocked only while it is held: an action that could not be
\* reflected, or a suspension, of an old position never keeps a new one of the
\* same asset from being sold.
BlockedAreHeld == blocked.action \cup blocked.life \subseteq Held

\* Once the loop of the exits is over, no position that could be sold has
\* touched its stop or its profit or reached its last session: none was skipped
\* when others left the dictionary, and a sale is deferred only for a rate.
NoMissedExit ==
    phase = "dividends" =>
        \A i \in DOMAIN positions :
            LET p == positions[i]
            IN  CanSell(p.symbol) /\ HasRate(p.symbol) =>
                    /\ p.stop < Scaled(day.bars[p.symbol].low)
                    /\ Scaled(day.bars[p.symbol].high) < p.take
                    /\ p.held < MaxHold

\* No dividend is left behind while others are paid: once the loop is over, what
\* is payable and was not paid is in USD, on a day without a usable rate.
PaidWhenDue ==
    phase = "valuation" =>
        \A i \in DOMAIN receivables :
            LET r == receivables[i]
            IN  r.payable <= session => r.currency = "USD" /\ day.rate = NoRate

\* The planned losses of all open positions pass the limit by no more than the
\* fee and the slippage of one order, which the sizing does not count.
OpenRiskStaysNear ==
    \E c \in Costs : \E slip \in c.slips :
        LET sized == StopLoss * (Base + Fee + c.half)
            planned == (StopLoss + Fee) * (Base + c.half + slip)
        IN  (Total("risk") - (Capital * OpenRiskRate) \div Base) * sized
                <= ((Capital * RiskRate) \div Base) * (planned - sized)

\* After the drawdown limit was met no position is opened any more.
HaltIsFinal ==
    book.halted # 0 => \A i \in DOMAIN positions : positions[i].since <= book.halted

=============================================================================
