-------------------------- MODULE SimulationReview --------------------------
(***************************************************************************)
(* Reviews of what became of a decision (backtest/simulation_review.py): a *)
(* frozen decision, the outcome of the virtual trade or of the trade that  *)
(* was not made, a benchmark and the factors observed since, as of the     *)
(* time of the review.  Pure functions; ResearchRecords stores what they   *)
(* return.                                                                 *)
(*                                                                         *)
(* Prices and exchange rates are integers, rates of return are fractions   *)
(* [num, den] with a positive den.  A hash stands for what it is taken of. *)
(***************************************************************************)
EXTENDS Integers, Sequences, FiniteSetsExt

CONSTANT None \* an optional field that is left out

Modes == {"cash", "margin_long", "margin_short"}
Assessments == {"supportive", "adverse", "neutral", "unobserved_at_decision"}

\* FrozenDecisionSnapshot: made of what was there when it was made.
IsDecision(d) ==
    /\ d.dataAsOf <= d.at /\ d.available <= d.at
    /\ d.execution \in Modes \cup {None}
    /\ d.mode \in Modes => d.execution \in {None, d.mode}

\* ReviewPriceObservation: a completed interval.
IsObservation(o) ==
    /\ o.start <= o.end /\ o.end <= o.available
    /\ 0 < o.low /\ o.low <= o.close /\ o.close <= o.high /\ 0 < o.fx

Earlier(o, p) == o.start < p.start \/ (o.start = p.start /\ o.end < p.end)

\* CompletedTradeOutcome: the path stays inside the holding period, and is
\* only called complete when there is one.
IsTrade(t) ==
    /\ t.entryAt <= t.exitAt /\ t.exitAt <= t.available
    /\ \A i \in DOMAIN t.path :
        /\ IsObservation(t.path[i])
        /\ t.path[i].start >= t.entryAt /\ t.path[i].end <= t.exitAt
        /\ \A j \in DOMAIN t.path : i < j => Earlier(t.path[i], t.path[j])
    /\ t.complete => t.path # <<>>
    /\ \A n \in {t.entry, t.entryFx, t.exit, t.exitFx, t.quantity} : 0 < n

\* NonExecutionOutcome: the prices of a comparison are complete or absent.
IsNonExecution(n) ==
    /\ n.subject \in {"skipped", "unfilled"} /\ n.at <= n.available
    /\ n.reference = None <=> n.observed = None

IsBenchmark(b) == b.start <= b.end /\ b.end <= b.available

IsFactor(f) == f.assessment \in Assessments /\ f.observed <= f.available

\* What a review is made of is well formed in itself.
WellFormed(in) ==
    /\ IsDecision(in.decision)
    /\ IF in.outcome.type = "trade" THEN IsTrade(in.outcome)
                                    ELSE IsNonExecution(in.outcome)
    /\ in.benchmark # None => IsBenchmark(in.benchmark)
    /\ \A f \in in.factors : IsFactor(f)
    /\ \A f, g \in in.factors : f.code = g.code => f = g

-----------------------------------------------------------------------------
OutcomeAt(out) == IF out.type = "trade" THEN out.exitAt ELSE out.at

\* _validate_common_cutoff
KnownAtReview(in) ==
    /\ OutcomeAt(in.outcome) >= in.decision.at
    /\ in.outcome.available <= in.at
    /\ in.benchmark # None => in.benchmark.available <= in.at
    /\ \A f \in in.factors : f.available <= in.at

\* _benchmark_metrics: only the very same period can be compared.
SamePeriod(in, start, end) ==
    in.benchmark # None => in.benchmark.start = start /\ in.benchmark.end = end

Minus(a, b) == [num |-> a.num * b.den - b.num * a.den, den |-> a.den * b.den]
Below(a, b) == a.num * b.den <= b.num * a.den

BenchmarkReturn(b) ==
    IF b = None THEN None ELSE [num |-> b.last - b.first, den |-> b.first]
Excess(return, b) ==
    IF b = None \/ return = None THEN None
    ELSE Minus(return, BenchmarkReturn(b))

\* _factor_groups
FactorGroups(d, factors) ==
    LET Codes(assessment) == {f.code : f \in {g \in factors : g.assessment = assessment}}
        known == d.reasons \cup d.counterarguments
    IN [confirmed |-> Codes("supportive") \cap d.reasons,
        materialized |-> Codes("adverse") \cap d.counterarguments,
        unobserved |-> Codes("unobserved_at_decision")
                        \cup ({f.code : f \in factors} \ known),
        neutral |-> Codes("neutral") \cap known]

-----------------------------------------------------------------------------
(* A completed trade: in units of the account's currency.                  *)

Side(d) == IF d.execution = "margin_short" THEN -1 ELSE 1
EntryUnit(t) == t.entry * t.entryFx
ExitUnit(t) == t.exit * t.exitFx

\* A faulty variant: every interval rises before it falls.
RisingOrder(side, o) == <<o.high * o.fx, o.low * o.fx, o.close * o.fx>>

\* The order within an interval that is worst for the position.
ConservativeOrder(side, o) ==
    IF side = 1 THEN <<o.high * o.fx, o.low * o.fx, o.close * o.fx>>
                ELSE <<o.low * o.fx, o.high * o.fx, o.close * o.fx>>

\* The prices the excursions are taken over.
ExcursionUnits(side, t) ==
    {ConservativeOrder(side, t.path[i])[k] : i \in DOMAIN t.path, k \in 1..2}
        \cup {ExitUnit(t)}

\* The prices in the order in which the drawdown sees them.
OrderedUnits(side, t) ==
    [i \in 1..(3 * Len(t.path) + 2) |->
        IF i = 1 THEN EntryUnit(t)
        ELSE IF i = 3 * Len(t.path) + 2 THEN ExitUnit(t)
        ELSE ConservativeOrder(side, t.path[(i + 1) \div 3])[((i + 1) % 3) + 1]]

Gain(side, t, unit) == side * (unit - EntryUnit(t))

\* _trade_excursions
Excursions(d, t) ==
    LET side == Side(d)
        gains == {Gain(side, t, u) : u \in ExcursionUnits(side, t)} \cup {0}
        units == OrderedUnits(side, t)
        wealth == [i \in DOMAIN units |-> EntryUnit(t) + Gain(side, t, units[i])]
        falls == {[num |-> wealth[p[2]] - wealth[p[1]], den |-> wealth[p[1]]] :
                    p \in {q \in (DOMAIN wealth) \X (DOMAIN wealth) :
                        /\ q[1] <= q[2]
                        /\ wealth[q[1]] = Max({wealth[k] : k \in 1..q[2]})}}
    IN [favorable |-> Max(gains) * t.quantity,
        adverse |-> Min(gains) * t.quantity,
        drawdown |-> CHOOSE f \in falls : \A g \in falls : Below(f, g)]

GrossPnl(d, t) == Side(d) * t.quantity * (ExitUnit(t) - EntryUnit(t))
NetPnl(d, t) == GrossPnl(d, t) + t.cashflow - t.costs

\* A faulty variant: a price on the way may be published after the review.
TradeReviewableLater(in) ==
    /\ in.decision.execution # None
    /\ in.outcome.entryAt >= in.decision.at
    /\ in.outcome.reported # None =>
        in.outcome.reported = NetPnl(in.decision, in.outcome)
    /\ SamePeriod(in, in.outcome.entryAt, in.outcome.exitAt)

\* review_completed_trade refuses the rest.
TradeReviewable(in) ==
    /\ in.decision.execution # None
    /\ in.outcome.entryAt >= in.decision.at
    /\ \A i \in DOMAIN in.outcome.path : in.outcome.path[i].available <= in.at
    /\ in.outcome.reported # None =>
        in.outcome.reported = NetPnl(in.decision, in.outcome)
    /\ SamePeriod(in, in.outcome.entryAt, in.outcome.exitAt)

TradeReview(in) ==
    LET t == in.outcome
        net == NetPnl(in.decision, t)
        return == [num |-> net, den |-> EntryUnit(t) * t.quantity]
    IN [subject |-> "executed_trade",
        status |-> IF t.complete THEN "complete" ELSE "insufficient_data",
        gross |-> GrossPnl(in.decision, t), net |-> net, return |-> return,
        excursions |-> IF t.complete THEN Excursions(in.decision, t) ELSE None,
        observed |-> None,
        excess |-> Excess(return, in.benchmark),
        included |-> TRUE,
        groups |-> FactorGroups(in.decision, in.factors)]

-----------------------------------------------------------------------------
(* A trade that was skipped or not filled: what the price did afterwards   *)
(* is an observation, never a performance.                                 *)

NonExecutionReview(in) ==
    LET n == in.outcome
        return == IF n.reference = None THEN None
                  ELSE [num |-> n.observed.price * n.observed.fx
                                - n.reference.price * n.reference.fx,
                        den |-> n.reference.price * n.reference.fx]
    IN [subject |-> n.subject,
        status |-> IF return = None THEN "insufficient_data" ELSE "complete",
        gross |-> None, net |-> None, return |-> None,
        excursions |-> None,
        observed |-> return,
        excess |-> Excess(return, in.benchmark),
        included |-> FALSE,
        groups |-> FactorGroups(in.decision, in.factors)]

\* SimulationReviewResult: only what was executed has a performance.
IsResult(in, out) ==
    IF out.subject = "executed_trade"
    THEN in.outcome.type = "trade" /\ out.included
         /\ out.net # None /\ out.return # None
    ELSE in.outcome.type = "non_execution" /\ ~out.included
         /\ out.net = None /\ out.return = None

Review(in) ==
    IF in.outcome.type = "trade" THEN TradeReview(in) ELSE NonExecutionReview(in)

Reviewable(in) ==
    /\ WellFormed(in) /\ KnownAtReview(in)
    /\ IF in.outcome.type = "trade" THEN TradeReviewable(in)
       ELSE SamePeriod(in, in.decision.at, in.outcome.at)
    /\ IsResult(in, Review(in))
=============================================================================
