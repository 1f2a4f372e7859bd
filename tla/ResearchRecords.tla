-------------------------- MODULE ResearchRecords ---------------------------
(***************************************************************************)
(* The append-only records of the research side.  Most are written by a    *)
(* service that looks for the record, compares or inserts it, and leaves   *)
(* the commit to its caller:                                               *)
(*   review    services/simulation_review_service.py                       *)
(*   series    services/trade_mode_backtest_service.py                     *)
(*   claim     services/selected_universe_validation_service.py            *)
(*   analysis  services/user_selection_analysis_service.py                 *)
(*   backtest  services/selected_universe_backtest_service.py              *)
(*   margin    services/margin_snapshot_service.py, which also loads       *)
(* Two commit on their own, in a session of a job:                         *)
(*   assets    services/asset_analysis_service.py                          *)
(*   collect   services/phase3_collection_service.py                       *)
(*                                                                         *)
(* The database (database/models.py) gives every table one unique key and  *)
(* runs at READ COMMITTED: a statement sees the rows committed before it   *)
(* and its own.  An insert waits for another transaction that has inserted *)
(* the key, and of two that wait for each other one is rolled back.        *)
(* UPDATE and DELETE do not occur.                                         *)
(***************************************************************************)
EXTENDS SimulationReview, CollectedSnapshots, Functions

CONSTANTS
    Users,     \* the database sessions
    Requests,  \* the calls they may make
    Versions,  \* of the one selection: when each was created and effective
    Analysed,  \* of each version of the prices, the assets the screening keeps
    Items,     \* of each version, its assets
    Domestic,  \* the assets of the JPX in yen
    Covered,   \* of each version of the prices, the assets with enough sessions
    MaxCalls,  \* bound: calls
    MaxPrices  \* bound: versions of the prices

ASSUME VersionsAssumption ==
    /\ DOMAIN Items = DOMAIN Versions
    /\ DOMAIN Versions = 1..Cardinality(DOMAIN Versions)
ASSUME CallsAssumption ==
    /\ MaxCalls \in Nat /\ MaxPrices \in Nat \ {0}
    /\ DOMAIN Covered = 1..MaxPrices /\ DOMAIN Analysed = 1..MaxPrices

Kinds ==
    {"review", "series", "claim", "analysis", "backtest", "margin", "assets",
     "collect", "load"}

\* Times are whole numbers.
TimesAreNumbers(in) ==
    /\ {in.at, in.decision.at, in.outcome.available, OutcomeAt(in.outcome)} \subseteq Int
    /\ in.benchmark # None => {in.benchmark.end, in.benchmark.available} \subseteq Int

\* So are the prices, the rates and the quantity of a trade.
PricesAreNumbers(t) ==
    /\ {t.entry, t.entryFx, t.exit, t.exitFx, t.quantity} \subseteq Int
    /\ t.path \in Seq(Range(t.path))
    /\ \A o \in Range(t.path) : {o.low, o.close, o.high, o.fx} \subseteq Int

\* What is left of an answer is a list again (SelectSeq).
ASSUME RequestsAssumption ==
    \A req \in Requests :
        /\ req.kind \in Kinds
        /\ req.kind = "review" => TimesAreNumbers(req.input)
        /\ req.kind = "review" /\ req.input.outcome.type = "trade" =>
            PricesAreNumbers(req.input.outcome)
        /\ req.kind = "collect" /\ ~Fails(req) =>
            Payload(req) \in Seq(Range(Payload(req)))

VARIABLES
    saved,   \* the latest version of the selection
    prices,  \* the version of the prices
    rows,    \* the rows of all tables; commit 0 is an open transaction
    commits, \* the number of commits so far
    calls,   \* the number of calls so far
    call     \* what each session is doing

vars == <<saved, prices, rows, commits, calls, call>>

-----------------------------------------------------------------------------
(* What a call writes.                                                     *)

\* classify_selected_universe_period: dates, not times.
Formal(req) ==
    /\ Versions[req.version].effective <= req.start
    /\ Versions[req.version].created <= req.start

\* build_selection_analysis_rows: an asset the analysis has no result for
\* keeps its row.
AnalysisRows(req) ==
    [a \in Items[req.version] |->
        IF a \in Analysed[req.source] THEN "analyzed" ELSE "insufficient_data"]

\* selected_asset_eligibility_rows: JPX assets that are analysed and have
\* prices of enough contiguous sessions; the others keep their row.
EligibilityRows(snapshot, p) ==
    [a \in DOMAIN snapshot |->
        IF snapshot[a] = "analyzed" /\ a \in Domestic /\ a \in Covered[p]
        THEN "eligible" ELSE "insufficient_data"]

\* The unique keys.  The hash of a review, and that of what a backtest
\* simulates, prices included, are taken of the whole input.
ReviewKey(req) == req.input
SeriesKey(req) == req.run
ClaimKey(req) ==
    <<req.version, req.start, req.end, req.strategy, req.data>>
AnalysisKey(req) == <<req.version, req.source>>
BacktestKey(req, p) == <<req.version, req.source, req.horizon, p>>
MarginKey(req) == req.record
AssetsKey(p) == <<p>>

Row(table, key, content) == [table |-> table, key |-> key, content |-> content]

\* The inserts of the calls, in their order.
ReviewWrites(req) ==
    <<Row("simulation_reviews", ReviewKey(req),
          [in |-> req.input, out |-> Review(req.input), code |-> req.code])>>

SeriesWrites(req) ==
    <<Row("trade_mode_backtest_runs", SeriesKey(req), req.content)>>

ClaimWrites(req) ==
    <<Row("selected_universe_validation_claims", ClaimKey(req),
          [version |-> req.version, start |-> req.start, end |-> req.end,
           formal |-> Formal(req)])>>

AnalysisWrites(req) ==
    <<Row("user_asset_selection_analysis_runs", AnalysisKey(req), AnalysisRows(req)),
      Row("user_asset_selection_analysis_results", AnalysisKey(req), AnalysisRows(req))>>

\* Without an eligible asset the run is saved as one without data.
BacktestWrites(req, p) ==
    LET rowsOfAssets == EligibilityRows(AnalysisRows(req), p)
        status == IF "eligible" \in Range(rowsOfAssets) THEN "simulated"
                  ELSE "insufficient_data"
        content == [status |-> status, assets |-> rowsOfAssets]
    IN <<Row("selected_universe_backtest_runs", BacktestKey(req, p), content),
         Row("selected_universe_backtest_asset_results", BacktestKey(req, p), content)>>

MarginTables ==
    <<"asset_trading_capabilities", "margin_market_snapshots",
      "financing_term_snapshots">>
MarginWrites(req) ==
    [k \in 1..3 |-> Row(MarginTables[k], MarginKey(req), req.content)]

\* run_all_asset_analysis: the run and a result for every asset that is kept.
AssetsWrites(p) ==
    LET content == [status |-> IF Analysed[p] = {} THEN "insufficient_data" ELSE "success",
                    results |-> Analysed[p]]
    IN <<Row("asset_analysis_runs", AssetsKey(p), content),
         Row("asset_analysis_results", AssetsKey(p), content)>>

CollectWrites(req) ==
    [k \in DOMAIN Payload(req) |->
        Row(SnapshotTable(req), SnapshotKey(req, Payload(req)[k]), Payload(req)[k].values)]

\* Given the prices the call has read.
Writes(req, p) ==
    CASE req.kind = "review" -> ReviewWrites(req)
      [] req.kind = "series" -> SeriesWrites(req)
      [] req.kind = "claim" -> ClaimWrites(req)
      [] req.kind = "analysis" -> AnalysisWrites(req)
      [] req.kind = "backtest" -> BacktestWrites(req, p)
      [] req.kind = "margin" -> MarginWrites(req)
      [] req.kind = "assets" -> AssetsWrites(p)
      [] req.kind = "collect" -> CollectWrites(req)

\* A job has a session for one call of these.
CommitsItself(req) == req.kind \in {"assets", "collect"}

-----------------------------------------------------------------------------
Idle == [pc |-> "idle", req |-> None, i |-> 1, prices |-> 0, checked |-> 0,
         loaded |-> {}]

\* The assets have been analysed once.
Init ==
    /\ saved = 1 /\ prices = 1
    /\ rows = {[table |-> w.table, key |-> w.key, content |-> w.content,
                by |-> None, commit |-> 1, checked |-> 0] : w \in Range(AssetsWrites(1))}
    /\ commits = 1 /\ calls = 0
    /\ call = [u \in Users |-> Idle]

\* What a statement of the session sees.
Visible(u) == {r \in rows : r.commit > 0 \/ r.by = u}
Have(u, row) ==
    {r \in Visible(u) : r.table = row.table /\ r.key = row.key}

Step(u, pc) == call' = [call EXCEPT ![u].pc = pc]
Open(u) == {r \in rows : r.commit = 0 /\ r.by = u}

\* An exception, or the death of the process: nothing of the transaction stays.
Rollback(u) ==
    /\ rows' = rows \ Open(u)
    /\ call' = [call EXCEPT ![u] = Idle]

\* A call begins.
Begun(req) ==
    [pc |-> CASE req.kind \in {"load", "collect"} -> req.kind
              [] req.kind = "margin" -> "write"
              [] OTHER -> "look",
     req |-> req, i |-> 1, prices |-> prices, checked |-> 0, loaded |-> {}]

\* The call of a service, in the transaction of the calls before it.
Call(u, req) ==
    /\ calls < MaxCalls
    /\ \/ call[u].pc = "idle"
       \/ /\ call[u].pc = "answered"
          /\ ~CommitsItself(call[u].req) /\ ~CommitsItself(req)
    /\ req.kind = "assets" =>  \* prevent_concurrent_runs(HEAVY_ANALYSIS_LOCK)
        \A v \in Users : call[v].pc # "idle" => call[v].req.kind # "assets"
    /\ req.kind \in {"claim", "analysis", "backtest"} => req.version <= saved
    /\ calls' = calls + 1
    /\ call' = [call EXCEPT ![u] = Begun(req)]
    /\ UNCHANGED <<saved, prices, rows, commits>>

\* Without these the services raise.  A review is checked by the function that
\* makes it, before it is given to the service that stores it.  A version is
\* active here, and a source run one of the asset analysis.
Admitted(u, req) ==
    /\ req.kind = "review" => Reviewable(req.input)
    /\ req.kind = "analysis" =>
        /\ req.version = saved
        /\ Have(u, Row("asset_analysis_runs", AssetsKey(req.source), None)) # {}
    /\ req.kind = "backtest" =>
        Have(u, Row("user_asset_selection_analysis_runs",
                    AnalysisKey(req), None)) # {}

First(u) == Writes(call[u].req, call[u].prices)[1]

\* A faulty variant: the record that is found is not compared.
LookOnly(u) ==
    /\ call[u].pc = "look" /\ Admitted(u, call[u].req)
    /\ Step(u, IF Have(u, First(u)) # {} THEN "answered"
               ELSE IF call[u].req.kind = "claim" THEN "reuse" ELSE "write")
    /\ UNCHANGED <<saved, prices, rows, commits, calls>>

\* The same record again is an answer, another one under its name an error.
\* Reviews, series and margin records are compared; of the others the key says
\* what the content is, so that there is nothing to compare.
Look(u) ==
    /\ call[u].pc = "look"
    /\ LET first == First(u)
           held == Have(u, first)
           exact == \A r \in held : r.content = first.content
       IN \/ /\ Admitted(u, call[u].req) => ~exact
             /\ Rollback(u)
          \/ /\ Admitted(u, call[u].req) /\ exact
             /\ Step(u, IF held # {} THEN "answered"
                        ELSE IF call[u].req.kind = "claim" THEN "reuse" ELSE "write")
             /\ UNCHANGED rows
    /\ UNCHANGED <<saved, prices, commits, calls>>

Claims(seen) == {r \in seen : r.table = "selected_universe_validation_claims"}
SamePeriodClaims(seen, start, end) ==
    {r \in Claims(seen) :
        r.content.formal /\ r.content.start = start /\ r.content.end = end}

\* A faulty variant: the claims of this version only.
ReuseOfVersion(u) ==
    /\ call[u].pc = "reuse"
    /\ call' = [call EXCEPT ![u].pc = "write", ![u].checked = commits]
    /\ UNCHANGED <<saved, prices, rows, commits, calls>>

\* A formal claim of a period needs that no other has been made of it.
Reuse(u) ==
    LET req == call[u].req
        taken == SamePeriodClaims(Visible(u), req.start, req.end)
    IN
    /\ call[u].pc = "reuse"
    /\ \/ /\ Formal(req) /\ taken # {}
          /\ Rollback(u)
       \/ /\ ~(Formal(req) /\ taken # {})
          /\ call' = [call EXCEPT ![u].pc = "write", ![u].checked = commits]
          /\ UNCHANGED rows
    /\ UNCHANGED <<saved, prices, commits, calls>>

Current(u) == Writes(call[u].req, call[u].prices)[call[u].i]

\* The insert waits for the transaction that has inserted the key.
WaitsFor(u, v) ==
    /\ u # v /\ call[u].pc = "write"
    /\ LET w == Current(u)
       IN \E r \in Open(v) : r.table = w.table /\ r.key = w.key

Inserted(u, w) ==
    [table |-> w.table, key |-> w.key, content |-> w.content, by |-> u,
     commit |-> 0, checked |-> call[u].checked]

AfterWrite(u) ==
    IF call[u].i < Len(Writes(call[u].req, call[u].prices))
    THEN call' = [call EXCEPT ![u].i = @ + 1]
    ELSE Step(u, IF call[u].req.kind = "collect" THEN "record" ELSE "answered")

\* A faulty variant: each insert commits.
WriteCommitting(u) ==
    /\ call[u].pc = "write" /\ \A v \in Users : ~WaitsFor(u, v)
    /\ Have(u, Current(u)) = {}
    /\ rows' = rows \cup {[Inserted(u, Current(u)) EXCEPT !.commit = commits + 1]}
    /\ commits' = commits + 1 /\ AfterWrite(u)
    /\ UNCHANGED <<saved, prices, calls>>

\* INSERT: a key that is there is an error, with ON CONFLICT DO NOTHING an
\* answer, for the margin snapshots only if the content is the same.
Accepts(u, r, w) ==
    \/ call[u].req.kind = "collect"
    \/ call[u].req.kind = "margin" /\ r.content = w.content

Write(u) ==
    /\ call[u].pc = "write" /\ \A v \in Users : ~WaitsFor(u, v)
    /\ LET w == Current(u)
           held == Have(u, w)
       IN \/ /\ held = {}
             /\ rows' = rows \cup {Inserted(u, w)} /\ AfterWrite(u)
          \/ /\ held # {} /\ \A r \in held : Accepts(u, r, w)
             /\ AfterWrite(u) /\ UNCHANGED rows
          \/ /\ \E r \in held : ~Accepts(u, r, w)
             /\ Rollback(u)
    /\ UNCHANGED <<saved, prices, commits, calls>>

\* Two transactions that wait for each other: the database ends one.  A
\* collection goes on to report it.
Deadlock(u) ==
    /\ \E v \in Users : WaitsFor(u, v) /\ WaitsFor(v, u)
    /\ \/ call[u].req.kind # "collect" /\ Rollback(u)
       \/ /\ call[u].req.kind = "collect"
          /\ rows' = rows \ Open(u) /\ Step(u, "failed")
    /\ UNCHANGED <<saved, prices, commits, calls>>

Commit(u) ==
    /\ call[u].pc = "answered"
    /\ rows' = (rows \ Open(u))
                \cup {[r EXCEPT !.commit = commits + 1] : r \in Open(u)}
    /\ commits' = commits + 1
    /\ call' = [call EXCEPT ![u] = Idle]
    /\ UNCHANGED <<saved, prices, calls>>

Abort(u) ==
    /\ call[u].pc # "idle"
    /\ Rollback(u)
    /\ UNCHANGED <<saved, prices, commits, calls>>

-----------------------------------------------------------------------------
(* The audited collections: the target is checked and the answer fetched   *)
(* and normalized, one statement inserts the snapshots, and the run that   *)
(* reports them is committed with them.                                    *)

Collect(u) ==
    /\ call[u].pc = "collect"
    /\ LET req == call[u].req
       IN Step(u, IF Fails(req) THEN "failed"
                  ELSE IF Payload(req) = <<>> THEN "record" ELSE "write")
    /\ UNCHANGED <<saved, prices, rows, commits, calls>>

\* A statement, or the commit, raises.
CollectFails(u) ==
    /\ call[u].pc \in {"write", "record"} /\ call[u].req.kind = "collect"
    /\ Step(u, "failed")
    /\ UNCHANGED <<saved, prices, rows, commits, calls>>

\* One row for the entries of api_fetch_logs and job_runs: no key but the
\* commit it came with.
Reporting(u, report) ==
    [table |-> "job_runs", key |-> commits + 1, content |-> report, by |-> u,
     commit |-> commits + 1, checked |-> 0]

\* What is committed now, and nothing else.
CommitRows(u, kept, report) ==
    /\ rows' = (rows \ Open(u))
                \cup {[r EXCEPT !.commit = commits + 1] : r \in kept}
                \cup {Reporting(u, report)}
    /\ commits' = commits + 1
    /\ call' = [call EXCEPT ![u] = Idle]
    /\ UNCHANGED <<saved, prices, calls>>

RecordResult(u) ==
    /\ call[u].pc = "record"
    /\ CommitRows(u, Open(u),
            Report(Len(Payload(call[u].req)), Cardinality(Open(u))))

FailureOf(req) == FailureReport(IF Fails(req) THEN Retryable(req) ELSE TRUE)

\* A faulty variant: without the rollback that comes first.
RecordFailureKeeping(u) ==
    /\ call[u].pc = "failed"
    /\ CommitRows(u, Open(u), FailureOf(call[u].req))

RecordFailure(u) ==
    /\ call[u].pc = "failed"
    /\ CommitRows(u, {}, FailureOf(call[u].req))

-----------------------------------------------------------------------------
(* load_margin_snapshot_as_of: three statements.                           *)

AsOf(u, at) ==
    {r \in Visible(u) :
        /\ r.table = MarginTables[1]
        /\ r.content.effective <= at /\ at < r.content.until
        /\ r.content.available <= at /\ r.key.fetched <= at}

\* Published, and then fetched, last.
Latest(found) ==
    {r \in found : \A o \in found :
        \/ o.content.available < r.content.available
        \/ /\ o.content.available = r.content.available
           /\ o.key.fetched <= r.key.fetched}

Load(u) ==
    /\ call[u].pc = "load"
    /\ LET found == Latest(AsOf(u, call[u].req.at))
       IN IF found = {} THEN Step(u, "answered")
          ELSE \E r \in found :
                call' = [call EXCEPT ![u].loaded = {r}, ![u].pc = "market"]
    /\ UNCHANGED <<saved, prices, rows, commits, calls>>

LoadNext(u) ==
    /\ call[u].pc \in {"market", "terms"}
    /\ LET capability == CHOOSE r \in call[u].loaded : r.table = MarginTables[1]
           table == MarginTables[IF call[u].pc = "market" THEN 2 ELSE 3]
           found == Have(u, Row(table, capability.key, None))
       IN call' = [call EXCEPT ![u].loaded = @ \cup found,
                ![u].pc = IF @ = "market" THEN "terms" ELSE "loaded"]
    /\ UNCHANGED <<saved, prices, rows, commits, calls>>

\* A snapshot is put together, or "normalized margin snapshot is incomplete".
Restore(u) ==
    /\ call[u].pc = "loaded"
    /\ IF Cardinality(call[u].loaded) = 3 THEN Step(u, "answered") /\ UNCHANGED rows
       ELSE Rollback(u)
    /\ UNCHANGED <<saved, prices, commits, calls>>

-----------------------------------------------------------------------------
SaveVersion ==
    /\ saved + 1 \in DOMAIN Versions /\ saved' = saved + 1
    /\ UNCHANGED <<prices, rows, commits, calls, call>>

NewPrices ==
    /\ prices < MaxPrices /\ prices' = prices + 1
    /\ UNCHANGED <<saved, rows, commits, calls, call>>

Next ==
    \/ \E u \in Users :
        \/ \E req \in Requests : Call(u, req)
        \/ Look(u) \/ Reuse(u) \/ Write(u) \/ Deadlock(u) \/ Commit(u)
        \/ Abort(u) \/ Load(u) \/ LoadNext(u) \/ Restore(u)
        \/ Collect(u) \/ CollectFails(u) \/ RecordResult(u) \/ RecordFailure(u)
    \/ SaveVersion \/ NewPrices

Spec == Init /\ [][Next]_vars

-----------------------------------------------------------------------------
Committed == {r \in rows : r.commit > 0}

\* Who gets an answer has the very record saved that was asked for, not one
\* that only has its name (the comparisons of the hashes).
AnswersAreExact ==
    \A u \in Users : call[u].pc = "answered" /\ call[u].req.kind # "load" =>
        LET writes == Writes(call[u].req, call[u].prices)
        IN \A k \in DOMAIN writes :
            LET w == writes[k]
            IN \E r \in Have(u, w) : r.content = w.content

\* What belongs together is saved together: a run with the rows of its assets,
\* a margin snapshot with its three records of one content; so that loading it
\* never meets half of one (the caller's transaction).
RecordsAreWhole ==
    /\ \A r \in Committed :
        LET Has(table) == \E s \in Committed :
                s.table = table /\ s.key = r.key /\ s.content = r.content
        IN /\ r.table \in Range(MarginTables) => \A t \in Range(MarginTables) : Has(t)
           /\ r.table = "asset_analysis_runs" => Has("asset_analysis_results")
           /\ r.table = "user_asset_selection_analysis_runs" =>
                Has("user_asset_selection_analysis_results")
           /\ r.table = "selected_universe_backtest_runs" =>
                Has("selected_universe_backtest_asset_results")
    /\ \A u \in Users : call[u].pc = "loaded" =>
        /\ Cardinality(call[u].loaded) = 3
        /\ \A r, s \in call[u].loaded : r.content = s.content

\* Every stored snapshot came with a run that reports it, and every run reports
\* as many as its transaction stored, none if it failed: whatever another
\* collection has stored or is storing, and wherever it raises
\* (_record_result, _record_failure).
CollectionsAreCounted ==
    /\ \A r \in Committed : r.table \in SnapshotTables =>
        \E j \in Committed : /\ j.table = "job_runs" /\ j.commit = r.commit
                              /\ j.content.status = "success"
    /\ \A j \in Committed : j.table = "job_runs" =>
        j.content.stored =
            Cardinality({r \in Committed : r.table \in SnapshotTables /\ r.commit = j.commit})

FormalClaims(start, end) == SamePeriodClaims(Committed, start, end)

\* What docs/07_database_design.md promises: a period is formal for one version
\* of a selection only, the database and the service see to it.
FormalPeriodOnce ==
    \A r \in Claims(Committed) : r.content.formal =>
        \A s \in FormalClaims(r.content.start, r.content.end) :
            s.content.version = r.content.version

\* What the service does ensure: a second formal claim of a period is only
\* possible while the first one is not committed yet.
FormalReuseNeedsARace ==
    \A r \in Claims(Committed) : r.content.formal =>
        \A s \in FormalClaims(r.content.start, r.content.end) :
            s # r => r.checked < s.commit

\* Nothing a review is made of is from after its time or, if the decision was
\* made of it, from after the decision (_validate_common_cutoff, the validators).
NothingFromLater(in) ==
    /\ in.decision.dataAsOf <= in.decision.at /\ in.decision.available <= in.decision.at
    /\ in.decision.at <= OutcomeAt(in.outcome) /\ OutcomeAt(in.outcome) <= in.at
    /\ in.benchmark # None => in.benchmark.end <= in.at /\ in.benchmark.available <= in.at
    /\ \A f \in in.factors : f.available <= in.at

\* Nor are the prices of a trade, which begins once it is decided on; its
\* profit is the one that was reported of it (review_completed_trade).
TradeAddsUp(t, in, out) ==
    /\ t.entryAt >= in.decision.at
    /\ \A i \in DOMAIN t.path : t.path[i].available <= in.at
    /\ t.reported # None => out.net = t.reported

\* Stored reviews know nothing that came after them, the prices on the way
\* included, and only trades that were made after the decision and whose profit
\* adds up count for the performance.
ReviewsUseNoHindsight ==
    \A r \in Committed : r.table = "simulation_reviews" =>
        LET in == r.content.in out == r.content.out
        IN /\ NothingFromLater(in)
           /\ out.included <=> in.outcome.type = "trade"
           /\ out.included => TradeAddsUp(in.outcome, in, out)

\* The excursions of a stored review enclose where the trade ended, and its
\* drawdown is at least the fall from the best to the worst price of any one
\* interval, and from the entry to the worst price of all; where a short loses
\* more than it began with, it says so: a fall of more than everything
\* (_trade_excursions).
ExcursionsAreConservative ==
    \A r \in Committed :
        r.table = "simulation_reviews" /\ r.content.out.excursions # None =>
        LET t == r.content.in.outcome
            side == Side(r.content.in.decision)
            e == r.content.out.excursions
            Wealth(unit) == EntryUnit(t) + Gain(side, t, unit)
            Worst(o) == Min({Wealth(o.low * o.fx), Wealth(o.high * o.fx)})
            Best(o) == Max({Wealth(o.low * o.fx), Wealth(o.high * o.fx)})
            Covers(left, fall) ==
                IF left >= 0 THEN Below(e.drawdown, fall)
                ELSE e.drawdown.num < -e.drawdown.den
        IN /\ e.adverse <= r.content.out.gross /\ r.content.out.gross <= e.favorable
           /\ Covers(EntryUnit(t) * t.quantity + e.adverse,
                     [num |-> e.adverse, den |-> EntryUnit(t) * t.quantity])
           /\ \A i \in DOMAIN t.path :
                Covers(Worst(t.path[i]),
                       [num |-> Worst(t.path[i]) - Best(t.path[i]),
                        den |-> Max({Best(t.path[i]), EntryUnit(t)})])
=============================================================================
