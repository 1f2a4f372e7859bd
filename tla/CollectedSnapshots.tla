------------------------- MODULE CollectedSnapshots -------------------------
(***************************************************************************)
(* What one call of the audited collections makes of its target and of the *)
(* answer it gets (services/phase3_collection_service.py, and the clients  *)
(* and normalizations it uses): fundamentals of J-Quants and of the SEC,   *)
(* and ETF metrics from a reviewed file.  Pure functions; ResearchRecords  *)
(* stores the snapshots and the run that reports them.                     *)
(*                                                                         *)
(* A request has the job, the target, and the outcome of each attempt: an  *)
(* "answer" with rows, or "transport" (no connection, a timeout), "busy"   *)
(* (429, 5xx), "refused" (any other status, what cannot be read).  A row   *)
(* has its symbol, its times and its values; a field the provider leaves   *)
(* out is Missing.                                                         *)
(***************************************************************************)
EXTENDS Integers, Sequences, FiniteSets

CONSTANTS
    Master,  \* the assets: where each comes from, its type, currency and CIK
    Missing

\* fetch_financial_summary and SecClient._get_json: at most three attempts; the
\* client of the SEC repeats a busy answer too, that of J-Quants does not.
Attempts == 3
Retried(job, outcome) ==
    \/ job \in {"jquants", "sec"} /\ outcome.kind = "transport"
    \/ job = "sec" /\ outcome.kind = "busy"
Fetched(req) ==
    LET last == CHOOSE k \in 1..Attempts :
            /\ k = Attempts \/ ~Retried(req.job, req.attempts[k])
            /\ \A j \in 1..(k - 1) : Retried(req.job, req.attempts[j])
    IN req.attempts[last]

\* The checks before a request; the CIK must be that of the asset, exactly.
TargetFits(req) ==
    CASE req.job = "jquants" ->
            /\ req.inOrder /\ req.symbol \in DOMAIN Master
            /\ Master[req.symbol].source = "jquants"
            /\ Master[req.symbol].type \in {"stock", "etf"}
      [] req.job = "sec" ->
            /\ req.symbol \in DOMAIN Master
            /\ Master[req.symbol].type \in {"stock", "etf"}
            /\ Master[req.symbol].currency = "USD"
            /\ Master[req.symbol].cik = req.cik
      [] req.job = "etf" -> TRUE

\* normalize_financial_summary and normalize_etf_metrics leave out a row without
\* its symbol or time; normalize_sec_companyfacts leaves out a fact without its
\* filing or period and gives all others the symbol that was asked for.
FinancialSummary(rows) ==
    SelectSeq(rows, LAMBDA r : r.symbol # Missing /\ r.disclosed # Missing)
EtfMetrics(rows) ==
    SelectSeq(rows, LAMBDA r : r.symbol # Missing /\ r.disclosed # Missing)
Companyfacts(rows, symbol) ==
    LET timed == SelectSeq(rows, LAMBDA r :
                    r.disclosed # Missing /\ r.period # Missing)
    IN [k \in DOMAIN timed |-> [timed[k] EXCEPT !.symbol = symbol]]

Normalized(req) ==
    LET rows == Fetched(req).rows
    IN CASE req.job = "jquants" -> FinancialSummary(rows)
         [] req.job = "sec" -> Companyfacts(rows, req.symbol)
         [] req.job = "etf" -> EtfMetrics(rows)

\* J-Quants must answer for the symbol that was asked for, and a reviewed file
\* must be about ETFs.
AnswerFits(req) ==
    \A k \in DOMAIN Normalized(req) :
        LET symbol == Normalized(req)[k].symbol
        IN /\ req.job = "jquants" => symbol = req.symbol
           /\ req.job = "etf" => symbol \in DOMAIN Master /\ Master[symbol].type = "etf"

Fails(req) ==
    ~(TargetFits(req) /\ Fetched(req).kind = "answer" /\ AnswerFits(req))

\* classify_collection_error: what a later call may bring.
Retryable(req) == TargetFits(req) /\ Fetched(req).kind \in {"transport", "busy"}

\* _fundamental_payload: a row without the end of its period is rejected.
Payload(req) ==
    IF req.job = "etf" THEN Normalized(req)
    ELSE SelectSeq(Normalized(req), LAMBDA r : r.period # Missing)

SnapshotTables == {"fundamental_snapshots", "etf_metric_snapshots"}

\* uq_fundamental_snapshot and uq_etf_metric_snapshot.
SnapshotTable(req) ==
    IF req.job = "etf" THEN "etf_metric_snapshots" ELSE "fundamental_snapshots"
SnapshotKey(req, r) ==
    IF req.job = "etf" THEN <<r.symbol, r.disclosed, req.job>>
    ELSE <<r.symbol, r.disclosed, r.period, req.job>>

\* _success_result: no valid row is no success, an answer that is stored
\* already is one.
Report(valid, stored) ==
    [status |-> IF valid = 0 THEN "skipped" ELSE "success",
     classification |-> IF valid = 0 THEN "no_valid_rows"
                        ELSE IF stored = 0 THEN "idempotent_replay"
                        ELSE "new_rows_saved",
     stored |-> stored, log |-> IF valid = 0 THEN "skipped" ELSE "success"]

\* _record_failure.
FailureReport(retryable) ==
    [status |-> "error", classification |-> "error", stored |-> 0,
     log |-> IF retryable THEN "retry_pending" ELSE "error"]
=============================================================================
