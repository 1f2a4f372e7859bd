--------------------------- MODULE PriceCollector ---------------------------
(***************************************************************************)
(* The J-Quants price collector, jobs/collect_jquants_all_prices.py: run   *)
(* after run it refreshes the asset master, walks through the sessions of  *)
(* its window in a fixed order, asks the provider for the prices that the  *)
(* first unfinished session still misses, and keeps its progress in        *)
(* price_collection_targets (per session) and price_collection_items (per  *)
(* symbol and session).  Every answer is committed by itself, the process  *)
(* may die between any two commits, and its container starts it again.     *)
(*                                                                         *)
(* Sessions are numbered in calendar order.  One collector runs at a time. *)
(***************************************************************************)
EXTENDS Integers, FiniteSets

CONSTANTS
    Symbols,        \* the codes of stocks and ETFs, as places in symbol order
    LastSession,    \* bound: the last session that becomes the latest
    History,        \* --history-days, in sessions
    Recent,         \* --recent-session-count
    Limit,          \* --limit
    Traded,         \* the <<symbol, session>> pairs the provider has a price of
    Broken,         \* symbols for which the provider always returns an error
    Etfs,           \* the symbols that the provider's master classifies as ETFs
    MaxFaults,      \* bound: failing requests and refreshes of the rest, crashes
    MaxExpiries     \* bound: how often the asset master becomes stale

Sessions == 1..LastSession
Pairs == Symbols \X Sessions

ASSUME SymbolsAssumption == Symbols \subseteq Nat
ASSUME SizesAssumption == LastSession \in Nat \ {0} /\ {History, Recent, Limit} \subseteq Nat \ {0}
ASSUME ProviderAssumption ==
    Traded \subseteq Pairs /\ Broken \subseteq Symbols /\ Etfs \subseteq Symbols
ASSUME FaultBoundsAssumption == MaxFaults \in Nat /\ MaxExpiries \in Nat

VARIABLES
    latest,     \* the latest session, today - lag_days
    master,     \* the symbols in the asset master
    etf,        \* those of them whose asset_type is etf
    fresh,      \* a refresh of the master succeeded in the last refresh interval
    price,      \* market_prices: the pairs that have a price
    noData,     \* price_collection_items with status no_data
    target,     \* price_collection_targets: the status of each session
    cooling,    \* sessions marked unavailable within the probe interval
    pc,         \* where the collector is in its run
    run,        \* the latest session the run works with, the sessions it is
                \* through with, the session, the batch and the answers so far
    used        \* how many faults and expiries there were

stored == <<master, etf, fresh, price, noData, target, cooling>>
vars == <<latest, master, etf, fresh, price, noData, target, cooling, pc, run, used>>

Answers == {"success", "no_data", "failed"}
NoAnswers == [a \in Answers |-> {}]
NoRun == [latest |-> 1, passed |-> {}, date |-> 1, batch |-> {}, answered |-> NoAnswers]

TypeOK ==
    /\ latest \in Sessions
    /\ master \subseteq Symbols
    /\ etf \subseteq master
    /\ fresh \in BOOLEAN
    /\ price \subseteq Pairs
    /\ noData \subseteq Pairs
    /\ target \in [Sessions -> {"none", "active", "complete", "unavailable"}]
    /\ cooling \subseteq Sessions
    /\ pc \in {"asleep", "start", "refreshed", "select", "fetch"}
    /\ run \in [latest: Sessions, passed: SUBSET Sessions, date: Sessions,
                batch: SUBSET Symbols, answered: [Answers -> SUBSET Symbols]]
    /\ used \in [faults: 0..MaxFaults, expiries: 0..MaxExpiries]

-----------------------------------------------------------------------------
(* The queue.                                                              *)

Window(l) == {d \in Sessions : l - History < d /\ d <= l}

\* candidate_date_phases: the latest session, the recent ones from the newest
\* to the oldest, then the history from the oldest to the newest.
Place(l, d) == IF l - Recent < d THEN l - d ELSE Recent + d

Covered(s, d) == <<s, d>> \in price \cup noData

\* list_assets_missing_price_for_date, without its limit.
Missing(d) == {s \in master : ~Covered(s, d)}

FirstOf(S) == {s \in S : Cardinality({t \in S : t < s}) < Limit}

\* The session the loop of select_next_work has come to.
Current(d) ==
    /\ pc = "select"
    /\ d \in Window(run.latest) \ run.passed
    /\ \A e \in Window(run.latest) \ run.passed : Place(run.latest, d) <= Place(run.latest, e)

\* A faulty variant that probes an unavailable latest session in every run.
AlwaysProbe(d) == FALSE

\* not should_probe_latest_target.
TooSoon(d) == d = run.latest /\ target[d] = "unavailable" /\ d \in cooling

Pass(d) == run' = [run EXCEPT !.passed = @ \cup {d}]
Sleep == pc' = "asleep" /\ run' = NoRun
Spend(kind) == used' = [used EXCEPT ![kind] = @ + 1]
CanFail == used.faults < MaxFaults

-----------------------------------------------------------------------------
(* Time.                                                                   *)

NewSession ==
    /\ latest < LastSession
    /\ latest' = latest + 1
    /\ UNCHANGED <<stored, pc, run, used>>

ProbeIntervalPasses ==
    /\ cooling # {}
    /\ cooling' = {}
    /\ UNCHANGED <<latest, master, etf, fresh, price, noData, target, pc, run, used>>

MasterExpires ==
    /\ fresh
    /\ used.expiries < MaxExpiries
    /\ fresh' = FALSE
    /\ Spend("expiries")
    /\ UNCHANGED <<latest, master, etf, price, noData, target, cooling, pc, run>>

-----------------------------------------------------------------------------
(* A run.                                                                  *)

\* The loop sleeps no longer, or the container is started again.
Wake ==
    /\ pc = "asleep"
    /\ pc' = "start"
    /\ run' = [NoRun EXCEPT !.latest = latest]
    /\ UNCHANGED <<latest, stored, used>>

\* collect_jquants_listed_info commits what it got; a stale master's refresh is
\* then recorded, the bootstrap of an empty master is not.
RefreshMaster ==
    /\ pc = "start"
    /\ ~fresh \/ master = {}
    /\ \E listed \in SUBSET Symbols :
        /\ master' = master \cup listed
        /\ etf' = etf \cup (listed \cap Etfs)
    /\ pc' = IF fresh THEN "asleep" ELSE "refreshed"
    /\ run' = IF fresh THEN NoRun ELSE run
    /\ UNCHANGED <<latest, fresh, price, noData, target, cooling, used>>

RecordRefresh ==
    /\ pc = "refreshed"
    /\ fresh' = TRUE
    /\ Sleep
    /\ UNCHANGED <<latest, master, etf, price, noData, target, cooling, used>>

\* status skipped or error: the run ends, and the next one refreshes again.
RefreshFails ==
    /\ pc = "start"
    /\ ~fresh \/ master = {}
    /\ CanFail
    /\ Sleep
    /\ Spend("faults")
    /\ UNCHANGED <<latest, stored>>

StartSelection ==
    /\ pc = "start"
    /\ fresh /\ master # {}
    /\ pc' = "select"
    /\ UNCHANGED <<latest, stored, run, used>>

SkipLatest(d) ==
    /\ Current(d)
    /\ TooSoon(d)
    /\ Pass(d)
    /\ UNCHANGED <<latest, stored, pc, used>>

\* An unavailable session becomes active before it is looked at again.
Reopen(d) ==
    /\ Current(d)
    /\ ~TooSoon(d)
    /\ target[d] = "unavailable"
    /\ target' = [target EXCEPT ![d] = "active"]
    /\ UNCHANGED <<latest, master, etf, fresh, price, noData, cooling, pc, run, used>>

\* A faulty variant that trusts the status of a session it has completed once.
TrustComplete(d) ==
    /\ Current(d)
    /\ \/ target[d] \in {"none", "active"} /\ Missing(d) = {}
       \/ target[d] = "complete"
    /\ target' = [target EXCEPT ![d] = "complete"]
    /\ Pass(d)
    /\ UNCHANGED <<latest, master, etf, fresh, price, noData, cooling, pc, used>>

Complete(d) ==
    /\ Current(d)
    /\ target[d] # "unavailable"
    /\ Missing(d) = {}
    /\ target' = [target EXCEPT ![d] = "complete"]
    /\ Pass(d)
    /\ UNCHANGED <<latest, master, etf, fresh, price, noData, cooling, pc, used>>

PickBatch(d) ==
    /\ Current(d)
    /\ target[d] # "unavailable"
    /\ Missing(d) # {}
    /\ run' = [run EXCEPT !.date = d, !.batch = FirstOf(Missing(d))]
    /\ pc' = "fetch"
    /\ UNCHANGED <<latest, stored, used>>

NoWork ==
    /\ pc = "select"
    /\ Window(run.latest) \subseteq run.passed
    /\ Sleep
    /\ UNCHANGED <<latest, stored, used>>

\* What the provider says about the price of s on the session d.
Provided(s, d) == IF <<s, d>> \in Traded THEN "success" ELSE "no_data"

\* The next symbol of the batch is asked for.
NextAsked(s) == s \in run.batch /\ \A t \in run.batch : s <= t

\* collect_jquants_daily_bars: the asset is upserted again with the default
\* asset_type, stock, and whatever came of the request is committed.
Fetch(s, answer) ==
    /\ pc = "fetch"
    /\ NextAsked(s)
    /\ \/ answer = Provided(s, run.date) /\ s \notin Broken /\ UNCHANGED used
       \/ answer = "failed" /\ s \notin Broken /\ CanFail /\ Spend("faults")
       \/ answer = "failed" /\ s \in Broken /\ UNCHANGED used
    /\ etf' = etf \ {s}
    /\ price' = IF answer = "success" THEN price \cup {<<s, run.date>>} ELSE price
    /\ run' = [run EXCEPT !.batch = @ \ {s}, !.answered[answer] = @ \cup {s}]
    /\ UNCHANGED <<latest, master, fresh, noData, target, cooling, pc>>

\* A faulty variant that does not ask whether the session has prices already.
AnsweredEmpty ==
    /\ Cardinality(run.answered["no_data"]) >= 3
    /\ run.answered["success"] \cup run.answered["failed"] = {}

\* should_mark_target_unavailable.
SessionLooksEmpty ==
    /\ Cardinality(run.answered["no_data"]) >= 3
    /\ run.answered["success"] \cup run.answered["failed"] = {}
    /\ \A s \in Symbols : <<s, run.date>> \notin price

\* A faulty variant that keeps no answer without data.
NothingKept == {}

\* A faulty variant that keeps every symbol without a price as no_data.
NotDelivered == run.answered["no_data"] \cup run.answered["failed"]

\* The answers that upsert_unavailable_collection_items keeps.
Undelivered == run.answered["no_data"]

\* The end of collect_next_price_batch, in one transaction.
FinishBatch ==
    /\ pc = "fetch"
    /\ run.batch = {}
    /\ \/ /\ SessionLooksEmpty
          /\ target' = [target EXCEPT ![run.date] = "unavailable"]
          /\ cooling' = cooling \cup {run.date}
          /\ UNCHANGED noData
       \/ /\ ~SessionLooksEmpty
          /\ target' = [target EXCEPT ![run.date] = "active"]
          /\ noData' = noData \cup (Undelivered \X {run.date})
          /\ UNCHANGED cooling
    /\ Sleep
    /\ UNCHANGED <<latest, master, etf, fresh, price, used>>

\* The process is killed, or a statement of its session raises; in the middle
\* of a request the asset is upserted already and the answer is not stored.
Crash ==
    /\ pc # "asleep"
    /\ CanFail
    /\ \/ UNCHANGED etf
       \/ pc = "fetch" /\ \E s \in Symbols : NextAsked(s) /\ etf' = etf \ {s}
    /\ Sleep
    /\ Spend("faults")
    /\ UNCHANGED <<latest, master, fresh, price, noData, target, cooling>>

-----------------------------------------------------------------------------

Init ==
    /\ latest = 1
    /\ master = {}
    /\ etf = {}
    /\ fresh = FALSE
    /\ price = {}
    /\ noData = {}
    /\ target = [d \in Sessions |-> "none"]
    /\ cooling = {}
    /\ pc = "asleep"
    /\ run = NoRun
    /\ used = [faults |-> 0, expiries |-> 0]

RunNext ==
    \/ Wake
    \/ RefreshMaster
    \/ RecordRefresh
    \/ StartSelection
    \/ \E d \in Sessions : SkipLatest(d) \/ Reopen(d) \/ Complete(d) \/ PickBatch(d)
    \/ NoWork
    \/ \E s \in Symbols, answer \in Answers : Fetch(s, answer)
    \/ FinishBatch

Next ==
    \/ NewSession
    \/ ProbeIntervalPasses
    \/ MasterExpires
    \/ RunNext
    \/ RefreshFails
    \/ Crash

Spec == Init /\ [][Next]_vars

\* The loop of --continuous goes on, the container's policy starts it again
\* after a crash, and hours pass.
Fairness == WF_vars(RunNext) /\ WF_vars(ProbeIntervalPasses)

FairSpec == Spec /\ Fairness

-----------------------------------------------------------------------------

\* Whatever was interrupted or failed before, what a run asks the provider for
\* belongs to the first session in the order of docs/08: every session ahead of
\* it is covered for the whole master, listings that came later included, or is
\* the latest one and waits for its next probe.
FirstUnfinishedFirst ==
    pc = "fetch" =>
        \A e \in Window(run.latest) :
            Place(run.latest, e) < Place(run.latest, run.date) =>
                \/ Missing(e) = {}
                \/ e = run.latest /\ target[e] = "unavailable"

\* A run that starts after a crash asks only for what no earlier one has got:
\* no pair with a price or a no_data item is requested again.
AsksOnlyForMissing ==
    pc = "fetch" => \A s \in run.batch : ~Covered(s, run.date)

\* A no_data item, which ends the collection of its pair for good, only ever
\* stands for an answer without data: no failed request and no interrupted
\* batch turns into one, and no pair has both an item and a price.
NoDataIsAnAnswer == noData \cap (Traded \cup price) = {}

\* A session that has some price is never set aside as unavailable, though the
\* prices may be from a batch that was interrupted before it reported them.
UnavailableHasNoPrice ==
    \A d \in Sessions, s \in Symbols : target[d] = "unavailable" => <<s, d>> \notin price

\* While a session is the latest of all runs, it leaves the unavailable status
\* only when the probe interval has passed.
ProbesAreSpaced ==
    [][\A d \in Sessions :
        /\ target[d] = "unavailable" /\ d \in cooling
        /\ d = latest /\ (pc = "asleep" \/ d = run.latest)
        => target'[d] = "unavailable"]_vars

\* With one symbol per request, every session of the window is collected for
\* every listed symbol: faults, crashes, refreshes and new listings only delay.
EveryPairIsCollected ==
    \A s \in Symbols \ Broken, d \in Sessions :
        s \in master /\ d \in Window(latest) ~> Covered(s, d) \/ d \notin Window(latest)

=============================================================================
