----------------------- MODULE ResearchRecords_proofs -----------------------
(***************************************************************************)
(* What ResearchRecords stores, for any sessions, calls, versions, prices  *)
(* and answers of the providers.                                           *)
(***************************************************************************)
EXTENDS ResearchRecords, TLAPS, FiniteSetTheorems, NaturalsInduction, WellFoundedInduction

-----------------------------------------------------------------------------
(* The parts of the invariant. *)

IsRow(r, n) ==
    /\ r = [table |-> r.table, key |-> r.key, content |-> r.content, by |-> r.by,
            commit |-> r.commit, checked |-> r.checked]
    /\ r.commit \in 0..n /\ r.checked \in 0..n

IsCall(c, n) ==
    /\ c = [pc |-> c.pc, req |-> c.req, i |-> c.i, prices |-> c.prices,
            checked |-> c.checked, loaded |-> c.loaded]
    /\ c.i \in Nat \ {0} /\ c.checked \in 0..n
    /\ c.pc # "idle" => c.req \in Requests

WritesOf(u) == Writes(call[u].req, call[u].prices)

\* What the calls of a kind pass through.
Looking == {"review", "series", "claim", "analysis", "backtest", "assets"}
CallIsAt(c) ==
    \/ c.pc = "idle"
    \/ c.pc = "look" /\ c.req.kind \in Looking /\ c.i = 1
    \/ c.pc = "reuse" /\ c.req.kind = "claim" /\ c.i = 1
    \/ /\ c.pc = "write" /\ c.req.kind # "load"
       /\ c.i \in DOMAIN Writes(c.req, c.prices)
       /\ c.req.kind = "collect" => ~Fails(c.req)
    \/ c.pc = "answered" /\ c.req.kind # "collect"
    \/ c.pc \in {"load", "market", "terms", "loaded"} /\ c.req.kind = "load"
    \/ c.pc = "collect" /\ c.req.kind = "collect" /\ c.i = 1
    \/ c.pc = "record" /\ c.req.kind = "collect" /\ ~Fails(c.req)
    \/ c.pc = "failed" /\ c.req.kind = "collect"

TypeOK ==
    /\ commits \in Nat \ {0}
    /\ IsFiniteSet(rows) /\ \A r \in rows : IsRow(r, commits)
    /\ call = [u \in Users |-> call[u]]
    /\ \A u \in Users : IsCall(call[u], commits) /\ CallIsAt(call[u])

\* Every table has one row of a key, open ones included; a run of a collection
\* is never open and has the number of its commit.
KeysAreUnique ==
    /\ \A r, s \in rows : r.table = s.table /\ r.key = s.key => r = s
    /\ \A r \in rows : r.table = "job_runs" => r.commit > 0 /\ r.key = r.commit

\* A row that is not committed is of a call that is under way, and of a
\* collection that found something if it is a snapshot.
OpenRowsBelong ==
    \A u \in Users : \A r \in Open(u) :
        /\ call[u].pc # "idle"
        /\ IF call[u].req.kind = "collect"
           THEN /\ r.table \in SnapshotTables
                /\ call[u].pc # "collect" /\ Payload(call[u].req) # <<>>
           ELSE r.table \notin SnapshotTables

OpenHasOwner == \A r \in rows : r.commit = 0 => r.by \in Users

\* The tables a row of one goes with.
Siblings(table) ==
    IF table \in Range(MarginTables) THEN Range(MarginTables)
    ELSE CASE table = "asset_analysis_runs" -> {"asset_analysis_results"}
           [] table = "user_asset_selection_analysis_runs" ->
                {"user_asset_selection_analysis_results"}
           [] table = "selected_universe_backtest_runs" ->
                {"selected_universe_backtest_asset_results"}
           [] OTHER -> {}

Holds(S, table, key, content) ==
    \E s \in S : s.table = table /\ s.key = key /\ s.content = content

WholeIn(S, r) ==
    \A t \in Siblings(r.table) : Holds(S, t, r.key, r.content)

\* The inserts of the call up to its i-th are in the tables with the very
\* content, its own or another one's.
Inserts(u, n) ==
    \A k \in 1..n :
        LET w == WritesOf(u)[k] IN Holds(Visible(u), w.table, w.key, w.content)

InsertsSoFar(u) ==
    call[u].pc = "write" /\ call[u].req.kind # "collect" => Inserts(u, call[u].i - 1)

\* The row of one of the first n inserts of the call.
IsInsert(u, r, n) ==
    \E k \in 1..n :
        LET w == WritesOf(u)[k]
        IN r.table = w.table /\ r.key = w.key /\ r.content = w.content

\* What is not committed is whole for its session but for the inserts under way.
OpenRowsAreWhole(u) ==
    \A r \in Open(u) :
        \/ WholeIn(Visible(u), r)
        \/ /\ call[u].pc = "write" /\ call[u].req.kind # "collect"
           /\ IsInsert(u, r, call[u].i - 1)

CommittedRowsAreWhole == \A r \in Committed : WholeIn(Committed, r)

\* The three statements of a load find the three parts of one record.
Part(u, n, s, r) ==
    /\ s \in Visible(u) /\ s.table = MarginTables[n]
    /\ s.key = r.key /\ s.content = r.content
LoadsInOrder(u) ==
    /\ call[u].pc = "market" =>
        \E r \in call[u].loaded : Part(u, 1, r, r) /\ call[u].loaded = {r}
    /\ call[u].pc = "terms" =>
        \E r, s \in call[u].loaded :
            Part(u, 1, r, r) /\ Part(u, 2, s, r) /\ call[u].loaded = {r, s}
    /\ call[u].pc = "loaded" =>
        \E r, s, t \in call[u].loaded :
            /\ Part(u, 1, r, r) /\ Part(u, 2, s, r) /\ Part(u, 3, t, r)
            /\ call[u].loaded = {r, s, t}

\* Every insert of a call that is answered is in the tables.
Answered(u) ==
    call[u].pc = "answered" /\ call[u].req.kind # "load" =>
        Inserts(u, Len(WritesOf(u)))

SessionIsWhole(u) ==
    InsertsSoFar(u) /\ OpenRowsAreWhole(u) /\ LoadsInOrder(u) /\ Answered(u)
WholeInv == CommittedRowsAreWhole /\ \A u \in Users : SessionIsWhole(u)

\* A review that is stored has passed the checks, and a call that goes on to
\* store one has made them.
ReviewIsPassed(r) ==
    r.table = "simulation_reviews" =>
        /\ \E req \in Requests : req.kind = "review" /\ req.input = r.content.in
        /\ Reviewable(r.content.in) /\ r.content.out = Review(r.content.in)
ReviewIsChecked(u) ==
    call[u].pc = "write" /\ call[u].req.kind = "review" => Reviewable(call[u].req.input)

\* A formal claim knows those of its period that were committed before its
\* check: the others came later.
SameFormalPeriod(r, s) ==
    /\ r.table = "selected_universe_validation_claims" /\ s.table = r.table
    /\ r.content.formal /\ s.content.formal
    /\ s.content.start = r.content.start /\ s.content.end = r.content.end
ClaimsAreOrdered ==
    \A r \in rows : \A s \in Committed :
        SameFormalPeriod(r, s) /\ s # r => r.checked < s.commit
ClaimIsChecked(u) ==
    call[u].pc = "write" /\ call[u].req.kind = "claim" /\ Formal(call[u].req) =>
        \A s \in SamePeriodClaims(Committed, call[u].req.start, call[u].req.end) :
            call[u].checked < s.commit

SessionIsChecked(u) == ReviewIsChecked(u) /\ ClaimIsChecked(u)
ChecksInv ==
    /\ \A r \in rows : ReviewIsPassed(r)
    /\ ClaimsAreOrdered
    /\ \A u \in Users : SessionIsChecked(u)

-----------------------------------------------------------------------------
(* What a call writes. *)

\* The inserts of a call are a list, and one that is not empty but for an
\* answer without rows.
LEMMA WritesAreList ==
    ASSUME NEW req \in Requests, NEW p, req.kind # "load",
           req.kind = "collect" => ~Fails(req)
    PROVE  /\ Len(Writes(req, p)) \in Nat
           /\ DOMAIN Writes(req, p) = 1..Len(Writes(req, p))
           /\ req.kind # "collect" => 1 \in DOMAIN Writes(req, p)
           /\ req.kind = "collect" => /\ DOMAIN Writes(req, p) = DOMAIN Payload(req)
                                      /\ 1 \in DOMAIN Writes(req, p)
                                            <=> Payload(req) # <<>>
                                      /\ Payload(req) = <<>> <=> Len(Payload(req)) = 0
<1>1. CASE req.kind = "collect"
  <2>1. Payload(req) \in Seq(Range(Payload(req)))
    BY <1>1, RequestsAssumption
  <2>2. Writes(req, p) = CollectWrites(req)
    BY <1>1 DEF Writes
  <2> DEFINE P == Payload(req)
  <2>3. Len(P) \in Nat /\ DOMAIN P = 1..Len(P) /\ (P = <<>> <=> Len(P) = 0)
    <3> HIDE DEF P
    <3> QED
      BY <2>1 DEF P
  <2>4. CollectWrites(req) =
          [k \in 1..Len(P) |->
              Row(SnapshotTable(req), SnapshotKey(req, P[k]), P[k].values)]
    BY <2>3 DEF CollectWrites
  <2> HIDE DEF P
  <2>5. Len(CollectWrites(req)) = Len(P) /\ DOMAIN CollectWrites(req) = 1..Len(P)
    BY <2>3, <2>4
  <2>6. 1 \in DOMAIN CollectWrites(req) <=> P # <<>>
    BY <2>3, <2>5
  <2> QED
    BY <1>1, <2>2, <2>3, <2>5, <2>6 DEF P
<1>2. CASE req.kind \in {"review", "series", "claim"}
  <2>1. \E row : Writes(req, p) = <<row>>
    BY <1>2 DEF Writes, ReviewWrites, SeriesWrites, ClaimWrites
  <2> QED
    BY <1>2, <2>1
<1>3. CASE req.kind \in {"analysis", "backtest", "assets"}
  <2>1. \E row, other : Writes(req, p) = <<row, other>>
    BY <1>3 DEF Writes, AnalysisWrites, BacktestWrites, AssetsWrites
  <2> QED
    BY <1>3, <2>1
<1>4. CASE req.kind = "margin"
  BY <1>4 DEF Writes, MarginWrites
<1> QED
  BY <1>1, <1>2, <1>3, <1>4, RequestsAssumption DEF Kinds

\* Which tables the inserts are for.
LEMMA TableOfWrite ==
    ASSUME NEW req \in Requests, NEW p, req.kind # "load",
           req.kind = "collect" => ~Fails(req),
           NEW k \in DOMAIN Writes(req, p)
    PROVE  /\ IF req.kind = "collect" THEN Writes(req, p)[k].table \in SnapshotTables
              ELSE Writes(req, p)[k].table \notin SnapshotTables
           /\ Writes(req, p)[k].table # "job_runs"
<1> DEFINE w == Writes(req, p)[k]
<1> USE DEF Row, SnapshotTables
<1>1. CASE req.kind = "collect"
  <2>1. w.table = SnapshotTable(req)
    BY <1>1 DEF Writes, CollectWrites
  <2> QED
    BY <1>1, <2>1 DEF SnapshotTable
<1>2. CASE req.kind \in {"review", "series", "claim"}
  <2>1. CASE req.kind = "review"
    BY <2>1 DEF Writes, ReviewWrites
  <2>2. CASE req.kind = "series"
    BY <2>2 DEF Writes, SeriesWrites
  <2>3. CASE req.kind = "claim"
    BY <2>3 DEF Writes, ClaimWrites
  <2> QED
    BY <1>2, <2>1, <2>2, <2>3
<1>3. CASE req.kind \in {"analysis", "backtest", "assets"}
  <2>1. CASE req.kind = "analysis"
    BY <2>1 DEF Writes, AnalysisWrites
  <2>2. CASE req.kind = "backtest"
    BY <2>2 DEF Writes, BacktestWrites
  <2>3. CASE req.kind = "assets"
    BY <2>3 DEF Writes, AssetsWrites
  <2> QED
    BY <1>3, <2>1, <2>2, <2>3
<1>4. CASE req.kind = "margin"
  <2>1. k \in 1..3 /\ w.table = MarginTables[k]
    BY <1>4 DEF Writes, MarginWrites
  <2>2. MarginTables[k] \in {"asset_trading_capabilities", "margin_market_snapshots",
                             "financing_term_snapshots"}
    BY <2>1 DEF MarginTables
  <2> QED
    BY <1>4, <2>1, <2>2
<1> QED
  BY <1>1, <1>2, <1>3, <1>4, RequestsAssumption DEF Kinds

\* What a review and a claim say.
LEMMA ReviewOfWrite ==
    ASSUME NEW req \in Requests, NEW p, req.kind # "load",
           req.kind = "collect" => ~Fails(req),
           NEW k \in DOMAIN Writes(req, p), Writes(req, p)[k].table = "simulation_reviews"
    PROVE  /\ req.kind = "review"
           /\ Writes(req, p)[k].content.in = req.input
           /\ Writes(req, p)[k].content.out = Review(req.input)
<1> USE DEF Row
<1>1. req.kind = "review"
  <2> SUFFICES ASSUME req.kind # "review" PROVE FALSE
    OBVIOUS
  <2>1. CASE req.kind = "collect"
    BY <2>1, TableOfWrite DEF SnapshotTables
  <2>2. CASE req.kind = "margin"
    <3>1. k \in 1..3 /\ Writes(req, p)[k].table = MarginTables[k]
      BY <2>2 DEF Writes, MarginWrites
    <3> QED
      BY <3>1 DEF MarginTables
  <2>3. CASE req.kind = "series"
    BY <2>3 DEF Writes, SeriesWrites
  <2>4. CASE req.kind = "claim"
    BY <2>4 DEF Writes, ClaimWrites
  <2>5. CASE req.kind = "analysis"
    BY <2>5 DEF Writes, AnalysisWrites
  <2>6. CASE req.kind = "backtest"
    BY <2>6 DEF Writes, BacktestWrites
  <2>7. CASE req.kind = "assets"
    BY <2>7 DEF Writes, AssetsWrites
  <2> QED
    BY <2>1, <2>2, <2>3, <2>4, <2>5, <2>6, <2>7, RequestsAssumption DEF Kinds
<1> QED
  BY <1>1 DEF Writes, ReviewWrites

LEMMA ClaimOfWrite ==
    ASSUME NEW req \in Requests, NEW p, req.kind # "load",
           req.kind = "collect" => ~Fails(req),
           NEW k \in DOMAIN Writes(req, p), Writes(req, p)[k].table = "selected_universe_validation_claims"
    PROVE  /\ req.kind = "claim"
           /\ Writes(req, p)[k].content.start = req.start
           /\ Writes(req, p)[k].content.end = req.end
           /\ Writes(req, p)[k].content.formal => Formal(req)
<1> USE DEF Row
<1>1. req.kind = "claim"
  <2> SUFFICES ASSUME req.kind # "claim" PROVE FALSE
    OBVIOUS
  <2>1. CASE req.kind = "collect"
    BY <2>1, TableOfWrite DEF SnapshotTables
  <2>2. CASE req.kind = "margin"
    <3>1. k \in 1..3 /\ Writes(req, p)[k].table = MarginTables[k]
      BY <2>2 DEF Writes, MarginWrites
    <3> QED
      BY <3>1 DEF MarginTables
  <2>3. CASE req.kind = "review"
    BY <2>3 DEF Writes, ReviewWrites
  <2>4. CASE req.kind = "series"
    BY <2>4 DEF Writes, SeriesWrites
  <2>5. CASE req.kind = "analysis"
    BY <2>5 DEF Writes, AnalysisWrites
  <2>6. CASE req.kind = "backtest"
    BY <2>6 DEF Writes, BacktestWrites
  <2>7. CASE req.kind = "assets"
    BY <2>7 DEF Writes, AssetsWrites
  <2> QED
    BY <2>1, <2>2, <2>3, <2>4, <2>5, <2>6, <2>7, RequestsAssumption DEF Kinds
<1> QED
  BY <1>1 DEF Writes, ClaimWrites

\* The inserts of a call are siblings with one key and one content.
LEMMA WritesAreWhole ==
    ASSUME NEW req \in Requests, NEW p, req.kind \notin {"load", "collect"},
           NEW k \in DOMAIN Writes(req, p)
    PROVE  /\ \A t \in Siblings(Writes(req, p)[k].table) : \E j \in DOMAIN Writes(req, p) :
                /\ Writes(req, p)[j].table = t
                /\ Writes(req, p)[j].key = Writes(req, p)[k].key
                /\ Writes(req, p)[j].content = Writes(req, p)[k].content
           /\ req.kind \in Looking /\ k # 1 =>
                /\ Writes(req, p)[k].table \in Siblings(Writes(req, p)[1].table)
                /\ Writes(req, p)[k].key = Writes(req, p)[1].key
                /\ Writes(req, p)[k].content = Writes(req, p)[1].content
<1> DEFINE W == Writes(req, p)
<1>0. Range(MarginTables) = {"asset_trading_capabilities", "margin_market_snapshots",
                             "financing_term_snapshots"}
      /\ MarginTables[1] = "asset_trading_capabilities"
      /\ MarginTables[2] = "margin_market_snapshots"
      /\ MarginTables[3] = "financing_term_snapshots"
  BY DEF MarginTables, Range
<1> USE DEF Row
<1>2. CASE req.kind \in {"review", "series", "claim"}
  <2>1. PICK row : /\ W = <<row>>
                   /\ row.table \in {"simulation_reviews", "trade_mode_backtest_runs",
                                     "selected_universe_validation_claims"}
    BY <1>2 DEF Writes, ReviewWrites, SeriesWrites, ClaimWrites
  <2>2. k = 1 /\ W[k] = row
    BY <2>1
  <2>3. Siblings(row.table) = {}
    BY <1>0, <2>1 DEF Siblings
  <2> HIDE DEF W
  <2> QED
    BY <2>2, <2>3 DEF W
<1>3. CASE req.kind \in {"analysis", "backtest", "assets"}
  <2>1. PICK row, other : /\ W = <<row, other>> /\ other.key = row.key
                          /\ other.content = row.content
                          /\ Siblings(row.table) = {other.table}
                          /\ Siblings(other.table) = {}
    <3>1. /\ Siblings("asset_analysis_runs") = {"asset_analysis_results"}
          /\ Siblings("asset_analysis_results") = {}
          /\ Siblings("user_asset_selection_analysis_runs") =
                {"user_asset_selection_analysis_results"}
          /\ Siblings("user_asset_selection_analysis_results") = {}
          /\ Siblings("selected_universe_backtest_runs") =
                {"selected_universe_backtest_asset_results"}
          /\ Siblings("selected_universe_backtest_asset_results") = {}
      BY <1>0 DEF Siblings
    <3>2. CASE req.kind = "analysis"
      BY <3>1, <3>2 DEF Writes, AnalysisWrites
    <3>3. CASE req.kind = "backtest"
      BY <3>1, <3>3 DEF Writes, BacktestWrites
    <3>4. CASE req.kind = "assets"
      <4>1. PICK c : W = <<Row("asset_analysis_runs", AssetsKey(p), c),
                           Row("asset_analysis_results", AssetsKey(p), c)>>
        BY <3>4 DEF Writes, AssetsWrites
      <4> QED
        BY <3>1, <4>1
    <3> QED
      BY <1>3, <3>2, <3>3, <3>4
  <2>2. DOMAIN W = {1, 2} /\ W[1] = row /\ W[2] = other
    BY <2>1
  <2>3. k \in {1, 2}
    BY <2>2
  <2> HIDE DEF W
  <2> QED
    BY <2>1, <2>2, <2>3 DEF W
<1>4. CASE req.kind = "margin"
  <2>1. W = [j \in 1..3 |-> Row(MarginTables[j], MarginKey(req), req.content)]
    BY <1>4 DEF Writes, MarginWrites
  <2>2. \A t \in Siblings(W[k].table) : \E j \in 1..3 : t = MarginTables[j]
    BY <1>0, <2>1 DEF Siblings
  <2> HIDE DEF W
  <2> QED
    BY <1>4, <2>1, <2>2 DEF W, Looking
<1> QED
  BY <1>2, <1>3, <1>4, RequestsAssumption DEF Kinds

-----------------------------------------------------------------------------
(* Types. *)

\* What one session does leaves the calls of the others alone.
OthersStay(u) == \A v \in Users : v # u => call'[v] = call[v]
RowsStay == rows' = rows /\ commits' = commits

LEMMA CallsAre ==
    ASSUME TypeOK, NEW u \in Users
    PROVE  IsCall(call[u], commits) /\ CallIsAt(call[u])
  BY DEF TypeOK

LEMMA CallsAreRecords ==
    ASSUME TypeOK
    PROVE  call \in [Users -> [pc : {call[v].pc : v \in Users},
                               req : {call[v].req : v \in Users},
                               i : {call[v].i : v \in Users},
                               prices : {call[v].prices : v \in Users},
                               checked : {call[v].checked : v \in Users},
                               loaded : {call[v].loaded : v \in Users}]]
  BY DEF TypeOK, IsCall

\* A step of one session changes its call and leaves the others alone.
LEMMA TypeOfStep ==
    ASSUME TypeOK, NEW u \in Users, NEW c, call' = [call EXCEPT ![u] = c],
           commits' \in {commits, commits + 1},
           IsFiniteSet(rows'), \A r \in rows' : IsRow(r, commits'),
           IsCall(c, commits'), CallIsAt(c)
    PROVE  /\ TypeOK' /\ call'[u] = c
           /\ OthersStay(u)
<1>1. call'[u] = c /\ \A v \in Users : v # u => call'[v] = call[v]
  BY DEF TypeOK
<1>2. call' = [v \in Users |-> call'[v]]
  BY DEF TypeOK
<1>3. commits' \in Nat \ {0} /\ \A n \in 0..commits : n \in 0..commits'
  BY DEF TypeOK
<1>4. ASSUME NEW v \in Users PROVE IsCall(call'[v], commits') /\ CallIsAt(call'[v])
  <2>1. CASE v = u
    BY <1>1, <2>1
  <2>2. CASE v # u
    BY <1>1, <1>3, <2>2, CallsAre DEF IsCall
  <2> QED
    BY <2>1, <2>2
<1> QED
  BY <1>1, <1>2, <1>3, <1>4 DEF TypeOK, OthersStay

\* One that touches no row.
LEMMA TypeOfQuietStep ==
    ASSUME TypeOK, NEW u \in Users, NEW c, call' = [call EXCEPT ![u] = c],
           UNCHANGED <<rows, commits>>, IsCall(c, commits), CallIsAt(c)
    PROVE  /\ TypeOK' /\ call'[u] = c
           /\ OthersStay(u)
<1>1. IsFiniteSet(rows) /\ (\A r \in rows : IsRow(r, commits))
  BY DEF TypeOK
<1> QED
  BY <1>1, TypeOfStep

\* What a session does next, its call staying what it is.
LEMMA NextPc ==
    ASSUME TypeOK, NEW u \in Users, NEW pc, Step(u, pc)
    PROVE  LET c == [call[u] EXCEPT !.pc = pc]
           IN /\ call' = [call EXCEPT ![u] = c]
              /\ c.pc = pc /\ c.req = call[u].req /\ c.i = call[u].i
              /\ c.prices = call[u].prices /\ c.checked = call[u].checked
              /\ c.loaded = call[u].loaded
              /\ call[u].req \in Requests => IsCall(c, commits)
<1>1. IsCall(call[u], commits)
  BY CallsAre
<1> QED
  BY <1>1 DEF Step, IsCall

LEMMA IdleIsCall ==
    ASSUME TypeOK PROVE IsCall(Idle, commits) /\ CallIsAt(Idle) /\ Idle.pc = "idle"
  BY DEF TypeOK, IsCall, CallIsAt, Idle

LEMMA TypeOfRollback ==
    ASSUME TypeOK, NEW u \in Users, Rollback(u), commits' = commits
    PROVE  TypeOK' /\ call'[u] = Idle /\ OthersStay(u)
<1>1. IsFiniteSet(rows \ Open(u)) /\ (\A r \in rows \ Open(u) : IsRow(r, commits))
  BY FS_Subset DEF TypeOK
<1> QED
  BY <1>1, IdleIsCall, TypeOfStep DEF Rollback

LEMMA CallStep ==
    ASSUME TypeOK, NEW u \in Users, NEW req \in Requests, Call(u, req)
    PROVE  /\ TypeOK' /\ OthersStay(u) /\ RowsStay
           /\ call[u].pc = "idle" \/ (call[u].pc = "answered" /\ req.kind # "collect")
           /\ call'[u].req = req /\ call'[u].i = 1 /\ call'[u].pc # "idle"
           /\ call'[u].pc \notin {"answered", "market", "terms", "loaded"}
           /\ call'[u].pc = "write" => req.kind = "margin"
<1> DEFINE c == Begun(req)
<1>1. /\ c.req = req /\ c.i = 1 /\ c.checked = 0
      /\ c = [pc |-> c.pc, req |-> c.req, i |-> c.i, prices |-> c.prices,
              checked |-> c.checked, loaded |-> c.loaded]
  BY DEF Begun
<1>2. \/ req.kind \in {"load", "collect"} /\ c.pc = req.kind
      \/ req.kind = "margin" /\ c.pc = "write"
      \/ req.kind \in Looking /\ c.pc = "look"
  BY RequestsAssumption DEF Kinds, Looking, Begun
<1> HIDE DEF c
<1>3. IsCall(c, commits)
  BY <1>1 DEF IsCall, TypeOK
<1>4. req.kind # "load" /\ req.kind # "collect" => 1 \in DOMAIN Writes(req, c.prices)
  BY WritesAreList
<1>5. CallIsAt(c)
  BY <1>1, <1>2, <1>4 DEF CallIsAt
<1>6. call' = [call EXCEPT ![u] = c] /\ UNCHANGED <<rows, commits>>
  BY DEF Call, c
<1>7. TypeOK' /\ call'[u] = c /\ OthersStay(u)
  BY <1>3, <1>5, <1>6, TypeOfQuietStep
<1>8. call[u].pc = "idle" \/ (call[u].pc = "answered" /\ req.kind # "collect")
  <2>1. call[u].pc = "idle" \/ (call[u].pc = "answered" /\ ~CommitsItself(req))
    BY DEF Call
  <2>2. req.kind = "collect" => CommitsItself(req)
    BY DEF CommitsItself
  <2> QED
    BY <2>1, <2>2
<1> QED
  BY <1>1, <1>2, <1>6, <1>7, <1>8 DEF Looking, RowsStay

LEMMA LookStep ==
    ASSUME TypeOK, NEW u \in Users, Look(u)
    PROVE  /\ TypeOK' /\ OthersStay(u) /\ commits' = commits
           /\ \/ rows' = rows \ Open(u) /\ call'[u] = Idle
              \/ /\ rows' = rows /\ Admitted(u, call[u].req)
                 /\ call'[u].req = call[u].req /\ call'[u].prices = call[u].prices
                 /\ call'[u].i = 1
                 /\ \A r \in Have(u, First(u)) : r.content = First(u).content
                 /\ IF Have(u, First(u)) # {} THEN call'[u].pc = "answered"
                    ELSE call'[u].pc \in {"reuse", "write"}
                         /\ (call[u].req.kind = "claim" <=> call'[u].pc = "reuse")
<1> DEFINE pc == IF Have(u, First(u)) # {} THEN "answered"
                 ELSE IF call[u].req.kind = "claim" THEN "reuse" ELSE "write"
<1>0. /\ call[u].pc = "look" /\ call[u].req.kind \in Looking /\ call[u].i = 1
      /\ call[u].req \in Requests
  BY CallsAre DEF Look, CallIsAt, IsCall
<1>1. CASE Rollback(u)
  <2>1. commits' = commits
    BY DEF Look
  <2> QED
    BY <1>1, <2>1, TypeOfRollback DEF Rollback
<1>2. CASE ~Rollback(u)
  <2>1. /\ Step(u, pc) /\ rows' = rows /\ commits' = commits /\ Admitted(u, call[u].req)
        /\ \A r \in Have(u, First(u)) : r.content = First(u).content
    BY <1>2 DEF Look
  <2>2. pc \in {"answered", "reuse", "write"}
    OBVIOUS
  <2>3. /\ pc = "reuse" => call[u].req.kind = "claim"
        /\ Have(u, First(u)) # {} => pc = "answered"
        /\ Have(u, First(u)) = {} =>
              /\ pc \in {"reuse", "write"}
              /\ call[u].req.kind = "claim" <=> pc = "reuse"
    OBVIOUS
  <2> HIDE DEF pc
  <2> DEFINE c == [call[u] EXCEPT !.pc = pc]
  <2>4. /\ call' = [call EXCEPT ![u] = c] /\ IsCall(c, commits)
        /\ c.pc = pc /\ c.req = call[u].req /\ c.i = 1 /\ c.prices = call[u].prices
    BY <1>0, <2>1, NextPc
  <2> HIDE DEF c
  <2>5. 1 \in DOMAIN Writes(call[u].req, call[u].prices)
    BY <1>0, WritesAreList DEF Looking
  <2>6. CallIsAt(c)
    BY <1>0, <2>2, <2>3, <2>4, <2>5 DEF CallIsAt, Looking
  <2>7. TypeOK' /\ call'[u] = c /\ OthersStay(u)
    BY <2>1, <2>4, <2>6, TypeOfQuietStep
  <2> QED
    BY <2>1, <2>2, <2>3, <2>4, <2>7
<1> QED
  BY <1>1, <1>2

LEMMA ReuseStep ==
    ASSUME TypeOK, NEW u \in Users, Reuse(u)
    PROVE  /\ TypeOK' /\ OthersStay(u) /\ commits' = commits
           /\ call[u].req.kind = "claim"
           /\ \/ rows' = rows \ Open(u) /\ call'[u] = Idle
              \/ /\ rows' = rows
                 /\ Formal(call[u].req) =>
                        SamePeriodClaims(Visible(u), call[u].req.start,
                                         call[u].req.end) = {}
                 /\ call'[u].req = call[u].req /\ call'[u].prices = call[u].prices
                 /\ call'[u].i = 1 /\ call'[u].pc = "write"
                 /\ call'[u].checked = commits
<1>0. /\ call[u].pc = "reuse" /\ call[u].req.kind = "claim" /\ call[u].i = 1
      /\ call[u].req \in Requests /\ IsCall(call[u], commits) /\ commits \in Nat
  BY CallsAre DEF Reuse, CallIsAt, IsCall, TypeOK
<1>1. CASE Rollback(u)
  <2>1. commits' = commits
    BY DEF Reuse
  <2> QED
    BY <1>0, <1>1, <2>1, TypeOfRollback DEF Rollback
<1>2. CASE ~Rollback(u)
  <2> DEFINE c == [call[u] EXCEPT !.pc = "write", !.checked = commits]
  <2>0. call \in [Users -> [pc : {call[v].pc : v \in Users}, req : {call[v].req : v \in Users},
                            i : {call[v].i : v \in Users},
                            prices : {call[v].prices : v \in Users},
                            checked : {call[v].checked : v \in Users},
                            loaded : {call[v].loaded : v \in Users}]]
    BY CallsAreRecords
  <2>1. /\ call' = [call EXCEPT ![u] = c] /\ rows' = rows /\ commits' = commits
        /\ Formal(call[u].req) =>
               SamePeriodClaims(Visible(u), call[u].req.start, call[u].req.end) = {}
    BY <1>2, <2>0 DEF Reuse
  <2>2. /\ IsCall(c, commits) /\ c.pc = "write" /\ c.req = call[u].req /\ c.i = 1
        /\ c.prices = call[u].prices /\ c.checked = commits
    <3>1. c = [pc |-> "write", req |-> call[u].req, i |-> 1,
               prices |-> call[u].prices, checked |-> commits,
               loaded |-> call[u].loaded]
      <4>1. call[u] \in [pc : {"reuse"}, req : {call[u].req}, i : {1},
                         prices : {call[u].prices}, checked : {call[u].checked},
                         loaded : {call[u].loaded}]
        BY <1>0 DEF IsCall
      <4>2. c \in [pc : {"write"}, req : {call[u].req}, i : {1},
                   prices : {call[u].prices}, checked : {commits},
                   loaded : {call[u].loaded}]
        BY <4>1
      <4> HIDE DEF c
      <4> QED
        BY <4>2
    <3> HIDE DEF c
    <3> QED
      BY <1>0, <3>1 DEF IsCall
  <2> HIDE DEF c
  <2>3. 1 \in DOMAIN Writes(call[u].req, call[u].prices)
    BY <1>0, WritesAreList
  <2>4. CallIsAt(c)
    BY <1>0, <2>2, <2>3 DEF CallIsAt
  <2>5. TypeOK' /\ call'[u] = c /\ OthersStay(u)
    BY <2>1, <2>2, <2>4, TypeOfQuietStep
  <2> QED
    BY <1>0, <2>1, <2>2, <2>5
<1> QED
  BY <1>1, <1>2

\* The call after one of its inserts.
Proceeds(u) ==
    /\ call'[u].req = call[u].req /\ call'[u].prices = call[u].prices
    /\ call'[u].checked = call[u].checked
    /\ \/ call'[u].pc = "write" /\ call'[u].i = call[u].i + 1
       \/ /\ call[u].i = Len(WritesOf(u))
          /\ call'[u].pc = IF call[u].req.kind = "collect" THEN "record" ELSE "answered"

LEMMA AfterWriteStep ==
    ASSUME TypeOK, NEW u \in Users, call[u].pc = "write", AfterWrite(u),
           IsFiniteSet(rows'), \A r \in rows' : IsRow(r, commits), commits' = commits
    PROVE  TypeOK' /\ OthersStay(u) /\ Proceeds(u)
<1> DEFINE W == Writes(call[u].req, call[u].prices)
<1>1. /\ IsCall(call[u], commits) /\ call[u].req \in Requests /\ call[u].req.kind # "load"
      /\ call[u].i \in DOMAIN W /\ call[u].i \in Nat \ {0}
      /\ call[u].req.kind = "collect" => ~Fails(call[u].req)
  BY CallsAre DEF CallIsAt, IsCall
<1>2. DOMAIN W = 1..Len(W) /\ Len(W) \in Nat
  BY <1>1, WritesAreList
<1>3. CASE call[u].i < Len(W)
  <2> DEFINE c == [call[u] EXCEPT !.i = call[u].i + 1]
  <2>1. call' = [call EXCEPT ![u] = c]
    BY <1>3 DEF AfterWrite
  <2>2. /\ IsCall(c, commits) /\ c.pc = "write" /\ c.req = call[u].req
        /\ c.i = call[u].i + 1 /\ c.prices = call[u].prices
        /\ c.checked = call[u].checked
    BY <1>1 DEF IsCall
  <2> HIDE DEF c
  <2>3. CallIsAt(c)
    BY <1>1, <1>2, <1>3, <2>2 DEF CallIsAt
  <2>4. TypeOK' /\ call'[u] = c /\ OthersStay(u)
    BY <2>1, <2>2, <2>3, TypeOfStep
  <2> QED
    BY <2>2, <2>4 DEF Proceeds
<1>4. CASE ~(call[u].i < Len(W))
  <2> DEFINE pc == IF call[u].req.kind = "collect" THEN "record" ELSE "answered"
             c == [call[u] EXCEPT !.pc = pc]
  <2>0. call[u].i = Len(W)
    BY <1>1, <1>2, <1>4
  <2>1. Step(u, pc)
    BY <1>4 DEF AfterWrite
  <2>2. /\ call' = [call EXCEPT ![u] = c] /\ IsCall(c, commits)
        /\ c.pc = pc /\ c.req = call[u].req /\ c.prices = call[u].prices
        /\ c.checked = call[u].checked
    <3> HIDE DEF pc
    <3> QED
      BY <1>1, <2>1, NextPc
  <2> HIDE DEF c
  <2>3. CallIsAt(c)
    BY <1>1, <2>2 DEF CallIsAt
  <2>4. TypeOK' /\ call'[u] = c /\ OthersStay(u)
    BY <2>2, <2>3, TypeOfStep
  <2> QED
    BY <2>0, <2>2, <2>4 DEF Proceeds, WritesOf
<1> QED
  BY <1>3, <1>4

LEMMA WriteStep ==
    ASSUME TypeOK, NEW u \in Users, Write(u)
    PROVE  /\ TypeOK' /\ OthersStay(u) /\ commits' = commits
           /\ call[u].pc = "write" /\ \A v \in Users : ~WaitsFor(u, v)
           /\ \/ rows' = rows \ Open(u) /\ call'[u] = Idle
              \/ /\ Have(u, Current(u)) = {}
                 /\ rows' = rows \cup {Inserted(u, Current(u))} /\ Proceeds(u)
              \/ /\ Have(u, Current(u)) # {}
                 /\ \A r \in Have(u, Current(u)) : Accepts(u, r, Current(u))
                 /\ rows' = rows /\ Proceeds(u)
<1>0. /\ call[u].pc = "write" /\ commits' = commits /\ \A v \in Users : ~WaitsFor(u, v)
      /\ \/ /\ Have(u, Current(u)) = {}
            /\ rows' = rows \cup {Inserted(u, Current(u))} /\ AfterWrite(u)
         \/ /\ Have(u, Current(u)) # {}
            /\ \A r \in Have(u, Current(u)) : Accepts(u, r, Current(u))
            /\ AfterWrite(u) /\ rows' = rows
         \/ Rollback(u)
  BY DEF Write
<1>1. /\ IsFiniteSet(rows) /\ (\A r \in rows : IsRow(r, commits))
      /\ IsCall(call[u], commits) /\ commits \in Nat
  BY CallsAre DEF TypeOK
<1>2. CASE Rollback(u)
  BY <1>0, <1>2, TypeOfRollback DEF Rollback
<1>3. CASE /\ Have(u, Current(u)) = {}
           /\ rows' = rows \cup {Inserted(u, Current(u))} /\ AfterWrite(u)
  <2> DEFINE new == Inserted(u, Current(u))
  <2>1. IsRow(new, commits)
    BY <1>1 DEF IsRow, IsCall, Inserted
  <2> HIDE DEF new
  <2>2. IsFiniteSet(rows \cup {new})
    BY <1>1, FS_AddElement
  <2>3. \A r \in rows' : IsRow(r, commits)
    BY <1>1, <1>3, <2>1 DEF new
  <2> QED
    BY <1>0, <1>3, <2>2, <2>3, AfterWriteStep DEF new
<1>4. CASE /\ Have(u, Current(u)) # {}
           /\ \A r \in Have(u, Current(u)) : Accepts(u, r, Current(u))
           /\ AfterWrite(u) /\ rows' = rows
  BY <1>0, <1>1, <1>4, AfterWriteStep
<1> QED
  BY <1>0, <1>2, <1>3, <1>4

LEMMA DeadlockStep ==
    ASSUME TypeOK, NEW u \in Users, Deadlock(u)
    PROVE  /\ TypeOK' /\ OthersStay(u) /\ commits' = commits /\ rows' = rows \ Open(u)
           /\ \/ call'[u] = Idle
              \/ /\ call'[u].pc = "failed" /\ call'[u].req = call[u].req
                 /\ call[u].req.kind = "collect"
<1>0. call[u].pc = "write" /\ commits' = commits /\ call[u].req \in Requests
  BY CallsAre DEF Deadlock, WaitsFor, IsCall
<1>1. CASE Rollback(u)
  BY <1>0, <1>1, TypeOfRollback DEF Rollback
<1>2. CASE ~Rollback(u)
  <2> DEFINE c == [call[u] EXCEPT !.pc = "failed"]
  <2>1. Step(u, "failed") /\ rows' = rows \ Open(u) /\ call[u].req.kind = "collect"
    BY <1>2 DEF Deadlock
  <2>2. /\ call' = [call EXCEPT ![u] = c] /\ IsCall(c, commits)
        /\ c.pc = "failed" /\ c.req = call[u].req
    BY <1>0, <2>1, NextPc
  <2> HIDE DEF c
  <2>3. CallIsAt(c)
    BY <2>1, <2>2 DEF CallIsAt
  <2>4. IsFiniteSet(rows') /\ (\A r \in rows' : IsRow(r, commits))
    BY <2>1, FS_Subset DEF TypeOK
  <2> QED
    BY <1>0, <2>1, <2>2, <2>3, <2>4, TypeOfStep
<1> QED
  BY <1>1, <1>2

\* A row with the number of its commit.
Stamp(r, n) == [r EXCEPT !.commit = n]

LEMMA StampedRow ==
    ASSUME NEW m \in Nat, NEW n \in Nat, m <= n, NEW r, IsRow(r, m)
    PROVE  /\ Stamp(r, n).table = r.table /\ Stamp(r, n).key = r.key
           /\ Stamp(r, n).content = r.content /\ Stamp(r, n).by = r.by
           /\ Stamp(r, n).checked = r.checked /\ Stamp(r, n).commit = n
           /\ IsRow(Stamp(r, n), n)
  BY DEF IsRow, Stamp

LEMMA StampedRows ==
    ASSUME TypeOK, NEW u \in Users, NEW K \in SUBSET Open(u)
    PROVE  LET S == {Stamp(r, commits + 1) : r \in K}
           IN /\ IsFiniteSet((rows \ Open(u)) \cup S) /\ IsFiniteSet(S)
              /\ \A r \in (rows \ Open(u)) \cup S : IsRow(r, commits + 1)
<1> DEFINE S == {Stamp(r, commits + 1) : r \in K}
           f == [r \in K |-> Stamp(r, commits + 1)]
<1>1. /\ commits \in Nat /\ IsFiniteSet(rows) /\ (\A r \in rows : IsRow(r, commits))
      /\ K \subseteq rows
  BY DEF TypeOK, Open
<1>2. f \in Surjection(K, S)
  BY DEF Surjection
<1>3. IsFiniteSet(K) /\ IsFiniteSet(rows \ Open(u))
  BY <1>1, FS_Subset
<1>4. IsFiniteSet(S)
  <2> HIDE DEF f, S
  <2> QED
    BY <1>2, <1>3, FS_Surjection
<1>5. \A r \in rows : IsRow(r, commits + 1) /\ IsRow(Stamp(r, commits + 1), commits + 1)
  <2>1. ASSUME NEW r \in rows PROVE IsRow(r, commits + 1)
    BY <1>1 DEF IsRow
  <2>2. ASSUME NEW r \in rows PROVE IsRow(Stamp(r, commits + 1), commits + 1)
    BY <1>1, StampedRow
  <2> QED
    BY <2>1, <2>2
<1>6. IsFiniteSet((rows \ Open(u)) \cup S)
  <2> HIDE DEF S
  <2> QED
    BY <1>3, <1>4, FS_Union
<1> QED
  BY <1>1, <1>4, <1>5, <1>6

LEMMA CommitStep ==
    ASSUME TypeOK, NEW u \in Users, Commit(u)
    PROVE  /\ TypeOK' /\ OthersStay(u) /\ commits' = commits + 1
           /\ call[u].pc = "answered" /\ call'[u] = Idle
           /\ rows' = (rows \ Open(u)) \cup {Stamp(r, commits + 1) : r \in Open(u)}
<1>1. /\ call[u].pc = "answered" /\ commits' = commits + 1
      /\ call' = [call EXCEPT ![u] = Idle]
      /\ rows' = (rows \ Open(u)) \cup {Stamp(r, commits + 1) : r \in Open(u)}
  BY DEF Commit, Stamp
<1>2. IsCall(Idle, commits + 1) /\ CallIsAt(Idle)
  BY IdleIsCall DEF IsCall, Idle, TypeOK
<1>3. IsFiniteSet(rows') /\ (\A r \in rows' : IsRow(r, commits + 1))
  BY <1>1, StampedRows
<1> QED
  BY <1>1, <1>2, <1>3, TypeOfStep

LEMMA AbortStep ==
    ASSUME TypeOK, NEW u \in Users, Abort(u)
    PROVE  /\ TypeOK' /\ OthersStay(u) /\ commits' = commits
           /\ rows' = rows \ Open(u) /\ call'[u] = Idle
<1>1. Rollback(u) /\ commits' = commits
  BY DEF Abort
<1> QED
  BY <1>1, TypeOfRollback DEF Rollback

LEMMA CollectStep ==
    ASSUME TypeOK, NEW u \in Users, Collect(u)
    PROVE  /\ TypeOK' /\ OthersStay(u) /\ RowsStay
           /\ call[u].pc = "collect" /\ call[u].req.kind = "collect"
           /\ call'[u].req = call[u].req /\ call'[u].i = 1
           /\ call'[u].pc \in {"failed", "record", "write"}
           /\ call'[u].pc = "write" => Payload(call[u].req) # <<>>
<1> DEFINE req == call[u].req
           pc == IF Fails(req) THEN "failed"
                 ELSE IF Payload(req) = <<>> THEN "record" ELSE "write"
           c == [call[u] EXCEPT !.pc = pc]
<1>1. Step(u, pc) /\ call[u].pc = "collect" /\ rows' = rows /\ commits' = commits
  BY DEF Collect
<1>2. req.kind = "collect" /\ req \in Requests /\ call[u].i = 1
  BY <1>1, CallsAre DEF IsCall, CallIsAt
<1>3. /\ pc \in {"failed", "record", "write"}
      /\ pc # "failed" => ~Fails(req)
      /\ pc = "write" => Payload(req) # <<>> /\ ~Fails(req)
  OBVIOUS
<1> HIDE DEF pc
<1>4. /\ call' = [call EXCEPT ![u] = c] /\ IsCall(c, commits)
      /\ c.pc = pc /\ c.req = req /\ c.i = 1 /\ c.prices = call[u].prices
  BY <1>1, <1>2, NextPc
<1> HIDE DEF c
<1>5. pc = "write" => 1 \in DOMAIN Writes(req, c.prices)
  BY <1>2, <1>3, WritesAreList
<1>6. CallIsAt(c)
  BY <1>2, <1>3, <1>4, <1>5 DEF CallIsAt
<1>7. TypeOK' /\ call'[u] = c /\ OthersStay(u)
  BY <1>1, <1>4, <1>6, TypeOfQuietStep
<1> QED
  BY <1>1, <1>2, <1>3, <1>4, <1>7 DEF RowsStay

LEMMA CollectFailsStep ==
    ASSUME TypeOK, NEW u \in Users, CollectFails(u)
    PROVE  /\ TypeOK' /\ OthersStay(u) /\ RowsStay
           /\ call[u].pc \in {"write", "record"} /\ call[u].req.kind = "collect"
           /\ call'[u].req = call[u].req /\ call'[u].pc = "failed"
<1> DEFINE c == [call[u] EXCEPT !.pc = "failed"]
<1>1. /\ Step(u, "failed") /\ call[u].pc \in {"write", "record"}
      /\ call[u].req.kind = "collect" /\ rows' = rows /\ commits' = commits
      /\ call[u].req \in Requests
  BY CallsAre DEF CollectFails, IsCall
<1>2. /\ call' = [call EXCEPT ![u] = c] /\ IsCall(c, commits)
      /\ c.pc = "failed" /\ c.req = call[u].req
  BY <1>1, NextPc
<1> HIDE DEF c
<1>3. CallIsAt(c)
  BY <1>1, <1>2 DEF CallIsAt
<1>4. TypeOK' /\ call'[u] = c /\ OthersStay(u)
  BY <1>1, <1>2, <1>3, TypeOfQuietStep
<1> QED
  BY <1>1, <1>2, <1>4 DEF RowsStay

LEMMA CommitRowsStep ==
    ASSUME TypeOK, NEW u \in Users, NEW K \in SUBSET Open(u), NEW report,
           CommitRows(u, K, report)
    PROVE  /\ TypeOK' /\ OthersStay(u) /\ commits' = commits + 1 /\ call'[u] = Idle
           /\ rows' = (rows \ Open(u)) \cup {Stamp(r, commits + 1) : r \in K}
                        \cup {Reporting(u, report)}
<1>1. /\ commits' = commits + 1 /\ call' = [call EXCEPT ![u] = Idle]
      /\ rows' = (rows \ Open(u)) \cup {Stamp(r, commits + 1) : r \in K}
                        \cup {Reporting(u, report)}
  BY DEF CommitRows, Stamp
<1>2. IsCall(Idle, commits + 1) /\ CallIsAt(Idle)
  BY IdleIsCall DEF IsCall, Idle, TypeOK
<1> DEFINE S == (rows \ Open(u)) \cup {Stamp(r, commits + 1) : r \in K}
<1>3. IsFiniteSet(S) /\ (\A r \in S : IsRow(r, commits + 1))
  BY StampedRows
<1>4. IsRow(Reporting(u, report), commits + 1)
  BY DEF IsRow, Reporting, TypeOK
<1>5. rows' = S \cup {Reporting(u, report)}
  BY <1>1
<1> HIDE DEF S
<1>6. IsFiniteSet(rows')
  BY <1>3, <1>5, FS_AddElement
<1>7. \A r \in rows' : IsRow(r, commits + 1)
  BY <1>3, <1>4, <1>5
<1>8. TypeOK' /\ call'[u] = Idle /\ OthersStay(u)
  BY <1>1, <1>2, <1>6, <1>7, TypeOfStep
<1> QED
  BY <1>1, <1>8

LEMMA RecordResultStep ==
    ASSUME TypeOK, NEW u \in Users, RecordResult(u)
    PROVE  LET report == Report(Len(Payload(call[u].req)), Cardinality(Open(u)))
           IN /\ TypeOK' /\ OthersStay(u) /\ commits' = commits + 1 /\ call'[u] = Idle
              /\ call[u].pc = "record" /\ call[u].req.kind = "collect"
              /\ call[u].req \in Requests /\ ~Fails(call[u].req)
              /\ rows' = (rows \ Open(u)) \cup {Stamp(r, commits + 1) : r \in Open(u)}
                           \cup {Reporting(u, report)}
<1>1. /\ call[u].pc = "record"
      /\ CommitRows(u, Open(u), Report(Len(Payload(call[u].req)), Cardinality(Open(u))))
  BY DEF RecordResult
<1>2. call[u].req.kind = "collect" /\ call[u].req \in Requests /\ ~Fails(call[u].req)
  BY <1>1, CallsAre DEF IsCall, CallIsAt
<1> QED
  BY <1>1, <1>2, CommitRowsStep

LEMMA RecordFailureStep ==
    ASSUME TypeOK, NEW u \in Users, RecordFailure(u)
    PROVE  /\ TypeOK' /\ OthersStay(u) /\ commits' = commits + 1 /\ call'[u] = Idle
           /\ call[u].pc = "failed"
           /\ rows' = (rows \ Open(u)) \cup {Reporting(u, FailureOf(call[u].req))}
<1>1. call[u].pc = "failed" /\ CommitRows(u, {}, FailureOf(call[u].req))
  BY DEF RecordFailure
<1>2. {Stamp(r, commits + 1) : r \in {}} = {}
  OBVIOUS
<1> QED
  BY <1>1, <1>2, CommitRowsStep

LEMMA LoadStep ==
    ASSUME TypeOK, NEW u \in Users, Load(u)
    PROVE  /\ TypeOK' /\ OthersStay(u) /\ RowsStay
           /\ call[u].pc = "load" /\ call[u].req.kind = "load"
           /\ call'[u].req = call[u].req
           /\ \/ call'[u].pc = "answered"
              \/ /\ call'[u].pc = "market"
                 /\ \E r \in Latest(AsOf(u, call[u].req.at)) : call'[u].loaded = {r}
<1> DEFINE found == Latest(AsOf(u, call[u].req.at))
<1>1. /\ call[u].pc = "load" /\ call[u].req.kind = "load" /\ call[u].req \in Requests
      /\ IsCall(call[u], commits)
  BY CallsAre DEF Load, IsCall, CallIsAt
<1>2. rows' = rows /\ commits' = commits
  BY DEF Load
<1>3. CASE Step(u, "answered")
  <2> DEFINE c == [call[u] EXCEPT !.pc = "answered"]
  <2>1. /\ call' = [call EXCEPT ![u] = c] /\ IsCall(c, commits)
        /\ c.pc = "answered" /\ c.req = call[u].req
    BY <1>1, <1>3, NextPc
  <2> HIDE DEF c
  <2>2. CallIsAt(c)
    BY <1>1, <2>1 DEF CallIsAt
  <2>3. TypeOK' /\ call'[u] = c /\ OthersStay(u)
    BY <1>2, <2>1, <2>2, TypeOfQuietStep
  <2> QED
    BY <1>1, <1>2, <2>1, <2>3 DEF RowsStay
<1>4. ASSUME NEW r \in found, call' = [call EXCEPT ![u].loaded = {r}, ![u].pc = "market"]
      PROVE  /\ TypeOK' /\ OthersStay(u) /\ call'[u].req = call[u].req
             /\ call'[u].pc = "market" /\ call'[u].loaded = {r}
  <2> DEFINE c == [call[u] EXCEPT !.loaded = {r}, !.pc = "market"]
  <2>1. call' = [call EXCEPT ![u] = c]
    BY <1>4, CallsAreRecords
  <2>2. c = [pc |-> "market", req |-> call[u].req, i |-> call[u].i,
             prices |-> call[u].prices, checked |-> call[u].checked, loaded |-> {r}]
    <3>1. call[u] \in [pc : {"load"}, req : {call[u].req}, i : {call[u].i},
                       prices : {call[u].prices}, checked : {call[u].checked},
                       loaded : {call[u].loaded}]
      BY <1>1 DEF IsCall
    <3>2. c \in [pc : {"market"}, req : {call[u].req}, i : {call[u].i},
                 prices : {call[u].prices}, checked : {call[u].checked}, loaded : {{r}}]
      BY <3>1
    <3> HIDE DEF c
    <3> QED
      BY <3>2
  <2> HIDE DEF c
  <2>3. IsCall(c, commits) /\ CallIsAt(c)
    BY <1>1, <2>2 DEF IsCall, CallIsAt
  <2>4. TypeOK' /\ call'[u] = c /\ OthersStay(u)
    BY <1>2, <2>1, <2>3, TypeOfQuietStep
  <2> QED
    BY <2>2, <2>4
<1>5. \/ Step(u, "answered")
      \/ \E r \in found : call' = [call EXCEPT ![u].loaded = {r}, ![u].pc = "market"]
  <2> HIDE DEF found
  <2> QED
    BY Zenon DEF Load, found
<1> QED
  BY <1>1, <1>2, <1>3, <1>4, <1>5 DEF RowsStay

\* What the second and the third statement of a load find.
NextPart(u) ==
    LET capability == CHOOSE r \in call[u].loaded : r.table = MarginTables[1]
    IN  Have(u, Row(MarginTables[IF call[u].pc = "market" THEN 2 ELSE 3],
                    capability.key, None))

LEMMA LoadNextStep ==
    ASSUME TypeOK, NEW u \in Users, LoadNext(u)
    PROVE  /\ TypeOK' /\ OthersStay(u) /\ RowsStay
           /\ call[u].pc \in {"market", "terms"} /\ call[u].req.kind = "load"
           /\ call'[u].req = call[u].req
           /\ call'[u].pc = IF call[u].pc = "market" THEN "terms" ELSE "loaded"
           /\ call'[u].loaded = call[u].loaded \cup NextPart(u)
<1> DEFINE pc == IF call[u].pc = "market" THEN "terms" ELSE "loaded"
           loaded == call[u].loaded \cup NextPart(u)
           c == [call[u] EXCEPT !.loaded = loaded, !.pc = pc]
<1>1. /\ call[u].pc \in {"market", "terms"} /\ call[u].req.kind = "load"
      /\ call[u].req \in Requests /\ IsCall(call[u], commits)
  BY CallsAre DEF LoadNext, IsCall, CallIsAt
<1>2. rows' = rows /\ commits' = commits
  BY DEF LoadNext
<1>3. call' = [call EXCEPT ![u].loaded = @ \cup NextPart(u),
                           ![u].pc = IF @ = "market" THEN "terms" ELSE "loaded"]
  BY DEF LoadNext, NextPart
<1>4. call' = [call EXCEPT ![u] = c]
  BY <1>3, CallsAreRecords
<1>5. c = [pc |-> pc, req |-> call[u].req, i |-> call[u].i,
           prices |-> call[u].prices, checked |-> call[u].checked, loaded |-> loaded]
  <2> HIDE DEF pc, loaded
  <2>1. call[u] \in [pc : {call[u].pc}, req : {call[u].req}, i : {call[u].i},
                     prices : {call[u].prices}, checked : {call[u].checked},
                     loaded : {call[u].loaded}]
    BY <1>1 DEF IsCall
  <2>2. c \in [pc : {pc}, req : {call[u].req}, i : {call[u].i},
               prices : {call[u].prices}, checked : {call[u].checked},
               loaded : {loaded}]
    BY <2>1
  <2> HIDE DEF c
  <2> QED
    BY <2>2
<1> HIDE DEF c
<1>6. IsCall(c, commits) /\ CallIsAt(c)
  BY <1>1, <1>5 DEF IsCall, CallIsAt
<1>7. TypeOK' /\ call'[u] = c /\ OthersStay(u)
  BY <1>2, <1>4, <1>6, TypeOfQuietStep
<1> QED
  BY <1>1, <1>2, <1>5, <1>7 DEF RowsStay

LEMMA RestoreStep ==
    ASSUME TypeOK, NEW u \in Users, Restore(u)
    PROVE  /\ TypeOK' /\ OthersStay(u) /\ commits' = commits
           /\ \/ rows' = rows \ Open(u) /\ call'[u] = Idle
              \/ /\ rows' = rows /\ call'[u].pc = "answered"
                 /\ call'[u].req = call[u].req /\ call[u].req.kind = "load"
<1>1. /\ call[u].pc = "loaded" /\ commits' = commits /\ call[u].req.kind = "load"
      /\ call[u].req \in Requests
      /\ Rollback(u) \/ (Step(u, "answered") /\ rows' = rows)
  BY CallsAre DEF Restore, IsCall, CallIsAt
<1>2. CASE Rollback(u)
  BY <1>1, <1>2, TypeOfRollback DEF Rollback
<1>3. CASE Step(u, "answered") /\ rows' = rows
  <2> DEFINE c == [call[u] EXCEPT !.pc = "answered"]
  <2>1. /\ call' = [call EXCEPT ![u] = c] /\ IsCall(c, commits)
        /\ c.pc = "answered" /\ c.req = call[u].req
    BY <1>1, <1>3, NextPc
  <2> HIDE DEF c
  <2>2. CallIsAt(c)
    BY <1>1, <2>1 DEF CallIsAt
  <2>3. TypeOK' /\ call'[u] = c /\ OthersStay(u)
    BY <1>1, <1>3, <2>1, <2>2, TypeOfQuietStep
  <2> QED
    BY <1>1, <1>3, <2>1, <2>3
<1> QED
  BY <1>1, <1>2, <1>3

LEMMA OtherStep ==
    ASSUME TypeOK, UNCHANGED vars \/ SaveVersion \/ NewPrices
    PROVE  TypeOK' /\ rows' = rows /\ commits' = commits /\ call' = call
<1>1. rows' = rows /\ commits' = commits /\ call' = call
  BY DEF vars, SaveVersion, NewPrices
<1> QED
  BY <1>1 DEF TypeOK

-----------------------------------------------------------------------------
(* What the sessions see. *)

\* A session sees what is committed and what it has inserted.
LEMMA VisibleRows ==
    ASSUME TypeOK
    PROVE  /\ \A v \in Users : Visible(v) = Committed \cup Open(v)
           /\ Committed \subseteq rows /\ \A v \in Users : Open(v) \subseteq rows
           /\ \A r \in rows : r.commit \in Nat /\ (r \in Committed <=> r.commit # 0)
           /\ \A v, w \in Users : v # w => Open(v) \cap Open(w) = {}
           /\ \A v \in Users : Open(v) \cap Committed = {}
<1>1. \A r \in rows : r.commit \in Nat
  BY DEF TypeOK, IsRow
<1> QED
  BY <1>1 DEF Visible, Committed, Open

LEMMA ViewsAfter ==
    ASSUME TypeOK'
    PROVE  \A v \in Users : Visible(v)' = Committed' \cup Open(v)'
<1>1. \A r \in rows' : r.commit \in Nat
  BY DEF TypeOK, IsRow
<1> QED
  BY <1>1 DEF Visible, Committed, Open

\* The rows of the transaction are taken back.
RowsBack(u) == rows' = rows \ Open(u) /\ commits' = commits

LEMMA AfterRowsBack ==
    ASSUME TypeOK, TypeOK', NEW u \in Users, RowsBack(u)
    PROVE  /\ Open(u)' = {} /\ Committed' = Committed
           /\ \A v \in Users : v # u => Open(v)' = Open(v)
  BY VisibleRows DEF RowsBack, Open, Committed

\* One row is inserted.
RowInserted(u, w) ==
    /\ rows' = rows \cup {Inserted(u, w)} /\ commits' = commits
    /\ \A r \in rows : ~(r.table = w.table /\ r.key = w.key)

LEMMA AfterRowInserted ==
    ASSUME TypeOK, TypeOK', NEW u \in Users, NEW w, RowInserted(u, w)
    PROVE  /\ Open(u)' = Open(u) \cup {Inserted(u, w)} /\ Committed' = Committed
           /\ \A v \in Users : v # u => Open(v)' = Open(v)
           /\ Inserted(u, w).table = w.table /\ Inserted(u, w).key = w.key
           /\ Inserted(u, w).content = w.content
           /\ Inserted(u, w).checked = call[u].checked
           /\ Inserted(u, w).commit = 0 /\ Inserted(u, w).by = u
  BY VisibleRows DEF RowInserted, Open, Committed, Inserted

\* Rows of the transaction are committed, with others that are new.
RowsCommitted(u, K, J) ==
    /\ K \subseteq Open(u)
    /\ \A j \in J : j.table = "job_runs" /\ j.key = commits + 1 /\ j.commit = commits + 1
    /\ \A i, j \in J : i = j
    /\ rows' = (rows \ Open(u)) \cup {Stamp(r, commits + 1) : r \in K} \cup J
    /\ commits' = commits + 1

LEMMA AfterRowsCommitted ==
    ASSUME TypeOK, TypeOK', NEW u \in Users, NEW K, NEW J, RowsCommitted(u, K, J)
    PROVE  /\ Open(u)' = {}
           /\ Committed' = Committed \cup {Stamp(r, commits + 1) : r \in K} \cup J
           /\ \A v \in Users : v # u => Open(v)' = Open(v)
           /\ \A r \in K : /\ Stamp(r, commits + 1).table = r.table
                            /\ Stamp(r, commits + 1).key = r.key
                            /\ Stamp(r, commits + 1).content = r.content
                            /\ Stamp(r, commits + 1).checked = r.checked
                            /\ Stamp(r, commits + 1).commit = commits + 1
<1>1. \A r \in K : /\ Stamp(r, commits + 1).table = r.table
                   /\ Stamp(r, commits + 1).key = r.key
                   /\ Stamp(r, commits + 1).content = r.content
                   /\ Stamp(r, commits + 1).checked = r.checked
                   /\ Stamp(r, commits + 1).commit = commits + 1
  BY StampedRow DEF TypeOK, Open, RowsCommitted
<1>2. commits + 1 > 0
  BY DEF TypeOK
<1> DEFINE S == {Stamp(r, commits + 1) : r \in K}
<1>3. \A s \in S : s.commit = commits + 1
  BY <1>1
<1>4. rows' = (rows \ Open(u)) \cup S \cup J /\ \A j \in J : j.commit = commits + 1
  BY DEF RowsCommitted
<1> HIDE DEF S
<1>5. Committed' = Committed \cup S \cup J
  BY <1>2, <1>3, <1>4, VisibleRows DEF Committed
<1>6. ASSUME NEW v \in Users PROVE Open(v)' = {r \in rows \ Open(u) : r.commit = 0 /\ r.by = v}
  BY <1>2, <1>3, <1>4, VisibleRows DEF Open
<1>7. Open(u)' = {}
  BY <1>6 DEF Open
<1>8. ASSUME NEW v \in Users, v # u PROVE Open(v)' = Open(v)
  BY <1>6, <1>8, VisibleRows DEF Open
<1> QED
  BY <1>1, <1>5, <1>7, <1>8 DEF S

-----------------------------------------------------------------------------
(* One row of a key, and whose the open ones are. *)

RowsInv == KeysAreUnique /\ OpenRowsBelong /\ OpenHasOwner

LEMMA KeysAfterRowsCommitted ==
    ASSUME TypeOK, TypeOK', KeysAreUnique,
           NEW u \in Users, NEW K, NEW J, RowsCommitted(u, K, J)
    PROVE  KeysAreUnique'
<1> DEFINE S == {Stamp(r, commits + 1) : r \in K}
<1>1. \A s \in S : \E r \in rows :
        /\ s = Stamp(r, commits + 1) /\ s.table = r.table /\ s.key = r.key
        /\ s.commit = commits + 1 /\ r \in Open(u)
  <2>1. ASSUME NEW r \in K
        PROVE  /\ Stamp(r, commits + 1).table = r.table
               /\ Stamp(r, commits + 1).key = r.key
               /\ Stamp(r, commits + 1).commit = commits + 1
               /\ r \in Open(u) /\ r \in rows
    BY AfterRowsCommitted, VisibleRows DEF RowsCommitted
  <2> QED
    BY <2>1
<1>2. /\ rows' = (rows \ Open(u)) \cup S \cup J
      /\ \A j \in J : j.table = "job_runs" /\ j.key = commits + 1 /\ j.commit = commits + 1
      /\ \A i, j \in J : i = j
  BY DEF RowsCommitted
<1> HIDE DEF S
<1>3. \A s \in S : s.table # "job_runs"
  BY <1>1, VisibleRows DEF KeysAreUnique
<1>4. \A r \in rows : r.table = "job_runs" => r.key \in 1..commits /\ r.key # commits + 1
  BY DEF KeysAreUnique, TypeOK, IsRow
<1>5. ASSUME NEW r \in rows', NEW s \in rows', r.table = s.table, r.key = s.key
      PROVE  r = s
  <2>1. CASE r \in J \/ s \in J
    BY <1>2, <1>3, <1>4, <1>5, <2>1
  <2>2. CASE r \in S \/ s \in S
    BY <1>1, <1>2, <1>3, <1>5, <2>2 DEF KeysAreUnique
  <2>3. CASE r \in rows \ Open(u) /\ s \in rows \ Open(u)
    BY <1>5, <2>3 DEF KeysAreUnique
  <2> QED
    BY <1>2, <2>1, <2>2, <2>3
<1>6. \A r \in rows' : r.table = "job_runs" => r.commit > 0 /\ r.key = r.commit
  <2>1. commits + 1 > 0
    BY DEF TypeOK
  <2> QED
    BY <1>2, <1>3, <2>1 DEF KeysAreUnique
<1> QED
  BY <1>5, <1>6 DEF KeysAreUnique

LEMMA RowIsNew ==
    ASSUME TypeOK, OpenHasOwner, NEW u \in Users, NEW w, w = Current(u),
           call[u].pc = "write", Have(u, w) = {}, \A v \in Users : ~WaitsFor(u, v)
    PROVE  \A r \in rows : ~(r.table = w.table /\ r.key = w.key)
<1> SUFFICES ASSUME NEW r \in rows, r.table = w.table, r.key = w.key PROVE FALSE
  OBVIOUS
<1>1. r \notin Visible(u)
  BY DEF Have
<1>2. r.commit = 0 /\ r.by # u /\ r.by \in Users
  BY <1>1, VisibleRows DEF Visible, OpenHasOwner
<1>3. r \in Open(r.by)
  BY <1>2 DEF Open
<1>4. WaitsFor(u, r.by)
  BY <1>2, <1>3 DEF WaitsFor
<1> QED
  BY <1>2, <1>4

\* The insert under way and what it is for.
LEMMA CurrentWrite ==
    ASSUME TypeOK, NEW u \in Users, call[u].pc = "write"
    PROVE  /\ call[u].req \in Requests /\ call[u].req.kind # "load"
           /\ call[u].req.kind = "collect" => ~Fails(call[u].req)
           /\ call[u].i \in DOMAIN WritesOf(u) /\ Current(u) = WritesOf(u)[call[u].i]
           /\ DOMAIN WritesOf(u) = 1..Len(WritesOf(u)) /\ Len(WritesOf(u)) \in Nat
<1>1. /\ call[u].req \in Requests /\ call[u].req.kind # "load"
      /\ call[u].i \in DOMAIN Writes(call[u].req, call[u].prices)
      /\ call[u].req.kind = "collect" => ~Fails(call[u].req)
  BY CallsAre DEF IsCall, CallIsAt
<1> QED
  BY <1>1, WritesAreList DEF WritesOf, Current

LEMMA RowsBackKeeps ==
    ASSUME TypeOK, TypeOK', RowsInv, NEW u \in Users, RowsBack(u), OthersStay(u)
    PROVE  RowsInv'
<1>1. rows' \subseteq rows
  BY DEF RowsBack
<1>2. KeysAreUnique' /\ OpenHasOwner'
  BY <1>1 DEF RowsInv, KeysAreUnique, OpenHasOwner
<1>3. ASSUME NEW v \in Users, NEW r \in Open(v)'
      PROVE  v # u /\ r \in Open(v) /\ call'[v] = call[v]
  BY AfterRowsBack DEF OthersStay
<1>4. OpenRowsBelong'
  BY <1>3 DEF RowsInv, OpenRowsBelong
<1> QED
  BY <1>2, <1>4 DEF RowsInv

LEMMA RowsCommittedKeeps ==
    ASSUME TypeOK, TypeOK', RowsInv, NEW u \in Users, NEW K, NEW J,
           RowsCommitted(u, K, J), OthersStay(u)
    PROVE  RowsInv'
<1>1. KeysAreUnique'
  BY KeysAfterRowsCommitted DEF RowsInv
<1>2. ASSUME NEW v \in Users, NEW r \in Open(v)'
      PROVE  v # u /\ r \in Open(v) /\ call'[v] = call[v]
  BY AfterRowsCommitted DEF OthersStay
<1>3. OpenRowsBelong'
  BY <1>2 DEF RowsInv, OpenRowsBelong
<1>4. ASSUME NEW r \in rows', r.commit = 0 PROVE r.by \in Users
  <2> DEFINE S == {Stamp(x, commits + 1) : x \in K}
  <2>1. r \notin Committed'
    BY <1>4 DEF Committed
  <2>2. Committed' = Committed \cup S \cup J /\ rows' = (rows \ Open(u)) \cup S \cup J
    BY AfterRowsCommitted DEF RowsCommitted
  <2> HIDE DEF S
  <2>3. r \in rows
    BY <2>1, <2>2
  <2> QED
    BY <1>4, <2>3 DEF RowsInv, OpenHasOwner
<1> QED
  BY <1>1, <1>3, <1>4 DEF RowsInv, OpenHasOwner

\* Rows stay, and the call goes on with the same request.
LEMMA RowsStayKeeps ==
    ASSUME TypeOK, TypeOK', RowsInv, NEW u \in Users, RowsStay, OthersStay(u),
           \A r \in Open(u) :
              /\ call'[u].pc # "idle"
              /\ IF call'[u].req.kind = "collect"
                 THEN /\ r.table \in SnapshotTables
                      /\ call'[u].pc # "collect" /\ Payload(call'[u].req) # <<>>
                 ELSE r.table \notin SnapshotTables
    PROVE  RowsInv'
<1>1. KeysAreUnique' /\ OpenHasOwner'
  BY DEF RowsInv, KeysAreUnique, OpenHasOwner, RowsStay
<1>2. \A v \in Users : Open(v)' = Open(v)
  BY DEF Open, RowsStay
<1>3. OpenRowsBelong'
  BY <1>2 DEF RowsInv, OpenRowsBelong, OthersStay
<1> QED
  BY <1>1, <1>3 DEF RowsInv

LEMMA RowInsertedKeeps ==
    ASSUME TypeOK, TypeOK', RowsInv, NEW u \in Users, call[u].pc = "write",
           RowInserted(u, Current(u)), Proceeds(u), OthersStay(u)
    PROVE  RowsInv'
<1> DEFINE w == Current(u)
           new == Inserted(u, w)
           W == Writes(call[u].req, call[u].prices)
<1>1. /\ call[u].req \in Requests /\ call[u].req.kind # "load"
      /\ call[u].req.kind = "collect" => ~Fails(call[u].req)
      /\ call[u].i \in DOMAIN W /\ w = W[call[u].i]
  BY CurrentWrite DEF WritesOf
<1>2. /\ IF call[u].req.kind = "collect" THEN w.table \in SnapshotTables
         ELSE w.table \notin SnapshotTables
      /\ w.table # "job_runs"
  <2>1. ASSUME NEW req \in Requests, NEW p, NEW k \in DOMAIN Writes(req, p),
               req.kind # "load", req.kind = "collect" => ~Fails(req)
        PROVE  /\ IF req.kind = "collect" THEN Writes(req, p)[k].table \in SnapshotTables
                  ELSE Writes(req, p)[k].table \notin SnapshotTables
               /\ Writes(req, p)[k].table # "job_runs"
    BY <2>1, TableOfWrite
  <2> HIDE DEF w
  <2> QED
    BY <1>1, <2>1
<1>3. call[u].req.kind = "collect" => Payload(call[u].req) # <<>>
  BY <1>1, WritesAreList
<1>4. /\ Open(u)' = Open(u) \cup {new} /\ \A v \in Users : v # u => Open(v)' = Open(v)
      /\ new.table = w.table /\ new.key = w.key /\ new.commit = 0 /\ new.by = u
      /\ rows' = rows \cup {new} /\ \A r \in rows : ~(r.table = w.table /\ r.key = w.key)
  BY AfterRowInserted DEF RowInserted
<1> HIDE DEF w, new, W
<1>5. KeysAreUnique' /\ OpenHasOwner'
  BY <1>2, <1>4 DEF RowsInv, KeysAreUnique, OpenHasOwner
<1>6. call'[u].req = call[u].req /\ call'[u].pc \in {"write", "record", "answered"}
      /\ (call[u].req.kind = "collect" => call'[u].pc # "answered")
  BY DEF Proceeds
<1>7. ASSUME NEW v \in Users, NEW r \in Open(v)'
      PROVE  /\ call'[v].pc # "idle"
             /\ IF call'[v].req.kind = "collect"
                THEN /\ r.table \in SnapshotTables
                     /\ call'[v].pc # "collect" /\ Payload(call'[v].req) # <<>>
                ELSE r.table \notin SnapshotTables
  <2>1. CASE v # u
    BY <1>4, <1>7, <2>1 DEF RowsInv, OpenRowsBelong, OthersStay
  <2>2. CASE v = u /\ r = new
    BY <1>2, <1>3, <1>4, <1>6, <2>2
  <2>3. CASE v = u /\ r \in Open(u)
    BY <1>6, <2>3 DEF RowsInv, OpenRowsBelong
  <2> QED
    BY <1>4, <1>7, <2>1, <2>2, <2>3
<1>8. OpenRowsBelong'
  BY <1>7 DEF OpenRowsBelong
<1> QED
  BY <1>5, <1>8 DEF RowsInv

\* The rows of a run that is reported are committed with the report.
LEMMA ReportIsOne ==
    ASSUME NEW u \in Users, NEW K \in SUBSET Open(u), NEW report, commits' = commits + 1,
           rows' = (rows \ Open(u)) \cup {Stamp(r, commits + 1) : r \in K}
                        \cup {Reporting(u, report)}
    PROVE  RowsCommitted(u, K, {Reporting(u, report)})
  BY DEF RowsCommitted, Reporting

LEMMA RowsInvStep ==
    ASSUME TypeOK, RowsInv, [Next]_vars
    PROVE  TypeOK' /\ RowsInv'
<1>1. ASSUME NEW u \in Users, NEW req \in Requests, Call(u, req) PROVE TypeOK' /\ RowsInv'
  <2>1. /\ TypeOK' /\ OthersStay(u) /\ RowsStay
        /\ call[u].pc = "idle" \/ (call[u].pc = "answered" /\ req.kind # "collect")
        /\ call'[u].req = req /\ call'[u].pc # "idle"
    BY <1>1, CallStep
  <2>2. call[u].pc = "answered" => call[u].req.kind # "collect"
    BY CallsAre DEF CallIsAt
  <2> QED
    BY <2>1, <2>2, RowsStayKeeps DEF RowsInv, OpenRowsBelong
<1>2. ASSUME NEW u \in Users, Look(u) PROVE TypeOK' /\ RowsInv'
  <2>1. /\ TypeOK' /\ OthersStay(u) /\ commits' = commits
        /\ \/ rows' = rows \ Open(u)
           \/ /\ rows' = rows /\ call'[u].req = call[u].req
              /\ call'[u].pc \in {"answered", "reuse", "write"}
    BY <1>2, LookStep
  <2> QED
    BY <2>1, RowsStayKeeps, RowsBackKeeps DEF RowsInv, OpenRowsBelong, RowsBack, RowsStay
<1>3. ASSUME NEW u \in Users, Reuse(u) PROVE TypeOK' /\ RowsInv'
  <2>1. /\ TypeOK' /\ OthersStay(u) /\ commits' = commits
        /\ \/ rows' = rows \ Open(u)
           \/ /\ rows' = rows /\ call'[u].req = call[u].req /\ call'[u].pc = "write"
    BY <1>3, ReuseStep
  <2> QED
    BY <2>1, RowsStayKeeps, RowsBackKeeps DEF RowsInv, OpenRowsBelong, RowsBack, RowsStay
<1>4. ASSUME NEW u \in Users, Write(u) PROVE TypeOK' /\ RowsInv'
  <2>1. /\ TypeOK' /\ OthersStay(u) /\ commits' = commits
        /\ call[u].pc = "write" /\ \A v \in Users : ~WaitsFor(u, v)
        /\ \/ rows' = rows \ Open(u)
           \/ /\ Have(u, Current(u)) = {}
              /\ rows' = rows \cup {Inserted(u, Current(u))} /\ Proceeds(u)
           \/ rows' = rows /\ Proceeds(u)
    BY <1>4, WriteStep
  <2>2. CASE rows' = rows \ Open(u)
    BY <2>1, <2>2, RowsBackKeeps DEF RowsBack
  <2>3. CASE /\ Have(u, Current(u)) = {}
             /\ rows' = rows \cup {Inserted(u, Current(u))} /\ Proceeds(u)
    <3>1. RowInserted(u, Current(u))
      BY <2>1, <2>3, RowIsNew DEF RowInserted, RowsInv
    <3> QED
      BY <2>1, <2>3, <3>1, RowInsertedKeeps
  <2>4. CASE rows' = rows /\ Proceeds(u)
    <3>1. call'[u].req = call[u].req /\ call'[u].pc \in {"write", "record", "answered"}
      BY <2>4 DEF Proceeds
    <3> QED
      BY <2>1, <2>4, <3>1, RowsStayKeeps DEF RowsInv, OpenRowsBelong, RowsStay
  <2> QED
    BY <2>1, <2>2, <2>3, <2>4
<1>5. ASSUME NEW u \in Users, Deadlock(u) PROVE TypeOK' /\ RowsInv'
  BY <1>5, DeadlockStep, RowsBackKeeps DEF RowsBack
<1>6. ASSUME NEW u \in Users, Commit(u) PROVE TypeOK' /\ RowsInv'
  <2>1. RowsCommitted(u, Open(u), {})
    BY <1>6, CommitStep DEF RowsCommitted
  <2> QED
    BY <1>6, <2>1, CommitStep, RowsCommittedKeeps
<1>7. ASSUME NEW u \in Users, Abort(u) PROVE TypeOK' /\ RowsInv'
  BY <1>7, AbortStep, RowsBackKeeps DEF RowsBack
<1>8. ASSUME NEW u \in Users, Load(u) PROVE TypeOK' /\ RowsInv'
  <2>1. /\ TypeOK' /\ OthersStay(u) /\ RowsStay /\ call[u].req.kind = "load"
        /\ call'[u].req = call[u].req /\ call'[u].pc \in {"answered", "market"}
    BY <1>8, LoadStep
  <2> QED
    BY <2>1, RowsStayKeeps DEF RowsInv, OpenRowsBelong
<1>9. ASSUME NEW u \in Users, LoadNext(u) PROVE TypeOK' /\ RowsInv'
  <2>1. /\ TypeOK' /\ OthersStay(u) /\ RowsStay /\ call[u].req.kind = "load"
        /\ call'[u].req = call[u].req /\ call'[u].pc \in {"terms", "loaded"}
    BY <1>9, LoadNextStep
  <2> QED
    BY <2>1, RowsStayKeeps DEF RowsInv, OpenRowsBelong
<1>10. ASSUME NEW u \in Users, Restore(u) PROVE TypeOK' /\ RowsInv'
  <2>1. /\ TypeOK' /\ OthersStay(u) /\ commits' = commits
        /\ \/ rows' = rows \ Open(u)
           \/ rows' = rows /\ call'[u].req = call[u].req /\ call'[u].pc = "answered"
    BY <1>10, RestoreStep
  <2> QED
    BY <2>1, RowsStayKeeps, RowsBackKeeps DEF RowsInv, OpenRowsBelong, RowsBack, RowsStay
<1>11. ASSUME NEW u \in Users, Collect(u) PROVE TypeOK' /\ RowsInv'
  <2>1. /\ TypeOK' /\ OthersStay(u) /\ RowsStay
        /\ call[u].pc = "collect" /\ call[u].req.kind = "collect"
    BY <1>11, CollectStep
  <2>2. Open(u) = {}
    BY <2>1 DEF RowsInv, OpenRowsBelong
  <2> QED
    BY <2>1, <2>2, RowsStayKeeps
<1>12. ASSUME NEW u \in Users, CollectFails(u) PROVE TypeOK' /\ RowsInv'
  <2>1. /\ TypeOK' /\ OthersStay(u) /\ RowsStay
        /\ call'[u].req = call[u].req /\ call'[u].pc = "failed"
    BY <1>12, CollectFailsStep
  <2> QED
    BY <2>1, RowsStayKeeps DEF RowsInv, OpenRowsBelong
<1>13. ASSUME NEW u \in Users, RecordResult(u) PROVE TypeOK' /\ RowsInv'
  <2>1. PICK report : /\ TypeOK' /\ OthersStay(u) /\ commits' = commits + 1
                      /\ rows' = (rows \ Open(u))
                                   \cup {Stamp(r, commits + 1) : r \in Open(u)}
                                   \cup {Reporting(u, report)}
    BY <1>13, RecordResultStep
  <2>2. RowsCommitted(u, Open(u), {Reporting(u, report)})
    BY <2>1, ReportIsOne
  <2> QED
    BY <2>1, <2>2, RowsCommittedKeeps
<1>14. ASSUME NEW u \in Users, RecordFailure(u) PROVE TypeOK' /\ RowsInv'
  <2>1. /\ TypeOK' /\ OthersStay(u) /\ commits' = commits + 1
        /\ rows' = (rows \ Open(u)) \cup {Reporting(u, FailureOf(call[u].req))}
    BY <1>14, RecordFailureStep
  <2>2. RowsCommitted(u, {}, {Reporting(u, FailureOf(call[u].req))})
    BY <2>1 DEF RowsCommitted, Reporting
  <2> QED
    BY <2>1, <2>2, RowsCommittedKeeps
<1>15. CASE UNCHANGED vars \/ SaveVersion \/ NewPrices
  <2>1. TypeOK' /\ rows' = rows /\ commits' = commits /\ call' = call
    BY <1>15, OtherStep
  <2> QED
    BY <2>1 DEF RowsInv, KeysAreUnique, OpenRowsBelong, OpenHasOwner, Open
<1> QED
  BY <1>1, <1>2, <1>3, <1>4, <1>5, <1>6, <1>7, <1>8, <1>9, <1>10, <1>11, <1>12,
     <1>13, <1>14, <1>15 DEF Next

-----------------------------------------------------------------------------
(* What belongs together is saved together. *)

\* What the others do takes nothing away from the view of a session.
LEMMA OthersAreWhole ==
    ASSUME TypeOK, TypeOK', NEW v \in Users, SessionIsWhole(v),
           call'[v] = call[v], Open(v)' = Open(v), Committed \subseteq Committed'
    PROVE  SessionIsWhole(v)'
<1>1. Visible(v) \subseteq Visible(v)'
  <2>1. Visible(v) = Committed \cup Open(v)
    BY VisibleRows
  <2>2. Visible(v)' = Committed' \cup Open(v)'
    BY ViewsAfter
  <2> QED
    BY <2>1, <2>2
<1>2. WritesOf(v)' = WritesOf(v)
  BY DEF WritesOf
<1>3. ASSUME NEW t, NEW k, NEW c, Holds(Visible(v), t, k, c)
      PROVE  Holds(Visible(v)', t, k, c)
  BY <1>1, <1>3 DEF Holds
<1>4. ASSUME NEW n, Inserts(v, n) PROVE Inserts(v, n)'
  BY <1>2, <1>3, <1>4 DEF Inserts
<1>5. InsertsSoFar(v)' /\ Answered(v)'
  BY <1>2, <1>4 DEF SessionIsWhole, InsertsSoFar, Answered
<1>6. OpenRowsAreWhole(v)'
  BY <1>2, <1>3 DEF SessionIsWhole, OpenRowsAreWhole, WholeIn, IsInsert
<1>7. LoadsInOrder(v)'
  <2>1. ASSUME NEW n, NEW s, NEW r, Part(v, n, s, r) PROVE Part(v, n, s, r)'
    BY <1>1, <2>1 DEF Part
  <2> QED
    BY <2>1 DEF SessionIsWhole, LoadsInOrder
<1> QED
  BY <1>5, <1>6, <1>7 DEF SessionIsWhole

\* A session without open rows and without a call that goes on.
LEMMA QuietIsWhole ==
    ASSUME NEW u \in Users, Open(u)' = {}, call'[u].pc \in {"idle", "failed"}
    PROVE  SessionIsWhole(u)'
  BY DEF SessionIsWhole, InsertsSoFar, OpenRowsAreWhole, LoadsInOrder, Answered

\* Before its inserts all that a session has open is whole, and stays so.
LEMMA OpenStaysWhole ==
    ASSUME NEW u \in Users, SessionIsWhole(u), rows' = rows,
           call[u].pc # "write" \/ call[u].req.kind = "collect"
    PROVE  OpenRowsAreWhole(u)'
<1>1. Open(u)' = Open(u) /\ Visible(u)' = Visible(u)
  BY DEF Open, Visible
<1> QED
  BY <1>1 DEF SessionIsWhole, OpenRowsAreWhole, WholeIn, Holds

LEMMA BeginningIsWhole ==
    ASSUME NEW u \in Users, SessionIsWhole(u), rows' = rows,
           call[u].pc # "write" \/ call[u].req.kind = "collect",
           call'[u].pc \notin {"answered", "market", "terms", "loaded"},
           call'[u].pc = "write" => call'[u].i = 1 \/ call'[u].req.kind = "collect"
    PROVE  SessionIsWhole(u)'
<1>1. InsertsSoFar(u)'
  BY DEF InsertsSoFar, Inserts
<1> QED
  BY <1>1, OpenStaysWhole DEF SessionIsWhole, LoadsInOrder, Answered

\* A row that a session sees before its inserts is whole.
LEMMA SeenIsWhole ==
    ASSUME TypeOK, CommittedRowsAreWhole, NEW u \in Users, SessionIsWhole(u),
           call[u].pc # "write" \/ call[u].req.kind = "collect", NEW r \in Visible(u)
    PROVE  WholeIn(Visible(u), r)
<1>1. CASE r \in Committed
  BY <1>1, VisibleRows DEF CommittedRowsAreWhole, WholeIn, Holds
<1>2. CASE r \in Open(u)
  BY <1>2 DEF SessionIsWhole, OpenRowsAreWhole
<1> QED
  BY <1>1, <1>2, VisibleRows

LEMMA LookIsWhole ==
    ASSUME TypeOK, WholeInv, NEW u \in Users, Look(u), rows' = rows,
           call'[u].req = call[u].req, call'[u].prices = call[u].prices,
           Have(u, First(u)) # {},
           \A r \in Have(u, First(u)) : r.content = First(u).content
    PROVE  Inserts(u, Len(WritesOf(u)))'
<1> DEFINE W == Writes(call[u].req, call[u].prices)
<1>1. call[u].pc = "look" /\ call[u].req \in Requests /\ call[u].req.kind \in Looking
  <2>1. call[u].pc = "look"
    BY DEF Look
  <2> QED
    BY <2>1, CallsAre DEF IsCall, CallIsAt
<1>2. WritesOf(u)' = W /\ WritesOf(u) = W /\ Visible(u)' = Visible(u) /\ First(u) = W[1]
  BY DEF WritesOf, Visible, First
<1>3. PICK r \in Visible(u) : /\ r.table = W[1].table /\ r.key = W[1].key
                              /\ r.content = W[1].content
  BY <1>2 DEF Have
<1>4. WholeIn(Visible(u), r)
  BY <1>1, SeenIsWhole DEF WholeInv
<1>5. DOMAIN W = 1..Len(W)
  BY <1>1, WritesAreList DEF Looking
<1>6. ASSUME NEW k \in DOMAIN W, k # 1
      PROVE  /\ W[k].table \in Siblings(W[1].table)
             /\ W[k].key = W[1].key /\ W[k].content = W[1].content
  BY <1>1, <1>6, WritesAreWhole DEF Looking
<1> HIDE DEF W
<1>7. ASSUME NEW k \in 1..Len(W)
      PROVE  Holds(Visible(u), W[k].table, W[k].key, W[k].content)
  <2>1. CASE k = 1
    BY <1>3, <2>1 DEF Holds
  <2>2. CASE k # 1
    BY <1>3, <1>4, <1>5, <1>6, <2>2 DEF WholeIn
  <2> QED
    BY <2>1, <2>2
<1> QED
  BY <1>2, <1>7 DEF Inserts

\* Snapshots go with no other row.
LEMMA SnapshotsAreAlone ==
    ASSUME NEW S, NEW r, r.table \in SnapshotTables \cup {"job_runs"}
    PROVE  WholeIn(S, r)
<1>1. Range(MarginTables) = {"asset_trading_capabilities", "margin_market_snapshots",
                             "financing_term_snapshots"}
  BY DEF MarginTables, Range
<1>2. Siblings(r.table) = {}
  BY <1>1 DEF Siblings, SnapshotTables
<1> QED
  BY <1>2 DEF WholeIn

\* An insert makes the call's rows whole with its last one.
LEMMA WriteIsWhole ==
    ASSUME TypeOK, TypeOK', RowsInv, RowsInv', NEW u \in Users, SessionIsWhole(u),
           call[u].pc = "write", Proceeds(u), Visible(u) \subseteq Visible(u)',
           NEW w, w = Current(u), call[u].req.kind # "collect" =>
              /\ Holds(Visible(u)', w.table, w.key, w.content)
              /\ \A r \in Open(u)' \ Open(u) :
                    r.table = w.table /\ r.key = w.key /\ r.content = w.content
    PROVE  SessionIsWhole(u)'
<1>i. PICK i : i = call[u].i
  OBVIOUS
<1>W. PICK W : W = Writes(call[u].req, call[u].prices)
  OBVIOUS
<1>1. /\ call[u].req \in Requests /\ call[u].req.kind # "load"
      /\ i \in DOMAIN W /\ w = W[i] /\ i \in Nat \ {0}
      /\ DOMAIN W = 1..Len(W) /\ Len(W) \in Nat
  BY <1>i, <1>W, CurrentWrite, CallsAre DEF WritesOf, IsCall
<1>2. /\ call'[u].req = call[u].req /\ WritesOf(u) = W /\ WritesOf(u)' = W
      /\ \/ call'[u].pc = "write" /\ call'[u].i = i + 1
         \/ i = Len(W) /\ call'[u].pc = IF call[u].req.kind = "collect" THEN "record"
                                         ELSE "answered"
  BY <1>i, <1>W DEF Proceeds, WritesOf
<1>3. LoadsInOrder(u)'
  BY <1>2 DEF LoadsInOrder
<1>4. ASSUME NEW t, NEW k, NEW c, Holds(Visible(u), t, k, c)
      PROVE  Holds(Visible(u)', t, k, c)
  BY <1>4 DEF Holds
<1>5. CASE call[u].req.kind = "collect"
  <2>1. InsertsSoFar(u)' /\ Answered(u)'
    BY <1>2, <1>5 DEF InsertsSoFar, Answered
  <2>2. \A r \in Open(u)' : r.table \in SnapshotTables
    BY <1>2, <1>5 DEF RowsInv, OpenRowsBelong
  <2>3. OpenRowsAreWhole(u)'
    BY <2>2, SnapshotsAreAlone DEF OpenRowsAreWhole
  <2> QED
    BY <1>3, <2>1, <2>3 DEF SessionIsWhole
<1>6. CASE call[u].req.kind # "collect"
  <2>2. ASSUME NEW k \in 1..i
        PROVE  Holds(Visible(u)', W[k].table, W[k].key, W[k].content)
    <3>1. CASE k = i
      BY <1>1, <1>6, <3>1
    <3>2. CASE k # i
      <4>1. k \in 1..(i - 1)
        BY <1>1, <3>2
      <4>2. Inserts(u, i - 1)
        BY <1>i, <1>6 DEF SessionIsWhole, InsertsSoFar
      <4> QED
        BY <1>2, <1>4, <4>1, <4>2 DEF Inserts
    <3> QED
      BY <3>1, <3>2
  <2>3. Inserts(u, i)'
    BY <1>2, <2>2 DEF Inserts
  <2>4. InsertsSoFar(u)' /\ Answered(u)'
    BY <1>1, <1>2, <1>6, <2>3 DEF InsertsSoFar, Answered
  <2>5. ASSUME NEW r \in Open(u)'
        PROVE  \/ WholeIn(Visible(u)', r)
               \/ \E k \in 1..i : r.table = W[k].table /\ r.key = W[k].key
                                  /\ r.content = W[k].content
    <3>1. CASE r \in Open(u)
      <4>1. WholeIn(Visible(u), r) \/ IsInsert(u, r, i - 1)
        BY <1>i, <3>1 DEF SessionIsWhole, OpenRowsAreWhole
      <4>2. CASE WholeIn(Visible(u), r)
        BY <1>4, <4>2 DEF WholeIn
      <4>3. CASE IsInsert(u, r, i - 1)
        <5>1. 1..(i - 1) \subseteq 1..i
          BY <1>1
        <5> QED
          BY <1>2, <4>3, <5>1 DEF IsInsert
      <4> QED
        BY <4>1, <4>2, <4>3
    <3>2. CASE r \notin Open(u)
      BY <1>1, <1>6, <3>2
    <3> QED
      BY <3>1, <3>2
  <2>6. CASE call'[u].pc = "write"
    <3>1. call'[u].i - 1 = i
      BY <1>1, <1>2, <1>6, <2>6
    <3>2. OpenRowsAreWhole(u)'
      BY <1>2, <1>6, <2>5, <2>6, <3>1 DEF OpenRowsAreWhole, IsInsert
    <3> QED
      BY <1>3, <2>4, <3>2 DEF SessionIsWhole
  <2>7. CASE i = Len(W)
    <3>1. ASSUME NEW k \in DOMAIN W, NEW t \in Siblings(W[k].table)
          PROVE  \E j \in DOMAIN W :
                    W[j].table = t /\ W[j].key = W[k].key /\ W[j].content = W[k].content
      <4>1. PICK req \in Requests : req = call[u].req /\ req.kind \notin {"load", "collect"}
        BY <1>1, <1>6
      <4>2. PICK p : p = call[u].prices
        OBVIOUS
      <4>3. W = Writes(req, p)
        BY <1>W, <4>1, <4>2
      <4> QED
        BY <4>1, <4>3, WritesAreWhole
    <3>2. ASSUME NEW r \in Open(u)', NEW k \in 1..i, r.table = W[k].table,
                 r.key = W[k].key, r.content = W[k].content
          PROVE  WholeIn(Visible(u)', r)
      <4>1. k \in DOMAIN W
        BY <1>1, <2>7, <3>2
      <4>2. ASSUME NEW t \in Siblings(W[k].table)
            PROVE  Holds(Visible(u)', t, W[k].key, W[k].content)
        <5>1. PICK j \in DOMAIN W :
                 W[j].table = t /\ W[j].key = W[k].key /\ W[j].content = W[k].content
          BY <3>1, <4>1, <4>2, Zenon
        <5>2. j \in 1..i
          BY <1>1, <2>7, <5>1
        <5> QED
          BY <2>2, <5>1, <5>2, Zenon
      <4> QED
        BY <3>2, <4>2, Zenon DEF WholeIn
    <3>3. OpenRowsAreWhole(u)'
      BY <2>5, <3>2 DEF OpenRowsAreWhole
    <3> QED
      BY <1>3, <2>4, <3>3 DEF SessionIsWhole
  <2> QED
    BY <1>2, <2>6, <2>7
<1> QED
  BY <1>5, <1>6

\* The rows that are committed are whole with those that were.
LEMMA CommittedAreWhole ==
    ASSUME TypeOK, TypeOK', CommittedRowsAreWhole, NEW u \in Users, NEW K, NEW J,
           RowsCommitted(u, K, J), K = Open(u) \/ K = {},
           \A r \in K : WholeIn(Visible(u), r)
    PROVE  CommittedRowsAreWhole'
<1> DEFINE S == {Stamp(r, commits + 1) : r \in K}
<1>1. \A r \in K : /\ Stamp(r, commits + 1) \in S
                   /\ Stamp(r, commits + 1).table = r.table
                   /\ Stamp(r, commits + 1).key = r.key
                   /\ Stamp(r, commits + 1).content = r.content
  BY AfterRowsCommitted
<1>2. \A s \in S : \E r \in K :
        s.table = r.table /\ s.key = r.key /\ s.content = r.content
  BY <1>1
<1>3. Committed' = Committed \cup S \cup J /\ \A j \in J : j.table = "job_runs"
  BY AfterRowsCommitted DEF RowsCommitted
<1> HIDE DEF S
<1>4. ASSUME NEW t, NEW k, NEW c, Holds(Committed, t, k, c)
      PROVE  Holds(Committed', t, k, c)
  BY <1>3, <1>4 DEF Holds
<1>5. ASSUME NEW t, NEW k, NEW c, Holds(Visible(u), t, k, c), K = Open(u)
      PROVE  Holds(Committed', t, k, c)
  <2>1. PICK r \in Committed \cup Open(u) : r.table = t /\ r.key = k /\ r.content = c
    BY <1>5, VisibleRows DEF Holds
  <2>2. CASE r \in Committed
    BY <1>3, <2>1, <2>2 DEF Holds
  <2>3. CASE r \in Open(u)
    BY <1>1, <1>3, <1>5, <2>1, <2>3 DEF Holds
  <2> QED
    BY <2>1, <2>2, <2>3
<1>6. ASSUME NEW r \in Committed' PROVE WholeIn(Committed', r)
  <2>1. CASE r \in Committed
    BY <1>4, <2>1 DEF CommittedRowsAreWhole, WholeIn
  <2>2. CASE r \in S
    <3>1. PICK o \in K : r.table = o.table /\ r.key = o.key /\ r.content = o.content
      BY <1>2, <2>2
    <3>2. K = Open(u) /\ WholeIn(Visible(u), o)
      BY <3>1
    <3> QED
      BY <1>5, <3>1, <3>2 DEF WholeIn
  <2>3. CASE r \in J
    BY <1>3, <2>3, SnapshotsAreAlone
  <2> QED
    BY <1>3, <1>6, <2>1, <2>2, <2>3
<1> QED
  BY <1>6 DEF CommittedRowsAreWhole

\* A load finds the other parts of the record it has begun with, and no more.
LEMMA PartIsFound ==
    ASSUME TypeOK, RowsInv, CommittedRowsAreWhole, NEW u \in Users, SessionIsWhole(u),
           call[u].pc # "write", NEW n \in {2, 3}, NEW r, Part(u, 1, r, r)
    PROVE  \E s : Have(u, Row(MarginTables[n], r.key, None)) = {s} /\ Part(u, n, s, r)
<1>1. /\ Range(MarginTables) = {"asset_trading_capabilities", "margin_market_snapshots",
                                "financing_term_snapshots"}
      /\ MarginTables[1] = "asset_trading_capabilities"
      /\ MarginTables[2] = "margin_market_snapshots"
      /\ MarginTables[3] = "financing_term_snapshots"
  BY DEF MarginTables, Range
<1>2. r \in Visible(u) /\ r.table = MarginTables[1]
  BY DEF Part
<1>3. WholeIn(Visible(u), r) /\ MarginTables[n] \in Siblings(r.table)
  BY <1>1, <1>2, SeenIsWhole DEF Siblings
<1>4. PICK s \in Visible(u) : /\ s.table = MarginTables[n] /\ s.key = r.key
                              /\ s.content = r.content
  BY <1>3 DEF WholeIn, Holds
<1>5. \A x \in Visible(u) : x.table = MarginTables[n] /\ x.key = r.key => x = s
  BY <1>4, VisibleRows DEF RowsInv, KeysAreUnique, Visible
<1>6. Have(u, Row(MarginTables[n], r.key, None)) = {s}
  BY <1>4, <1>5 DEF Have, Row
<1> QED
  BY <1>4, <1>6 DEF Part

LEMMA LoadNextIsWhole ==
    ASSUME TypeOK, TypeOK', RowsInv, WholeInv, NEW u \in Users, LoadNext(u)
    PROVE  SessionIsWhole(u)'
<1>1. /\ RowsStay /\ call[u].pc \in {"market", "terms"} /\ call[u].req.kind = "load"
      /\ call'[u].pc = IF call[u].pc = "market" THEN "terms" ELSE "loaded"
      /\ call'[u].loaded = call[u].loaded \cup NextPart(u)
  BY LoadNextStep
<1>2. \A n, s, r : Part(u, n, s, r)' <=> Part(u, n, s, r)
  BY <1>1 DEF Part, Visible, RowsStay
<1>3. /\ MarginTables[1] # MarginTables[2] /\ MarginTables[1] # MarginTables[3]
      /\ MarginTables[2] # MarginTables[3]
  BY DEF MarginTables
<1>4. SessionIsWhole(u) /\ CommittedRowsAreWhole
  BY DEF WholeInv
<1>5. CASE call[u].pc = "market"
  <2>1. PICK r \in call[u].loaded : Part(u, 1, r, r) /\ call[u].loaded = {r}
    BY <1>4, <1>5 DEF SessionIsWhole, LoadsInOrder
  <2>2. (CHOOSE x \in call[u].loaded : x.table = MarginTables[1]) = r
    BY <2>1 DEF Part
  <2>3. PICK s : Have(u, Row(MarginTables[2], r.key, None)) = {s} /\ Part(u, 2, s, r)
    BY <1>4, <1>5, <2>1, PartIsFound
  <2>4. NextPart(u) = {s}
    BY <1>5, <2>2, <2>3 DEF NextPart
  <2>5. call'[u].loaded = {r, s} /\ call'[u].pc = "terms"
    BY <1>1, <1>5, <2>1, <2>4
  <2> QED
    BY <1>1, <1>2, <1>4, <2>1, <2>3, <2>5, OpenStaysWhole
    DEF SessionIsWhole, LoadsInOrder, InsertsSoFar, Answered, RowsStay
<1>6. CASE call[u].pc = "terms"
  <2>1. PICK r \in call[u].loaded, s \in call[u].loaded :
            Part(u, 1, r, r) /\ Part(u, 2, s, r) /\ call[u].loaded = {r, s}
    BY <1>4, <1>6 DEF SessionIsWhole, LoadsInOrder
  <2>2. (CHOOSE x \in call[u].loaded : x.table = MarginTables[1]) = r
    BY <1>3, <2>1 DEF Part
  <2>3. PICK t : Have(u, Row(MarginTables[3], r.key, None)) = {t} /\ Part(u, 3, t, r)
    BY <1>4, <1>6, <2>1, PartIsFound
  <2>4. NextPart(u) = {t}
    BY <1>6, <2>2, <2>3 DEF NextPart
  <2>5. call'[u].loaded = {r, s, t} /\ call'[u].pc = "loaded"
    BY <1>1, <1>6, <2>1, <2>4
  <2> QED
    BY <1>1, <1>2, <1>4, <2>1, <2>3, <2>5, OpenStaysWhole
    DEF SessionIsWhole, LoadsInOrder, InsertsSoFar, Answered, RowsStay
<1> QED
  BY <1>1, <1>5, <1>6

LEMMA WholeTogether ==
    ASSUME TypeOK, TypeOK', WholeInv, NEW u \in Users, OthersStay(u),
           \A v \in Users : v # u => Open(v)' = Open(v), Committed \subseteq Committed',
           SessionIsWhole(u)', CommittedRowsAreWhole'
    PROVE  WholeInv'
<1>1. ASSUME NEW v \in Users, v # u PROVE SessionIsWhole(v)'
  BY <1>1, OthersAreWhole DEF WholeInv, OthersStay
<1> QED
  BY <1>1 DEF WholeInv

LEMMA WholeRowsStay ==
    ASSUME TypeOK, TypeOK', WholeInv, NEW u \in Users, OthersStay(u), RowsStay,
           SessionIsWhole(u)'
    PROVE  WholeInv'
<1>1. Committed' = Committed /\ \A v \in Users : Open(v)' = Open(v)
  BY DEF Committed, Open, RowsStay
<1>2. CommittedRowsAreWhole'
  BY <1>1 DEF WholeInv, CommittedRowsAreWhole, WholeIn, Holds
<1> QED
  BY <1>1, <1>2, WholeTogether

LEMMA WholeRowsBack ==
    ASSUME TypeOK, TypeOK', WholeInv, NEW u \in Users, OthersStay(u), RowsBack(u),
           call'[u].pc \in {"idle", "failed"}
    PROVE  WholeInv'
<1>1. /\ Open(u)' = {} /\ Committed' = Committed
      /\ \A v \in Users : v # u => Open(v)' = Open(v)
  BY AfterRowsBack
<1>2. CommittedRowsAreWhole'
  BY <1>1 DEF WholeInv, CommittedRowsAreWhole, WholeIn, Holds
<1>3. SessionIsWhole(u)'
  BY <1>1, QuietIsWhole
<1> QED
  BY <1>1, <1>2, <1>3, WholeTogether

LEMMA WholeRowsCommitted ==
    ASSUME TypeOK, TypeOK', WholeInv, NEW u \in Users, OthersStay(u), NEW K, NEW J,
           RowsCommitted(u, K, J), K = Open(u) \/ K = {}, call'[u].pc = "idle",
           \A r \in K : WholeIn(Visible(u), r)
    PROVE  WholeInv'
<1> DEFINE S == {Stamp(r, commits + 1) : r \in K}
<1>1. /\ Open(u)' = {} /\ Committed' = Committed \cup S \cup J
      /\ \A v \in Users : v # u => Open(v)' = Open(v)
  BY AfterRowsCommitted
<1> HIDE DEF S
<1>2. CommittedRowsAreWhole'
  BY CommittedAreWhole DEF WholeInv
<1>3. SessionIsWhole(u)'
  BY <1>1, QuietIsWhole
<1>4. Committed \subseteq Committed'
  BY <1>1
<1> QED
  BY <1>1, <1>2, <1>3, <1>4, WholeTogether

LEMMA WholeStep ==
    ASSUME TypeOK, TypeOK', RowsInv, RowsInv', WholeInv, [Next]_vars
    PROVE  WholeInv'
<1>0. \A u \in Users : SessionIsWhole(u) /\ CommittedRowsAreWhole
  BY DEF WholeInv
<1>i. Idle.pc = "idle"
  BY DEF Idle
<1>1. ASSUME NEW u \in Users, NEW req \in Requests, Call(u, req) PROVE WholeInv'
  <2>1. /\ OthersStay(u) /\ RowsStay /\ call[u].pc # "write"
        /\ call'[u].pc \notin {"answered", "market", "terms", "loaded"} /\ call'[u].i = 1
    BY <1>1, CallStep
  <2>2. SessionIsWhole(u)'
    BY <1>0, <2>1, BeginningIsWhole DEF RowsStay
  <2> QED
    BY <2>1, <2>2, WholeRowsStay
<1>2. ASSUME NEW u \in Users, Look(u) PROVE WholeInv'
  <2>1. /\ OthersStay(u) /\ commits' = commits
        /\ \/ rows' = rows \ Open(u) /\ call'[u].pc = "idle"
           \/ /\ rows' = rows /\ call'[u].i = 1
              /\ call'[u].req = call[u].req /\ call'[u].prices = call[u].prices
              /\ \A r \in Have(u, First(u)) : r.content = First(u).content
              /\ \/ call'[u].pc = "answered" /\ Have(u, First(u)) # {}
                 \/ call'[u].pc \in {"reuse", "write"}
    BY <1>i, <1>2, LookStep
  <2>2. call[u].pc = "look"
    BY <1>2 DEF Look
  <2>3. CASE rows' = rows \ Open(u) /\ call'[u].pc = "idle"
    BY <2>1, <2>3, WholeRowsBack DEF RowsBack
  <2>4. CASE rows' = rows /\ call'[u].pc \in {"reuse", "write"} /\ call'[u].i = 1
    <3>1. SessionIsWhole(u)'
      BY <1>0, <2>2, <2>4, BeginningIsWhole
    <3> QED
      BY <2>1, <2>4, <3>1, WholeRowsStay DEF RowsStay
  <2>5. CASE /\ rows' = rows /\ call'[u].pc = "answered" /\ Have(u, First(u)) # {}
             /\ call'[u].req = call[u].req /\ call'[u].prices = call[u].prices
             /\ \A r \in Have(u, First(u)) : r.content = First(u).content
    <3>1. Inserts(u, Len(WritesOf(u)))'
      BY <1>2, <2>5, LookIsWhole
    <3>2. OpenRowsAreWhole(u)'
      BY <1>0, <2>2, <2>5, OpenStaysWhole
    <3>3. SessionIsWhole(u)'
      BY <2>5, <3>1, <3>2 DEF SessionIsWhole, InsertsSoFar, LoadsInOrder, Answered
    <3> QED
      BY <2>1, <2>5, <3>3, WholeRowsStay DEF RowsStay
  <2> QED
    BY <2>1, <2>3, <2>4, <2>5
<1>3. ASSUME NEW u \in Users, Reuse(u) PROVE WholeInv'
  <2>1. /\ OthersStay(u) /\ commits' = commits
        /\ \/ rows' = rows \ Open(u) /\ call'[u].pc = "idle"
           \/ rows' = rows /\ call'[u].i = 1 /\ call'[u].pc = "write"
    BY <1>i, <1>3, ReuseStep
  <2>2. call[u].pc = "reuse"
    BY <1>3 DEF Reuse
  <2>3. CASE rows' = rows \ Open(u) /\ call'[u].pc = "idle"
    BY <2>1, <2>3, WholeRowsBack DEF RowsBack
  <2>4. CASE rows' = rows /\ call'[u].i = 1 /\ call'[u].pc = "write"
    <3>1. SessionIsWhole(u)'
      BY <1>0, <2>2, <2>4, BeginningIsWhole
    <3> QED
      BY <2>1, <2>4, <3>1, WholeRowsStay DEF RowsStay
  <2> QED
    BY <2>1, <2>3, <2>4
<1>4. ASSUME NEW u \in Users, Write(u) PROVE WholeInv'
  <2>0. PICK w : w = Current(u)
    OBVIOUS
  <2>1. /\ OthersStay(u) /\ commits' = commits
        /\ call[u].pc = "write" /\ \A v \in Users : ~WaitsFor(u, v)
        /\ \/ rows' = rows \ Open(u) /\ call'[u].pc = "idle"
           \/ Have(u, w) = {} /\ rows' = rows \cup {Inserted(u, w)} /\ Proceeds(u)
           \/ /\ Have(u, w) # {} /\ \A r \in Have(u, w) : Accepts(u, r, w)
              /\ rows' = rows /\ Proceeds(u)
    BY <1>i, <1>4, <2>0, WriteStep
  <2>2. CASE rows' = rows \ Open(u) /\ call'[u].pc = "idle"
    BY <2>1, <2>2, WholeRowsBack DEF RowsBack
  <2>3. CASE Have(u, w) = {} /\ rows' = rows \cup {Inserted(u, w)} /\ Proceeds(u)
    <3>1. RowInserted(u, w)
      BY <2>0, <2>1, <2>3, RowIsNew DEF RowInserted, RowsInv
    <3>2. /\ Open(u)' = Open(u) \cup {Inserted(u, w)} /\ Committed' = Committed
          /\ \A v \in Users : v # u => Open(v)' = Open(v)
          /\ Inserted(u, w).table = w.table /\ Inserted(u, w).key = w.key
          /\ Inserted(u, w).content = w.content
      BY <3>1, AfterRowInserted
    <3>3. Visible(u) \subseteq Visible(u)' /\ Inserted(u, w) \in Visible(u)'
      BY <3>2, VisibleRows, ViewsAfter
    <3>4. /\ Holds(Visible(u)', w.table, w.key, w.content)
          /\ \A r \in Open(u)' \ Open(u) :
                r.table = w.table /\ r.key = w.key /\ r.content = w.content
      BY <3>2, <3>3 DEF Holds
    <3>5. SessionIsWhole(u)'
      BY <1>0, <2>0, <2>1, <2>3, <3>3, <3>4, WriteIsWhole
    <3>6. CommittedRowsAreWhole'
      BY <1>0, <3>2 DEF CommittedRowsAreWhole, WholeIn, Holds
    <3> QED
      BY <2>1, <3>2, <3>5, <3>6, WholeTogether
  <2>4. CASE /\ Have(u, w) # {} /\ \A r \in Have(u, w) : Accepts(u, r, w)
             /\ rows' = rows /\ Proceeds(u)
    <3>1. Open(u)' = Open(u) /\ Visible(u)' = Visible(u)
      BY <2>4 DEF Open, Visible
    <3>2. call[u].req.kind # "collect" => Holds(Visible(u)', w.table, w.key, w.content)
      BY <2>4, <3>1 DEF Holds, Have, Accepts
    <3>3. SessionIsWhole(u)'
      BY <1>0, <2>0, <2>1, <2>4, <3>1, <3>2, WriteIsWhole
    <3> QED
      BY <2>1, <2>4, <3>3, WholeRowsStay DEF RowsStay
  <2> QED
    BY <2>1, <2>2, <2>3, <2>4
<1>5. ASSUME NEW u \in Users, Deadlock(u) PROVE WholeInv'
  BY <1>i, <1>5, DeadlockStep, WholeRowsBack DEF RowsBack
<1>6. ASSUME NEW u \in Users, Commit(u) PROVE WholeInv'
  <2>1. /\ OthersStay(u) /\ call[u].pc = "answered" /\ call'[u].pc = "idle"
        /\ RowsCommitted(u, Open(u), {})
    BY <1>i, <1>6, CommitStep DEF RowsCommitted
  <2>2. \A r \in Open(u) : WholeIn(Visible(u), r)
    BY <1>0, <2>1 DEF SessionIsWhole, OpenRowsAreWhole
  <2> QED
    BY <2>1, <2>2, WholeRowsCommitted
<1>7. ASSUME NEW u \in Users, Abort(u) PROVE WholeInv'
  BY <1>i, <1>7, AbortStep, WholeRowsBack DEF RowsBack
<1>8. ASSUME NEW u \in Users, Load(u) PROVE WholeInv'
  <2>1. /\ OthersStay(u) /\ RowsStay /\ call[u].pc = "load" /\ call'[u].req.kind = "load"
        /\ \/ call'[u].pc = "answered"
           \/ /\ call'[u].pc = "market"
              /\ \E r \in Latest(AsOf(u, call[u].req.at)) : call'[u].loaded = {r}
    BY <1>8, LoadStep
  <2>2. \A r \in Latest(AsOf(u, call[u].req.at)) : Part(u, 1, r, r)'
    BY <2>1 DEF Latest, AsOf, Part, Visible, RowsStay
  <2>3. LoadsInOrder(u)'
    <3>1. CASE call'[u].pc = "answered"
      BY <3>1 DEF LoadsInOrder
    <3>2. CASE /\ call'[u].pc = "market"
               /\ \E r \in Latest(AsOf(u, call[u].req.at)) : call'[u].loaded = {r}
      BY <2>2, <3>2 DEF LoadsInOrder
    <3> QED
      BY <2>1, <3>1, <3>2
  <2>4. OpenRowsAreWhole(u)'
    BY <1>0, <2>1, OpenStaysWhole DEF RowsStay
  <2>5. SessionIsWhole(u)'
    BY <2>1, <2>3, <2>4 DEF SessionIsWhole, InsertsSoFar, Answered
  <2> QED
    BY <2>1, <2>5, WholeRowsStay
<1>9. ASSUME NEW u \in Users, LoadNext(u) PROVE WholeInv'
  BY <1>9, LoadNextStep, LoadNextIsWhole, WholeRowsStay
<1>10. ASSUME NEW u \in Users, Restore(u) PROVE WholeInv'
  <2>1. /\ OthersStay(u) /\ commits' = commits
        /\ \/ rows' = rows \ Open(u) /\ call'[u].pc = "idle"
           \/ rows' = rows /\ call'[u].pc = "answered" /\ call'[u].req.kind = "load"
    BY <1>i, <1>10, RestoreStep
  <2>2. CASE rows' = rows \ Open(u) /\ call'[u].pc = "idle"
    BY <2>1, <2>2, WholeRowsBack DEF RowsBack
  <2>3. CASE rows' = rows /\ call'[u].pc = "answered" /\ call'[u].req.kind = "load"
    <3>1. OpenRowsAreWhole(u)'
      BY <1>0, <1>10, <2>3, OpenStaysWhole DEF Restore
    <3>2. SessionIsWhole(u)'
      BY <2>3, <3>1 DEF SessionIsWhole, InsertsSoFar, LoadsInOrder, Answered
    <3> QED
      BY <2>1, <2>3, <3>2, WholeRowsStay DEF RowsStay
  <2> QED
    BY <2>1, <2>2, <2>3
<1>11. ASSUME NEW u \in Users, Collect(u) PROVE WholeInv'
  <2>1. /\ OthersStay(u) /\ RowsStay /\ call[u].req.kind = "collect"
        /\ call'[u].req.kind = "collect" /\ call'[u].pc \in {"failed", "record", "write"}
    BY <1>11, CollectStep
  <2>2. SessionIsWhole(u)'
    BY <1>0, <2>1, BeginningIsWhole DEF RowsStay
  <2> QED
    BY <2>1, <2>2, WholeRowsStay
<1>12. ASSUME NEW u \in Users, CollectFails(u) PROVE WholeInv'
  <2>1. /\ OthersStay(u) /\ RowsStay /\ call[u].req.kind = "collect"
        /\ call'[u].pc = "failed"
    BY <1>12, CollectFailsStep
  <2>2. SessionIsWhole(u)'
    BY <1>0, <2>1, BeginningIsWhole DEF RowsStay
  <2> QED
    BY <2>1, <2>2, WholeRowsStay
<1>13. ASSUME NEW u \in Users, RecordResult(u) PROVE WholeInv'
  <2>1. PICK report : /\ OthersStay(u) /\ commits' = commits + 1 /\ call'[u].pc = "idle"
                      /\ call[u].req.kind = "collect"
                      /\ rows' = (rows \ Open(u)) \cup {Stamp(r, commits + 1) : r \in Open(u)}
                                    \cup {Reporting(u, report)}
    BY <1>i, <1>13, RecordResultStep
  <2>2. RowsCommitted(u, Open(u), {Reporting(u, report)})
    BY <2>1, ReportIsOne
  <2>3. \A r \in Open(u) : r.table \in SnapshotTables
    BY <2>1 DEF RowsInv, OpenRowsBelong
  <2>4. \A r \in Open(u) : WholeIn(Visible(u), r)
    BY <2>3, SnapshotsAreAlone
  <2> QED
    BY <2>1, <2>2, <2>4, WholeRowsCommitted
<1>14. ASSUME NEW u \in Users, RecordFailure(u) PROVE WholeInv'
  <2>1. /\ OthersStay(u) /\ commits' = commits + 1 /\ call'[u].pc = "idle"
        /\ rows' = (rows \ Open(u)) \cup {Reporting(u, FailureOf(call[u].req))}
    BY <1>i, <1>14, RecordFailureStep
  <2>2. RowsCommitted(u, {}, {Reporting(u, FailureOf(call[u].req))})
    BY <2>1 DEF RowsCommitted, Reporting
  <2> QED
    BY <2>1, <2>2, WholeRowsCommitted
<1>15. CASE UNCHANGED vars \/ SaveVersion \/ NewPrices
  <2>1. rows' = rows /\ call' = call
    BY <1>15, OtherStep
  <2>2. Committed' = Committed /\ \A v \in Users : Open(v)' = Open(v)
    BY <2>1 DEF Committed, Open
  <2>3. CommittedRowsAreWhole'
    BY <2>2 DEF WholeInv, CommittedRowsAreWhole, WholeIn, Holds
  <2>4. \A v \in Users : SessionIsWhole(v)'
    BY <2>1, <2>2, OthersAreWhole DEF WholeInv
  <2> QED
    BY <2>3, <2>4 DEF WholeInv
<1> QED
  BY <1>1, <1>2, <1>3, <1>4, <1>5, <1>6, <1>7, <1>8, <1>9, <1>10, <1>11, <1>12,
     <1>13, <1>14, <1>15 DEF Next

-----------------------------------------------------------------------------
(* The first state. *)

LEMMA RowsAtFirst ==
    ASSUME Init
    PROVE  /\ rows = {[table |-> w.table, key |-> w.key, content |-> w.content,
                       by |-> None, commit |-> 1, checked |-> 0] :
                        w \in Range(AssetsWrites(1))}
           /\ \E c : Range(AssetsWrites(1)) =
                        {Row("asset_analysis_runs", <<1>>, c),
                         Row("asset_analysis_results", <<1>>, c)}
<1>1. PICK c : AssetsWrites(1) = <<Row("asset_analysis_runs", <<1>>, c),
                                   Row("asset_analysis_results", <<1>>, c)>>
  BY DEF AssetsWrites, AssetsKey
<1>2. DOMAIN AssetsWrites(1) = {1, 2}
  BY <1>1
<1>3. Range(AssetsWrites(1)) = {AssetsWrites(1)[x] : x \in {1, 2}}
  BY <1>2 DEF Range
<1>4. Range(AssetsWrites(1)) = {AssetsWrites(1)[1], AssetsWrites(1)[2]}
  BY <1>3
<1>5. Range(AssetsWrites(1)) = {Row("asset_analysis_runs", <<1>>, c),
                                Row("asset_analysis_results", <<1>>, c)}
  BY <1>1, <1>4
<1> QED
  BY <1>5 DEF Init

LEMMA AtFirst ==
    ASSUME Init
    PROVE  /\ TypeOK /\ RowsInv /\ WholeInv
           /\ \A r \in rows : /\ r.commit = 1 /\ r.checked = 0
                              /\ r.table \in {"asset_analysis_runs", "asset_analysis_results"}
<1>1. PICK c : Range(AssetsWrites(1)) = {Row("asset_analysis_runs", <<1>>, c),
                                         Row("asset_analysis_results", <<1>>, c)}
  BY RowsAtFirst
<1> DEFINE Saved(w) == [table |-> w.table, key |-> w.key, content |-> w.content,
                        by |-> None, commit |-> 1, checked |-> 0]
           run == Saved(Row("asset_analysis_runs", <<1>>, c))
           results == Saved(Row("asset_analysis_results", <<1>>, c))
<1>2. rows = {Saved(w) : w \in Range(AssetsWrites(1))}
  BY RowsAtFirst
<1>3. rows = {run, results}
  <2> HIDE DEF Saved
  <2> QED
    BY <1>1, <1>2
<1>4. /\ run.table = "asset_analysis_runs" /\ results.table = "asset_analysis_results"
      /\ run.key = results.key /\ run.content = results.content
      /\ run.commit = 1 /\ results.commit = 1 /\ run.checked = 0 /\ results.checked = 0
      /\ IsRow(run, 1) /\ IsRow(results, 1)
  BY DEF Row, IsRow
<1>5. commits = 1 /\ call = [u \in Users |-> Idle]
  BY DEF Init
<1> HIDE DEF run, results, Saved
<1>6. IsFiniteSet(rows)
  <2>1. rows = {run} \cup {results}
    BY <1>3
  <2> QED
    BY <2>1, FS_Singleton, FS_AddElement
<1>7. \A u \in Users : IsCall(call[u], 1) /\ CallIsAt(call[u]) /\ call[u].pc = "idle"
  <2>1. IsCall(Idle, 1) /\ CallIsAt(Idle) /\ Idle.pc = "idle"
    BY ONLY DEF IsCall, CallIsAt, Idle
  <2> QED
    BY <1>5, <2>1
<1>8. TypeOK
  BY <1>3, <1>4, <1>5, <1>6, <1>7 DEF TypeOK
<1>9. Committed = rows /\ \A u \in Users : Open(u) = {}
  BY <1>3, <1>4 DEF Committed, Open
<1>10. RowsInv
  BY <1>3, <1>4, <1>9 DEF RowsInv, KeysAreUnique, OpenRowsBelong, OpenHasOwner
<1>11. CommittedRowsAreWhole
  <2>1. /\ Siblings("asset_analysis_runs") = {"asset_analysis_results"}
        /\ Siblings("asset_analysis_results") = {}
    <3>1. Range(MarginTables) = {"asset_trading_capabilities", "margin_market_snapshots",
                                 "financing_term_snapshots"}
      BY DEF MarginTables, Range
    <3> QED
      BY <3>1 DEF Siblings
  <2> QED
    BY <1>3, <1>4, <1>9, <2>1 DEF CommittedRowsAreWhole, WholeIn, Holds
<1>12. \A u \in Users : SessionIsWhole(u)
  BY <1>7, <1>9
  DEF SessionIsWhole, InsertsSoFar, OpenRowsAreWhole, LoadsInOrder, Answered
<1> QED
  BY <1>3, <1>4, <1>8, <1>10, <1>11, <1>12 DEF WholeInv

\* Rows have one key and open ones an owner, and nothing is saved by halves.
THEOREM Invariance == Spec => [](TypeOK /\ RowsInv /\ WholeInv)
<1>1. Init => TypeOK /\ RowsInv /\ WholeInv
  BY AtFirst
<1>2. TypeOK /\ RowsInv /\ WholeInv /\ [Next]_vars => (TypeOK /\ RowsInv /\ WholeInv)'
  <2> SUFFICES ASSUME TypeOK, RowsInv, WholeInv, [Next]_vars
               PROVE  TypeOK' /\ RowsInv' /\ WholeInv'
    OBVIOUS
  <2>1. TypeOK' /\ RowsInv'
    BY RowsInvStep
  <2> QED
    BY <2>1, WholeStep
<1> QED
  BY <1>1, <1>2, PTL DEF Spec

\* Who gets an answer has the very record saved that was asked for (the
\* comparisons of the services that look first, and of the margin snapshots).
THEOREM AnswersExact == Spec => []AnswersAreExact
<1>1. TypeOK /\ WholeInv => AnswersAreExact
  <2> SUFFICES ASSUME TypeOK, WholeInv, NEW u \in Users, call[u].pc = "answered",
                      call[u].req.kind # "load",
                      NEW k \in DOMAIN WritesOf(u)
               PROVE  \E r \in Have(u, WritesOf(u)[k]) : r.content = WritesOf(u)[k].content
    BY DEF AnswersAreExact, WritesOf
  <2>1. call[u].req \in Requests /\ call[u].req.kind # "collect"
    BY CallsAre DEF IsCall, CallIsAt
  <2>2. DOMAIN WritesOf(u) = 1..Len(WritesOf(u))
    BY <2>1, WritesAreList DEF WritesOf
  <2>3. Inserts(u, Len(WritesOf(u)))
    BY DEF WholeInv, SessionIsWhole, Answered
  <2> QED
    BY <2>2, <2>3 DEF Inserts, Holds, Have
<1> QED
  BY <1>1, Invariance, PTL

\* What belongs together is saved together, and a load that has made its three
\* statements has the three parts of one record.
THEOREM RecordsWhole == Spec => []RecordsAreWhole
<1>1. ASSUME CommittedRowsAreWhole, NEW r \in Committed, NEW t \in Siblings(r.table)
      PROVE  \E s \in Committed : s.table = t /\ s.key = r.key /\ s.content = r.content
  BY <1>1 DEF CommittedRowsAreWhole, WholeIn, Holds
<1>2. ASSUME WholeInv, NEW u \in Users, call[u].pc = "loaded"
      PROVE  /\ Cardinality(call[u].loaded) = 3
             /\ \A r, s \in call[u].loaded : r.content = s.content
  <2>1. PICK r \in call[u].loaded, s \in call[u].loaded, t \in call[u].loaded :
            /\ Part(u, 1, r, r) /\ Part(u, 2, s, r) /\ Part(u, 3, t, r)
            /\ call[u].loaded = {r, s, t}
    BY <1>2 DEF WholeInv, SessionIsWhole, LoadsInOrder
  <2>2. r # s /\ r # t /\ s # t
    BY <2>1 DEF Part, MarginTables
  <2>3. IsFiniteSet({r} \cup {s}) /\ Cardinality({r} \cup {s}) = 2
    <3>1. IsFiniteSet({r}) /\ Cardinality({r}) = 1 /\ s \notin {r}
      BY <2>2, FS_Singleton
    <3>2. Cardinality({r} \cup {s}) = Cardinality({r}) + 1 /\ IsFiniteSet({r} \cup {s})
      BY <3>1, FS_AddElement
    <3> QED
      BY <3>1, <3>2
  <2>4. Cardinality(({r} \cup {s}) \cup {t}) = 3
    <3>1. t \notin {r} \cup {s}
      BY <2>2
    <3>2. Cardinality(({r} \cup {s}) \cup {t}) = Cardinality({r} \cup {s}) + 1
      BY <2>3, <3>1, FS_AddElement
    <3> QED
      BY <2>3, <3>2
  <2>5. {r, s, t} = ({r} \cup {s}) \cup {t}
    OBVIOUS
  <2> QED
    BY <2>1, <2>4, <2>5 DEF Part
<1>3. WholeInv => RecordsAreWhole
  <2> SUFFICES ASSUME WholeInv PROVE RecordsAreWhole
    OBVIOUS
  <2>1. \A r \in Committed : \A t \in Siblings(r.table) :
            \E s \in Committed : s.table = t /\ s.key = r.key /\ s.content = r.content
    BY <1>1 DEF WholeInv
  <2>2. Range(MarginTables) = {"asset_trading_capabilities", "margin_market_snapshots",
                               "financing_term_snapshots"}
    BY DEF MarginTables, Range
  <2>3. \A table \in Range(MarginTables) : Siblings(table) = Range(MarginTables)
    BY DEF Siblings
  <2>4. /\ Siblings("asset_analysis_runs") = {"asset_analysis_results"}
        /\ Siblings("user_asset_selection_analysis_runs") =
              {"user_asset_selection_analysis_results"}
        /\ Siblings("selected_universe_backtest_runs") =
              {"selected_universe_backtest_asset_results"}
    BY <2>2 DEF Siblings
  <2> QED
    BY <1>2, <2>1, <2>3, <2>4 DEF RecordsAreWhole
<1> QED
  BY <1>3, Invariance, PTL

-----------------------------------------------------------------------------
(* What is checked before it is stored. *)

\* No session has more committed behind its back than its check allows.
LEMMA OthersAreChecked ==
    ASSUME TypeOK, NEW v \in Users, SessionIsChecked(v), call'[v] = call[v],
           \A s \in Committed' \ Committed : s.commit = commits + 1
    PROVE  SessionIsChecked(v)'
<1>1. ReviewIsChecked(v)'
  BY DEF SessionIsChecked, ReviewIsChecked
<1>2. call[v].checked < commits + 1
  BY CallsAre DEF IsCall, TypeOK
<1>3. ClaimIsChecked(v)'
  <2> SUFFICES ASSUME call[v].pc = "write", call[v].req.kind = "claim",
                      Formal(call[v].req),
                      NEW s \in SamePeriodClaims(Committed', call[v].req.start,
                                                 call[v].req.end)
               PROVE  call[v].checked < s.commit
    BY DEF ClaimIsChecked
  <2>1. CASE s \in Committed
    <3>1. s \in SamePeriodClaims(Committed, call[v].req.start, call[v].req.end)
      BY <2>1 DEF SamePeriodClaims, Claims
    <3> QED
      BY <3>1 DEF SessionIsChecked, ClaimIsChecked
  <2>2. CASE s \notin Committed
    BY <1>2, <2>2 DEF SamePeriodClaims, Claims
  <2> QED
    BY <2>1, <2>2
<1> QED
  BY <1>1, <1>3 DEF SessionIsChecked

\* The rows that stay, one that is inserted, and those that are committed.
LEMMA RowsAreChecked ==
    ASSUME TypeOK, ChecksInv, rows' \subseteq rows, Committed' = Committed
    PROVE  (\A r \in rows' : ReviewIsPassed(r)) /\ ClaimsAreOrdered'
  BY DEF ChecksInv, ClaimsAreOrdered

LEMMA InsertIsChecked ==
    ASSUME TypeOK, TypeOK', ChecksInv, NEW u \in Users, call[u].pc = "write",
           RowInserted(u, Current(u))
    PROVE  (\A r \in rows' : ReviewIsPassed(r)) /\ ClaimsAreOrdered'
<1>1. PICK req : req = call[u].req
  OBVIOUS
<1>2. PICK p : p = call[u].prices
  OBVIOUS
<1>3. PICK w : w = Current(u)
  OBVIOUS
<1>4. PICK k : k = call[u].i
  OBVIOUS
<1>5. /\ req \in Requests /\ req.kind # "load"
      /\ req.kind = "collect" => ~Fails(req)
      /\ k \in DOMAIN Writes(req, p) /\ w = Writes(req, p)[k]
  BY <1>1, <1>2, <1>3, <1>4, CurrentWrite DEF WritesOf
<1>6. PICK new : new = Inserted(u, w)
  OBVIOUS
<1>7. /\ rows' = rows \cup {new} /\ Committed' = Committed /\ new.commit = 0
      /\ new.table = w.table /\ new.content = w.content /\ new.checked = call[u].checked
  BY <1>3, <1>6, AfterRowInserted DEF RowInserted
<1>8. w.table = "simulation_reviews" =>
        /\ req.kind = "review"
        /\ w.content.in = req.input /\ w.content.out = Review(req.input)
  BY <1>5, ReviewOfWrite
<1>9. w.table = "selected_universe_validation_claims" =>
        /\ req.kind = "claim"
        /\ w.content.start = req.start /\ w.content.end = req.end
        /\ w.content.formal => Formal(req)
  BY <1>5, ClaimOfWrite
<1>10. ReviewIsPassed(new)
  <2> SUFFICES ASSUME w.table = "simulation_reviews"
               PROVE  /\ \E r \in Requests : r.kind = "review" /\ r.input = w.content.in
                      /\ Reviewable(w.content.in) /\ w.content.out = Review(w.content.in)
    BY <1>7 DEF ReviewIsPassed
  <2>1. w.content.in = req.input /\ w.content.out = Review(req.input)
    BY <1>8
  <2>2. Reviewable(req.input)
    BY <1>1, <1>8 DEF ChecksInv, SessionIsChecked, ReviewIsChecked
  <2> QED
    BY <1>5, <1>8, <2>1, <2>2
<1>11. ASSUME NEW s \in Committed, SameFormalPeriod(new, s) PROVE new.checked < s.commit
  <2>1. /\ w.table = "selected_universe_validation_claims" /\ s.table = w.table
        /\ w.content.formal /\ s.content.formal
        /\ s.content.start = w.content.start /\ s.content.end = w.content.end
    BY <1>7, <1>11 DEF SameFormalPeriod
  <2>2. /\ req.kind = "claim" /\ w.content.start = req.start /\ w.content.end = req.end
        /\ Formal(req)
    BY <1>9, <2>1
  <2>3. s \in SamePeriodClaims(Committed, req.start, req.end)
    BY <2>1, <2>2 DEF SamePeriodClaims, Claims
  <2>4. ClaimIsChecked(u)
    BY DEF ChecksInv, SessionIsChecked
  <2> QED
    BY <1>1, <1>7, <2>1, <2>2, <2>3, <2>4 DEF ClaimIsChecked
<1>12. ClaimsAreOrdered'
  BY <1>7, <1>11 DEF ChecksInv, ClaimsAreOrdered
<1> QED
  BY <1>7, <1>10, <1>12 DEF ChecksInv

LEMMA CommittedAreChecked ==
    ASSUME TypeOK, TypeOK', ChecksInv, NEW u \in Users, NEW K, NEW J,
           RowsCommitted(u, K, J)
    PROVE  /\ \A r \in rows' : ReviewIsPassed(r)
           /\ ClaimsAreOrdered'
           /\ \A s \in Committed' \ Committed : s.commit = commits + 1
<1> DEFINE S == {Stamp(r, commits + 1) : r \in K}
<1>1. \A s \in S : \E r \in Open(u) :
        /\ s.table = r.table /\ s.content = r.content /\ s.checked = r.checked
        /\ s.commit = commits + 1
  <2>1. ASSUME NEW r \in K
        PROVE  /\ r \in Open(u)
               /\ Stamp(r, commits + 1).table = r.table
               /\ Stamp(r, commits + 1).content = r.content
               /\ Stamp(r, commits + 1).checked = r.checked
               /\ Stamp(r, commits + 1).commit = commits + 1
    BY AfterRowsCommitted DEF RowsCommitted
  <2> QED
    BY <2>1
<1>2. /\ Committed' = Committed \cup S \cup J /\ rows' = (rows \ Open(u)) \cup S \cup J
      /\ \A j \in J : j.table = "job_runs" /\ j.commit = commits + 1
  BY AfterRowsCommitted DEF RowsCommitted
<1> HIDE DEF S
<1>3. Open(u) \subseteq rows /\ Open(u) \cap Committed = {}
  BY VisibleRows
<1>4. \A s \in Committed' \ Committed : s.commit = commits + 1
  BY <1>1, <1>2
<1>5. ASSUME NEW r \in rows' PROVE ReviewIsPassed(r)
  BY <1>1, <1>2, <1>3, <1>5 DEF ChecksInv, ReviewIsPassed
<1>6. \A r \in rows : r.checked < commits + 1
  BY DEF TypeOK, IsRow
<1>7. ASSUME NEW r \in rows', NEW s \in Committed', SameFormalPeriod(r, s), s # r
      PROVE  r.checked < s.commit
  <2>1. r \notin J /\ s \notin J
    BY <1>2, <1>7 DEF SameFormalPeriod
  <2>2. r.checked < commits + 1
    BY <1>1, <1>2, <1>3, <1>6, <2>1
  <2>3. CASE s \in S
    BY <1>1, <2>2, <2>3
  <2>4. CASE s \in Committed
    <3>1. CASE r \in rows
      BY <1>7, <2>4, <3>1 DEF ChecksInv, ClaimsAreOrdered
    <3>2. CASE r \in S
      <4>1. PICK o \in Open(u) : /\ r.table = o.table /\ r.content = o.content
                                 /\ r.checked = o.checked
        BY <1>1, <3>2
      <4>2. SameFormalPeriod(o, s) /\ s # o /\ o \in rows
        BY <1>3, <1>7, <2>4, <4>1 DEF SameFormalPeriod
      <4> QED
        BY <2>4, <4>1, <4>2 DEF ChecksInv, ClaimsAreOrdered
    <3> QED
      BY <1>2, <2>1, <3>1, <3>2
  <2> QED
    BY <1>2, <2>1, <2>3, <2>4
<1> QED
  BY <1>4, <1>5, <1>7 DEF ClaimsAreOrdered

\* A step that stores nothing, of a session whose call is not about to store a
\* review or a claim, or keeps what has been checked.
LEMMA ChecksStay ==
    ASSUME TypeOK, ChecksInv, NEW u \in Users, OthersStay(u),
           rows' \subseteq rows, Committed' = Committed,
           \/ call'[u].pc # "write"
           \/ call'[u].req.kind \notin {"review", "claim"}
           \/ /\ call[u].pc = "write" /\ call'[u].req = call[u].req
              /\ call'[u].checked = call[u].checked
    PROVE  ChecksInv'
<1>1. (\A r \in rows' : ReviewIsPassed(r)) /\ ClaimsAreOrdered'
  BY RowsAreChecked
<1>2. SessionIsChecked(u)'
  BY DEF ChecksInv, SessionIsChecked, ReviewIsChecked, ClaimIsChecked
<1>3. ASSUME NEW v \in Users, v # u PROVE SessionIsChecked(v)'
  BY <1>3, OthersAreChecked DEF ChecksInv, OthersStay
<1> QED
  BY <1>1, <1>2, <1>3 DEF ChecksInv

LEMMA ChecksRowsBack ==
    ASSUME TypeOK, TypeOK', ChecksInv, NEW u \in Users, OthersStay(u), RowsBack(u),
           call'[u].pc # "write"
    PROVE  ChecksInv'
<1>1. Committed' = Committed /\ rows' \subseteq rows
  BY AfterRowsBack DEF RowsBack
<1> QED
  BY <1>1, ChecksStay

LEMMA ChecksRowsStay ==
    ASSUME TypeOK, ChecksInv, NEW u \in Users, OthersStay(u), RowsStay,
           call'[u].pc # "write" \/ call'[u].req.kind \notin {"review", "claim"}
    PROVE  ChecksInv'
<1>1. Committed' = Committed /\ rows' \subseteq rows
  BY DEF RowsStay, Committed
<1> QED
  BY <1>1, ChecksStay

LEMMA ChecksRowsCommitted ==
    ASSUME TypeOK, TypeOK', ChecksInv, NEW u \in Users, OthersStay(u), NEW K, NEW J,
           RowsCommitted(u, K, J), call'[u].pc # "write"
    PROVE  ChecksInv'
<1>1. /\ \A r \in rows' : ReviewIsPassed(r)
      /\ ClaimsAreOrdered'
      /\ \A s \in Committed' \ Committed : s.commit = commits + 1
  BY CommittedAreChecked
<1>2. SessionIsChecked(u)'
  BY DEF SessionIsChecked, ReviewIsChecked, ClaimIsChecked
<1>3. ASSUME NEW v \in Users, v # u PROVE SessionIsChecked(v)'
  BY <1>1, <1>3, OthersAreChecked DEF ChecksInv, OthersStay
<1> QED
  BY <1>1, <1>2, <1>3 DEF ChecksInv

LEMMA ChecksStep ==
    ASSUME TypeOK, TypeOK', RowsInv, ChecksInv, [Next]_vars
    PROVE  ChecksInv'
<1>i. Idle.pc = "idle"
  BY DEF Idle
<1>1. ASSUME NEW u \in Users, NEW req \in Requests, Call(u, req) PROVE ChecksInv'
  <2>1. /\ OthersStay(u) /\ RowsStay
        /\ call'[u].pc # "write" \/ call'[u].req.kind \notin {"review", "claim"}
    BY <1>1, CallStep
  <2> QED
    BY <2>1, ChecksRowsStay
<1>2. ASSUME NEW u \in Users, Look(u) PROVE ChecksInv'
  <2>1. /\ OthersStay(u) /\ commits' = commits
        /\ \/ rows' = rows \ Open(u) /\ call'[u].pc = "idle"
           \/ /\ rows' = rows /\ Admitted(u, call[u].req) /\ call'[u].req = call[u].req
              /\ call'[u].pc = "write" => call[u].req.kind # "claim"
    BY <1>i, <1>2, LookStep
  <2>2. CASE rows' = rows \ Open(u) /\ call'[u].pc = "idle"
    BY <2>1, <2>2, ChecksRowsBack DEF RowsBack
  <2>3. CASE /\ rows' = rows /\ Admitted(u, call[u].req) /\ call'[u].req = call[u].req
             /\ call'[u].pc = "write" => call[u].req.kind # "claim"
    <3>1. Committed' = Committed
      BY <2>3 DEF Committed
    <3>2. (\A r \in rows' : ReviewIsPassed(r)) /\ ClaimsAreOrdered'
      BY <2>3, <3>1, RowsAreChecked
    <3>3. SessionIsChecked(u)'
      BY <2>3 DEF SessionIsChecked, ReviewIsChecked, ClaimIsChecked, Admitted
    <3>4. ASSUME NEW v \in Users, v # u PROVE SessionIsChecked(v)'
      BY <2>1, <3>1, <3>4, OthersAreChecked DEF ChecksInv, OthersStay
    <3> QED
      BY <3>2, <3>3, <3>4 DEF ChecksInv
  <2> QED
    BY <2>1, <2>2, <2>3
<1>3. ASSUME NEW u \in Users, Reuse(u) PROVE ChecksInv'
  <2>1. /\ OthersStay(u) /\ commits' = commits /\ call[u].req.kind = "claim"
        /\ \/ rows' = rows \ Open(u) /\ call'[u].pc = "idle"
           \/ /\ rows' = rows /\ call'[u].req = call[u].req
              /\ Formal(call[u].req) =>
                    SamePeriodClaims(Visible(u), call[u].req.start, call[u].req.end) = {}
    BY <1>i, <1>3, ReuseStep
  <2>2. CASE rows' = rows \ Open(u) /\ call'[u].pc = "idle"
    BY <2>1, <2>2, ChecksRowsBack DEF RowsBack
  <2>3. CASE /\ rows' = rows /\ call'[u].req = call[u].req
             /\ Formal(call[u].req) =>
                    SamePeriodClaims(Visible(u), call[u].req.start, call[u].req.end) = {}
    <3>1. Committed' = Committed
      BY <2>3 DEF Committed
    <3>2. (\A r \in rows' : ReviewIsPassed(r)) /\ ClaimsAreOrdered'
      BY <2>3, <3>1, RowsAreChecked
    <3>3. Committed \subseteq Visible(u)
      BY VisibleRows
    <3>4. Formal(call[u].req) =>
            SamePeriodClaims(Committed, call[u].req.start, call[u].req.end) = {}
      BY <2>3, <3>3 DEF SamePeriodClaims, Claims
    <3>5. SessionIsChecked(u)'
      BY <2>1, <2>3, <3>1, <3>4 DEF SessionIsChecked, ReviewIsChecked, ClaimIsChecked
    <3>6. ASSUME NEW v \in Users, v # u PROVE SessionIsChecked(v)'
      BY <2>1, <3>1, <3>6, OthersAreChecked DEF ChecksInv, OthersStay
    <3> QED
      BY <3>2, <3>5, <3>6 DEF ChecksInv
  <2> QED
    BY <2>1, <2>2, <2>3
<1>4. ASSUME NEW u \in Users, Write(u) PROVE ChecksInv'
  <2>0. PICK w : w = Current(u)
    OBVIOUS
  <2>1. /\ OthersStay(u) /\ commits' = commits
        /\ call[u].pc = "write" /\ \A v \in Users : ~WaitsFor(u, v)
        /\ \/ rows' = rows \ Open(u) /\ call'[u].pc = "idle"
           \/ Have(u, w) = {} /\ rows' = rows \cup {Inserted(u, w)} /\ Proceeds(u)
           \/ rows' = rows /\ Proceeds(u)
    BY <1>i, <1>4, <2>0, WriteStep
  <2>2. CASE rows' = rows \ Open(u) /\ call'[u].pc = "idle"
    BY <2>1, <2>2, ChecksRowsBack DEF RowsBack
  <2>3. Proceeds(u) => call'[u].req = call[u].req /\ call'[u].checked = call[u].checked
    BY DEF Proceeds
  <2>4. CASE Have(u, w) = {} /\ rows' = rows \cup {Inserted(u, w)} /\ Proceeds(u)
    <3>1. RowInserted(u, w)
      BY <2>0, <2>1, <2>4, RowIsNew DEF RowInserted, RowsInv
    <3>2. Committed' = Committed
      BY <3>1, AfterRowInserted
    <3>3. (\A r \in rows' : ReviewIsPassed(r)) /\ ClaimsAreOrdered'
      BY <2>0, <2>1, <3>1, InsertIsChecked
    <3>4. SessionIsChecked(u)'
      BY <2>1, <2>3, <2>4, <3>2
      DEF ChecksInv, SessionIsChecked, ReviewIsChecked, ClaimIsChecked
    <3>5. ASSUME NEW v \in Users, v # u PROVE SessionIsChecked(v)'
      BY <2>1, <3>2, <3>5, OthersAreChecked DEF ChecksInv, OthersStay
    <3> QED
      BY <3>3, <3>4, <3>5 DEF ChecksInv
  <2>5. CASE rows' = rows /\ Proceeds(u)
    <3>1. Committed' = Committed
      BY <2>5 DEF Committed
    <3> QED
      BY <2>1, <2>3, <2>5, <3>1, ChecksStay
  <2> QED
    BY <2>1, <2>2, <2>4, <2>5
<1>5. ASSUME NEW u \in Users, Deadlock(u) PROVE ChecksInv'
  BY <1>i, <1>5, DeadlockStep, ChecksRowsBack DEF RowsBack
<1>6. ASSUME NEW u \in Users, Commit(u) PROVE ChecksInv'
  <2>1. OthersStay(u) /\ call'[u].pc = "idle" /\ RowsCommitted(u, Open(u), {})
    BY <1>i, <1>6, CommitStep DEF RowsCommitted
  <2> QED
    BY <2>1, ChecksRowsCommitted
<1>7. ASSUME NEW u \in Users, Abort(u) PROVE ChecksInv'
  BY <1>i, <1>7, AbortStep, ChecksRowsBack DEF RowsBack
<1>8. ASSUME NEW u \in Users, Load(u) PROVE ChecksInv'
  <2>1. OthersStay(u) /\ RowsStay /\ call'[u].pc # "write"
    BY <1>8, LoadStep
  <2> QED
    BY <2>1, ChecksRowsStay
<1>9. ASSUME NEW u \in Users, LoadNext(u) PROVE ChecksInv'
  <2>1. OthersStay(u) /\ RowsStay /\ call'[u].pc # "write"
    BY <1>9, LoadNextStep
  <2> QED
    BY <2>1, ChecksRowsStay
<1>10. ASSUME NEW u \in Users, Restore(u) PROVE ChecksInv'
  <2>1. /\ OthersStay(u) /\ commits' = commits /\ call'[u].pc # "write"
        /\ rows' = rows \ Open(u) \/ rows' = rows
    BY <1>i, <1>10, RestoreStep
  <2> QED
    BY <2>1, ChecksRowsBack, ChecksRowsStay DEF RowsBack, RowsStay
<1>11. ASSUME NEW u \in Users, Collect(u) PROVE ChecksInv'
  <2>1. OthersStay(u) /\ RowsStay /\ call'[u].req.kind = "collect"
    BY <1>11, CollectStep
  <2> QED
    BY <2>1, ChecksRowsStay
<1>12. ASSUME NEW u \in Users, CollectFails(u) PROVE ChecksInv'
  <2>1. OthersStay(u) /\ RowsStay /\ call'[u].pc = "failed"
    BY <1>12, CollectFailsStep
  <2> QED
    BY <2>1, ChecksRowsStay
<1>13. ASSUME NEW u \in Users, RecordResult(u) PROVE ChecksInv'
  <2>1. PICK report : /\ OthersStay(u) /\ commits' = commits + 1 /\ call'[u].pc = "idle"
                      /\ rows' = (rows \ Open(u)) \cup {Stamp(r, commits + 1) : r \in Open(u)}
                                    \cup {Reporting(u, report)}
    BY <1>i, <1>13, RecordResultStep
  <2>2. RowsCommitted(u, Open(u), {Reporting(u, report)})
    BY <2>1, ReportIsOne
  <2> QED
    BY <2>1, <2>2, ChecksRowsCommitted
<1>14. ASSUME NEW u \in Users, RecordFailure(u) PROVE ChecksInv'
  <2>1. /\ OthersStay(u) /\ commits' = commits + 1 /\ call'[u].pc = "idle"
        /\ rows' = (rows \ Open(u)) \cup {Reporting(u, FailureOf(call[u].req))}
    BY <1>i, <1>14, RecordFailureStep
  <2>2. RowsCommitted(u, {}, {Reporting(u, FailureOf(call[u].req))})
    BY <2>1 DEF RowsCommitted, Reporting
  <2> QED
    BY <2>1, <2>2, ChecksRowsCommitted
<1>15. CASE UNCHANGED vars \/ SaveVersion \/ NewPrices
  <2>1. rows' = rows /\ call' = call
    BY <1>15, OtherStep
  <2>2. Committed' = Committed
    BY <2>1 DEF Committed
  <2>3. (\A r \in rows' : ReviewIsPassed(r)) /\ ClaimsAreOrdered'
    BY <2>1, <2>2, RowsAreChecked
  <2>4. \A v \in Users : SessionIsChecked(v)'
    BY <2>1, <2>2, OthersAreChecked DEF ChecksInv
  <2> QED
    BY <2>3, <2>4 DEF ChecksInv
<1> QED
  BY <1>1, <1>2, <1>3, <1>4, <1>5, <1>6, <1>7, <1>8, <1>9, <1>10, <1>11, <1>12,
     <1>13, <1>14, <1>15 DEF Next

THEOREM ChecksInvariance == Spec => []ChecksInv
<1>1. Init => ChecksInv
  <2> SUFFICES ASSUME Init PROVE ChecksInv
    OBVIOUS
  <2>1. \A r \in rows : r.table \in {"asset_analysis_runs", "asset_analysis_results"}
    BY AtFirst
  <2>2. \A u \in Users : call[u].pc = "idle"
    BY DEF Init, Idle
  <2> QED
    BY <2>1, <2>2 DEF ChecksInv, ReviewIsPassed, ClaimsAreOrdered, SameFormalPeriod,
       SessionIsChecked, ReviewIsChecked, ClaimIsChecked
<1>2. TypeOK /\ TypeOK' /\ RowsInv /\ ChecksInv /\ [Next]_vars => ChecksInv'
  BY ChecksStep
<1> QED
  BY <1>1, <1>2, Invariance, PTL DEF Spec

\* Only before the first claim is committed can a second formal one of its
\* period be made: its check comes before that commit.
THEOREM FormalReuse == Spec => []FormalReuseNeedsARace
<1>1. ChecksInv => FormalReuseNeedsARace
  <2> SUFFICES ASSUME ChecksInv, NEW r \in Claims(Committed), r.content.formal,
                      NEW s \in FormalClaims(r.content.start, r.content.end), s # r
               PROVE  r.checked < s.commit
    BY DEF FormalReuseNeedsARace
  <2>1. r \in rows /\ s \in Committed /\ SameFormalPeriod(r, s)
    BY DEF Claims, FormalClaims, SamePeriodClaims, Committed, SameFormalPeriod
  <2> QED
    BY <2>1 DEF ChecksInv, ClaimsAreOrdered
<1> QED
  BY <1>1, ChecksInvariance, PTL

\* What passes the checks has nothing from later.
LEMMA ReviewableIsPast ==
    ASSUME NEW in, Reviewable(in), TimesAreNumbers(in)
    PROVE  NothingFromLater(in)
<1>1. WellFormed(in) /\ KnownAtReview(in)
  BY DEF Reviewable
<1>2. in.decision.dataAsOf <= in.decision.at /\ in.decision.available <= in.decision.at
  BY <1>1 DEF WellFormed, IsDecision
<1>3. /\ in.decision.at <= OutcomeAt(in.outcome) /\ in.outcome.available <= in.at
      /\ in.benchmark # None => in.benchmark.available <= in.at
      /\ \A f \in in.factors : f.available <= in.at
  <2>1. /\ OutcomeAt(in.outcome) >= in.decision.at /\ in.outcome.available <= in.at
        /\ in.benchmark # None => in.benchmark.available <= in.at
        /\ \A f \in in.factors : f.available <= in.at
    BY <1>1 DEF KnownAtReview
  <2>2. OutcomeAt(in.outcome) \in Int /\ in.decision.at \in Int
    BY DEF TimesAreNumbers
  <2> QED
    BY <2>1, <2>2
<1>4. OutcomeAt(in.outcome) <= in.outcome.available
  BY <1>1 DEF WellFormed, IsTrade, IsNonExecution, OutcomeAt
<1>5. OutcomeAt(in.outcome) <= in.at
  <2>1. {OutcomeAt(in.outcome), in.outcome.available, in.at} \subseteq Int
    BY DEF TimesAreNumbers
  <2> QED
    BY <1>3, <1>4, <2>1
<1>6. in.benchmark # None => in.benchmark.end <= in.at
  <2> SUFFICES ASSUME in.benchmark # None PROVE in.benchmark.end <= in.at
    OBVIOUS
  <2>1. in.benchmark.end <= in.benchmark.available
    BY <1>1 DEF WellFormed, IsBenchmark
  <2>2. {in.benchmark.end, in.benchmark.available, in.at} \subseteq Int
    BY DEF TimesAreNumbers
  <2> QED
    BY <1>3, <2>1, <2>2
<1> QED
  BY <1>2, <1>3, <1>5, <1>6 DEF NothingFromLater

\* A trade that passes them was made after the decision, is valued at prices
\* that were known and has the profit that was reported.
LEMMA ReviewableTradeAddsUp ==
    ASSUME NEW in, Reviewable(in), in.outcome.type = "trade"
    PROVE  TradeAddsUp(in.outcome, in, Review(in))
<1>1. TradeReviewable(in)
  BY DEF Reviewable
<1>2. Review(in).net = NetPnl(in.decision, in.outcome)
  BY DEF Review, TradeReview
<1> QED
  BY <1>1, <1>2 DEF TradeReviewable, TradeAddsUp

\* A stored review knows nothing that came after it, the prices of the trade
\* included, and counts for the performance only if it is of a trade that was
\* made after the decision and whose profit adds up.
THEOREM NoHindsight == Spec => []ReviewsUseNoHindsight
<1>1. ChecksInv => ReviewsUseNoHindsight
  <2> SUFFICES ASSUME ChecksInv, NEW r \in Committed, r.table = "simulation_reviews"
               PROVE  /\ NothingFromLater(r.content.in)
                      /\ r.content.out.included <=> r.content.in.outcome.type = "trade"
                      /\ r.content.out.included =>
                            TradeAddsUp(r.content.in.outcome, r.content.in, r.content.out)
    BY DEF ReviewsUseNoHindsight
  <2>1. PICK in : in = r.content.in
    OBVIOUS
  <2>2. ReviewIsPassed(r)
    BY DEF ChecksInv, Committed
  <2>3. /\ Reviewable(in) /\ r.content.out = Review(in)
        /\ \E req \in Requests : req.kind = "review" /\ req.input = in
    BY <2>1, <2>2 DEF ReviewIsPassed
  <2>4. NothingFromLater(in)
    BY <2>3, RequestsAssumption, ReviewableIsPast
  <2>5. Review(in).included <=> in.outcome.type = "trade"
    BY DEF Review, TradeReview, NonExecutionReview
  <2>6. in.outcome.type = "trade" => TradeAddsUp(in.outcome, in, Review(in))
    BY <2>3, ReviewableTradeAddsUp
  <2> QED
    BY <2>1, <2>3, <2>4, <2>5, <2>6
<1> QED
  BY <1>1, ChecksInvariance, PTL

-----------------------------------------------------------------------------
(* What the runs of the collections report. *)

Snapshots(S) == {r \in S : r.table \in SnapshotTables}

LEMMA StoredOnce ==
    ASSUME TypeOK, RowsInv, NEW u \in Users
    PROVE  Cardinality({Stamp(r, commits + 1) : r \in Open(u)}) = Cardinality(Open(u))
<1> DEFINE S == {Stamp(r, commits + 1) : r \in Open(u)}
           f == [r \in Open(u) |-> Stamp(r, commits + 1)]
<1>1. ASSUME NEW r \in Open(u), NEW s \in Open(u),
             Stamp(r, commits + 1) = Stamp(s, commits + 1)
      PROVE  r = s
  <2>1. r \in rows /\ s \in rows /\ IsRow(r, commits) /\ IsRow(s, commits)
    BY DEF Open, TypeOK
  <2>2. commits \in Nat /\ commits + 1 \in Nat /\ commits <= commits + 1
    BY DEF TypeOK
  <2>3. /\ Stamp(r, commits + 1).table = r.table /\ Stamp(r, commits + 1).key = r.key
        /\ Stamp(s, commits + 1).table = s.table /\ Stamp(s, commits + 1).key = s.key
    BY <2>1, <2>2, StampedRow
  <2> QED
    BY <1>1, <2>1, <2>3 DEF RowsInv, KeysAreUnique
<1>2. f \in Bijection(Open(u), S)
  <2>1. f \in [Open(u) -> S]
    OBVIOUS
  <2>2. \A r, s \in Open(u) : f[r] = f[s] => r = s
    BY <1>1
  <2>3. \A x \in S : \E r \in Open(u) : f[r] = x
    OBVIOUS
  <2> HIDE DEF f, S
  <2> QED
    BY <2>1, <2>2, <2>3 DEF Bijection, Injection, Surjection, IsInjective
<1>3. IsFiniteSet(Open(u))
  <2>1. Open(u) \subseteq rows
    BY DEF Open
  <2> QED
    BY <2>1, FS_Subset DEF TypeOK
<1> HIDE DEF f, S
<1>4. ExistsBijection(Open(u), S)
  BY <1>2 DEF ExistsBijection
<1>5. Cardinality(Open(u)) = Cardinality(S)
  BY <1>3, <1>4, FS_Bijection
<1> QED
  BY <1>5 DEF S

\* A commit that brings snapshots brings the one run that counts them.
LEMMA CountedAfter ==
    ASSUME TypeOK, TypeOK', RowsInv, CollectionsAreCounted, NEW u \in Users, NEW K, NEW J,
           RowsCommitted(u, K, J),
           \A r \in K : r.table \in SnapshotTables =>
                \E j \in J : j.content.status = "success",
           \A j \in J : j.content.stored =
                Cardinality(Snapshots({Stamp(r, commits + 1) : r \in K}))
    PROVE  CollectionsAreCounted'
<1> DEFINE S == {Stamp(r, commits + 1) : r \in K}
<1>1. \A s \in S : s.commit = commits + 1 /\ s.table # "job_runs"
  <2>1. ASSUME NEW r \in K
        PROVE  /\ Stamp(r, commits + 1).table = r.table
               /\ Stamp(r, commits + 1).commit = commits + 1
               /\ r \in rows /\ r.commit = 0
    <3>1. r \in Open(u)
      BY DEF RowsCommitted
    <3> QED
      BY <3>1, AfterRowsCommitted DEF Open
  <2>2. ASSUME NEW r \in K PROVE r.table # "job_runs"
    BY <2>1 DEF RowsInv, KeysAreUnique
  <2> QED
    BY <2>1, <2>2
<1>2. (\E s \in S : s.table \in SnapshotTables) => \E j \in J : j.content.status = "success"
  <2>1. ASSUME NEW r \in K PROVE Stamp(r, commits + 1).table = r.table
    BY AfterRowsCommitted
  <2> QED
    BY <2>1
<1>3. /\ Committed' = Committed \cup S \cup J
      /\ \A j \in J : j.table = "job_runs" /\ j.commit = commits + 1
  BY AfterRowsCommitted DEF RowsCommitted
<1>4. \A j \in J : j.content.stored = Cardinality(Snapshots(S))
  OBVIOUS
<1>5. \A r \in Committed : r.commit # commits + 1
  BY DEF Committed, TypeOK, IsRow
<1>6. "job_runs" \notin SnapshotTables
  BY DEF SnapshotTables
<1> HIDE DEF S
<1>7. ASSUME NEW r \in Committed', r.table \in SnapshotTables
      PROVE  \E j \in Committed' : /\ j.table = "job_runs" /\ j.commit = r.commit
                                   /\ j.content.status = "success"
  <2>1. CASE r \in Committed
    BY <1>3, <1>7, <2>1 DEF CollectionsAreCounted
  <2>2. CASE r \in S
    BY <1>1, <1>2, <1>3, <1>7, <2>2
  <2> QED
    BY <1>3, <1>6, <1>7, <2>1, <2>2
<1>8. ASSUME NEW j \in Committed', j.table = "job_runs"
      PROVE  j.content.stored =
                Cardinality({r \in Committed' : r.table \in SnapshotTables
                                                /\ r.commit = j.commit})
  <2>1. CASE j \in Committed
    <3>1. {r \in Committed' : r.table \in SnapshotTables /\ r.commit = j.commit}
            = {r \in Committed : r.table \in SnapshotTables /\ r.commit = j.commit}
      BY <1>1, <1>3, <1>5, <2>1
    <3> QED
      BY <1>8, <2>1, <3>1 DEF CollectionsAreCounted
  <2>2. CASE j \in J
    <3>1. {r \in Committed' : r.table \in SnapshotTables /\ r.commit = j.commit}
            = Snapshots(S)
      BY <1>1, <1>3, <1>5, <1>6, <2>2 DEF Snapshots
    <3> QED
      BY <1>4, <2>2, <3>1
  <2> QED
    BY <1>1, <1>3, <1>8, <2>1, <2>2
<1> QED
  BY <1>7, <1>8 DEF CollectionsAreCounted

LEMMA CountedStay ==
    ASSUME CollectionsAreCounted, Committed' = Committed
    PROVE  CollectionsAreCounted'
  BY DEF CollectionsAreCounted

LEMMA ResultIsCounted ==
    ASSUME TypeOK, TypeOK', RowsInv, CollectionsAreCounted,
           NEW u \in Users, RecordResult(u)
    PROVE  CollectionsAreCounted'
<1> DEFINE S == {Stamp(r, commits + 1) : r \in Open(u)}
<1>1. PICK req : req = call[u].req
  OBVIOUS
<1>2. PICK report : report = Report(Len(Payload(req)), Cardinality(Open(u)))
  OBVIOUS
<1>3. PICK j : j = Reporting(u, report)
  OBVIOUS
<1>4. /\ commits' = commits + 1 /\ req.kind = "collect" /\ req \in Requests /\ ~Fails(req)
      /\ rows' = (rows \ Open(u)) \cup S \cup {j}
  BY <1>1, <1>2, <1>3, RecordResultStep
<1>5. RowsCommitted(u, Open(u), {j})
  BY <1>3, <1>4 DEF RowsCommitted, Reporting
<1>6. \A r \in Open(u) : r.table \in SnapshotTables /\ Payload(req) # <<>>
  BY <1>1, <1>4 DEF RowsInv, OpenRowsBelong
<1>7. Payload(req) = <<>> <=> Len(Payload(req)) = 0
  BY <1>4, WritesAreList
<1>8. j.content = report
  BY <1>3 DEF Reporting
<1>9. Open(u) # {} => j.content.status = "success"
  BY <1>2, <1>6, <1>7, <1>8 DEF Report
<1>10. j.content.stored = Cardinality(Open(u))
  BY <1>2, <1>8 DEF Report
<1>11. Snapshots(S) = S
  <2>1. \A r \in Open(u) : Stamp(r, commits + 1).table \in SnapshotTables
    BY <1>5, <1>6, AfterRowsCommitted
  <2> QED
    BY <2>1 DEF Snapshots
<1>12. Cardinality(Snapshots(S)) = Cardinality(Open(u))
  BY <1>11, StoredOnce
<1> HIDE DEF S
<1>13. \A i \in {j} : i.content.stored = Cardinality(Snapshots(S))
  BY <1>10, <1>12
<1>14. \A r \in Open(u) : r.table \in SnapshotTables =>
            \E i \in {j} : i.content.status = "success"
  BY <1>9
<1> QED
  BY <1>5, <1>13, <1>14, CountedAfter DEF S

LEMMA CountedStep ==
    ASSUME TypeOK, TypeOK', RowsInv, CollectionsAreCounted, [Next]_vars
    PROVE  CollectionsAreCounted'
<1>1. ASSUME NEW u \in Users, \/ \E req \in Requests : Call(u, req)
                              \/ Load(u) \/ LoadNext(u) \/ Collect(u) \/ CollectFails(u)
      PROVE  CollectionsAreCounted'
  <2>1. RowsStay
    BY <1>1, CallStep, LoadStep, LoadNextStep, CollectStep, CollectFailsStep
  <2>2. Committed' = Committed
    BY <2>1 DEF RowsStay, Committed
  <2> QED
    BY <2>2, CountedStay
<1>2. ASSUME NEW u \in Users,
             Look(u) \/ Reuse(u) \/ Deadlock(u) \/ Abort(u) \/ Restore(u)
      PROVE  CollectionsAreCounted'
  <2>1. commits' = commits /\ (rows' = rows \ Open(u) \/ rows' = rows)
    BY <1>2, LookStep, ReuseStep, DeadlockStep, AbortStep, RestoreStep
  <2>2. Committed' = Committed
    <3>1. CASE rows' = rows
      BY <3>1 DEF Committed
    <3>2. CASE rows' = rows \ Open(u)
      BY <2>1, <3>2, AfterRowsBack DEF RowsBack
    <3> QED
      BY <2>1, <3>1, <3>2
  <2> QED
    BY <2>2, CountedStay
<1>3. ASSUME NEW u \in Users, Write(u) PROVE CollectionsAreCounted'
  <2>0. PICK w : w = Current(u)
    OBVIOUS
  <2>1. /\ commits' = commits /\ call[u].pc = "write" /\ \A v \in Users : ~WaitsFor(u, v)
        /\ \/ rows' = rows \ Open(u)
           \/ Have(u, w) = {} /\ rows' = rows \cup {Inserted(u, w)}
           \/ rows' = rows
    BY <1>3, <2>0, WriteStep
  <2>2. Committed' = Committed
    <3>1. CASE rows' = rows
      BY <3>1 DEF Committed
    <3>2. CASE rows' = rows \ Open(u)
      BY <2>1, <3>2, AfterRowsBack DEF RowsBack
    <3>3. CASE Have(u, w) = {} /\ rows' = rows \cup {Inserted(u, w)}
      <4>1. RowInserted(u, w)
        BY <2>0, <2>1, <3>3, RowIsNew DEF RowInserted, RowsInv
      <4> QED
        BY <4>1, AfterRowInserted
    <3> QED
      BY <2>1, <3>1, <3>2, <3>3
  <2> QED
    BY <2>2, CountedStay
<1>4. ASSUME NEW u \in Users, Commit(u) PROVE CollectionsAreCounted'
  <2>1. call[u].pc = "answered" /\ RowsCommitted(u, Open(u), {})
    BY <1>4, CommitStep DEF RowsCommitted
  <2>2. call[u].req.kind # "collect"
    BY <2>1, CallsAre DEF CallIsAt
  <2>3. \A r \in Open(u) : r.table \notin SnapshotTables
    BY <2>2 DEF RowsInv, OpenRowsBelong
  <2> QED
    BY <2>1, <2>3, CountedAfter
<1>5. ASSUME NEW u \in Users, RecordResult(u) PROVE CollectionsAreCounted'
  BY <1>5, ResultIsCounted
<1>6. ASSUME NEW u \in Users, RecordFailure(u) PROVE CollectionsAreCounted'
  <2>1. PICK j : j = Reporting(u, FailureOf(call[u].req))
    OBVIOUS
  <2>2. RowsCommitted(u, {}, {j})
    BY <1>6, <2>1, RecordFailureStep DEF RowsCommitted, Reporting
  <2>3. j.content.stored = 0
    BY <2>1 DEF Reporting, FailureOf, FailureReport
  <2>4. {Stamp(r, commits + 1) : r \in {}} = {}
    OBVIOUS
  <2>5. Snapshots({Stamp(r, commits + 1) : r \in {}}) = {}
    BY <2>4 DEF Snapshots
  <2>6. Cardinality(Snapshots({Stamp(r, commits + 1) : r \in {}})) = 0
    BY <2>5, FS_EmptySet
  <2>7. \A i \in {j} : i.content.stored =
                Cardinality(Snapshots({Stamp(r, commits + 1) : r \in {}}))
    BY <2>3, <2>6
  <2> QED
    BY <2>2, <2>7, CountedAfter
<1>7. CASE UNCHANGED vars \/ SaveVersion \/ NewPrices
  <2>1. Committed' = Committed
    BY <1>7, OtherStep DEF Committed
  <2> QED
    BY <2>1, CountedStay
<1> QED
  BY <1>1, <1>2, <1>3, <1>4, <1>5, <1>6, <1>7 DEF Next

\* Every stored snapshot came with a run that reports it, and every run reports
\* as many as its transaction stored (_record_result, _record_failure).
THEOREM CollectionsCounted == Spec => []CollectionsAreCounted
<1>1. Init => CollectionsAreCounted
  <2> SUFFICES ASSUME Init PROVE CollectionsAreCounted
    OBVIOUS
  <2>1. \A r \in Committed : r.table \in {"asset_analysis_runs", "asset_analysis_results"}
    BY AtFirst DEF Committed
  <2> QED
    BY <2>1 DEF CollectionsAreCounted, SnapshotTables
<1>2. TypeOK /\ TypeOK' /\ RowsInv /\ CollectionsAreCounted /\ [Next]_vars
        => CollectionsAreCounted'
  BY CountedStep
<1> QED
  BY <1>1, <1>2, Invariance, PTL DEF Spec

-----------------------------------------------------------------------------
(* The excursions of a trade.                                              *)

\* A nonempty set of numbers has a least one.
LEMMA LeastOfSet ==
    ASSUME NEW T, T \subseteq Nat, T # {}
    PROVE  \E x \in T : \A y \in T : x <= y
<1> DEFINE Less == OpToRel(<, Nat)
<1>1. Less = {p \in Nat \X Nat : p[1] < p[2]}
  BY Zenon DEF OpToRel
<1>2. IsWellFoundedOn(Less, Nat)
  BY NatLessThanWellFounded, Zenon
<1> HIDE DEF Less
<1>3. PICK x \in T : \A y \in T : ~(<<y, x>> \in Less)
  BY <1>2, WFMin, Zenon
<1>4. ASSUME NEW y \in T PROVE x <= y
  <2>1. x \in Nat /\ y \in Nat /\ <<y, x>> \notin Less
    BY <1>3
  <2>2. ~(<<y, x>>[1] < <<y, x>>[2])
    BY <1>1, <2>1, Zenon
  <2> QED
    BY <2>1, <2>2
<1> QED
  BY <1>4

\* Some places of a list, in any total order: one of them comes first.
LEMMA FirstAmong ==
    ASSUME NEW n \in Nat, NEW K \in SUBSET (1..n), K # {}, NEW R,
           \A i, j \in K : <<i, j>> \in R \/ <<j, i>> \in R,
           \A i, j, k \in K : <<i, j>> \in R /\ <<j, k>> \in R => <<i, k>> \in R
    PROVE  \E k \in K : \A j \in K : <<k, j>> \in R
<1> DEFINE HasFirst(m) == \E k \in K \cap 1..m : \A j \in K \cap 1..m : <<k, j>> \in R
           T == {m \in 0..n : K \cap 1..m # {} /\ ~HasFirst(m)}
<1>1. SUFFICES ASSUME T # {} PROVE FALSE
  <2>1. K \cap 1..n = K
    BY Zenon
  <2>2. n \in 0..n
    BY ONLY n \in Nat
  <2>3. n \notin T
    BY <1>1
  <2> QED
    BY <2>1, <2>2, <2>3
<1>2. T \subseteq Nat
  OBVIOUS
<1>3. PICK m \in T : \A y \in T : m <= y
  BY <1>1, <1>2, LeastOfSet
<1>4. m \in 1..n
  <2>1. m \in 0..n /\ 1..m # {}
    BY <1>3
  <2> QED
    BY ONLY <2>1, n \in Nat
<1>5. m - 1 \in 0..n /\ m - 1 \notin T
  <2>1. m - 1 \in 0..n /\ m - 1 \in Nat /\ m \in Nat /\ ~(m <= m - 1)
    BY ONLY <1>4, n \in Nat
  <2> HIDE DEF T
  <2> QED
    BY <1>3, <2>1
<1>6. 1..m = (1..(m - 1)) \cup {m}
  BY ONLY <1>4, n \in Nat
<1>7. CASE m \notin K
  <2>1. K \cap 1..m = K \cap 1..(m - 1)
    BY <1>6, <1>7
  <2> QED
    BY <1>3, <1>5, <2>1
<1>8. CASE m \in K /\ K \cap 1..(m - 1) = {}
  <2>1. K \cap 1..m = {m}
    BY <1>6, <1>8
  <2>2. <<m, m>> \in R
    BY <1>8
  <2> QED
    BY <1>3, <2>1, <2>2
<1>9. CASE m \in K /\ K \cap 1..(m - 1) # {}
  <2>1. HasFirst(m - 1)
    BY <1>5, <1>9
  <2>2. PICK k \in K \cap 1..(m - 1) : \A j \in K \cap 1..(m - 1) : <<k, j>> \in R
    BY <2>1
  <2>3. k \in K \cap 1..m /\ m \in K \cap 1..m
    BY <1>4, <1>6, <1>9
  <2>4. CASE <<k, m>> \in R
    BY <1>3, <1>6, <2>2, <2>3, <2>4
  <2>5. CASE <<m, k>> \in R
    <3>1. ASSUME NEW j \in K \cap 1..m PROVE <<m, j>> \in R
      <4>1. CASE j = m
        BY <1>9, <2>5, <2>3, <4>1
      <4>2. CASE j # m
        BY <1>6, <1>9, <2>2, <2>3, <2>5, <4>2
      <4> QED
        BY <4>1, <4>2
    <3> QED
      BY <1>3, <2>3, <3>1
  <2> QED
    BY <2>3, <2>4, <2>5
<1> QED
  BY <1>7, <1>8, <1>9

\* Some values of a list of numbers have the extremes that Max and Min name.
LEMMA Extremes ==
    ASSUME NEW n \in Nat, NEW w, \A k \in 1..n : w[k] \in Int,
           NEW S, S # {}, S \subseteq {w[k] : k \in 1..n}
    PROVE  /\ Max(S) \in S /\ \A x \in S : x <= Max(S)
           /\ Min(S) \in S /\ \A x \in S : Min(S) <= x
           /\ S \subseteq Int
<1> DEFINE K == {k \in 1..n : w[k] \in S}
           Up == {p \in K \X K : w[p[1]] >= w[p[2]]}
           Down == {p \in K \X K : w[p[1]] <= w[p[2]]}
<1>1. K \in SUBSET (1..n) /\ K # {} /\ \A x \in S : \E k \in K : x = w[k]
  OBVIOUS
<1>2. \A k \in K : w[k] \in Int /\ w[k] \in S
  OBVIOUS
<1>3. \A i, j \in K : /\ <<i, j>> \in Up <=> w[i] >= w[j]
                      /\ <<i, j>> \in Down <=> w[i] <= w[j]
  OBVIOUS
<1> HIDE DEF K, Up, Down
<1>4. \E k \in K : \A j \in K : <<k, j>> \in Up
  <2>1. ASSUME NEW i \in K, NEW j \in K PROVE <<i, j>> \in Up \/ <<j, i>> \in Up
    <3>1. w[i] \in Int /\ w[j] \in Int
      BY <1>2
    <3>2. w[i] >= w[j] \/ w[j] >= w[i]
      BY ONLY <3>1
    <3> QED
      BY <1>3, <3>2
  <2>2. ASSUME NEW i \in K, NEW j \in K, NEW k \in K, <<i, j>> \in Up, <<j, k>> \in Up
        PROVE  <<i, k>> \in Up
    <3>1. w[i] \in Int /\ w[j] \in Int /\ w[k] \in Int
      BY <1>2
    <3>2. w[i] >= w[j] /\ w[j] >= w[k]
      BY <1>3, <2>2
    <3>3. w[i] >= w[k]
      BY ONLY <3>1, <3>2
    <3> QED
      BY <1>3, <3>3
  <2> QED
    BY <1>1, <2>1, <2>2, FirstAmong, Zenon
<1>5. \E k \in K : \A j \in K : <<k, j>> \in Down
  <2>1. ASSUME NEW i \in K, NEW j \in K PROVE <<i, j>> \in Down \/ <<j, i>> \in Down
    <3>1. w[i] \in Int /\ w[j] \in Int
      BY <1>2
    <3>2. w[i] <= w[j] \/ w[j] <= w[i]
      BY ONLY <3>1
    <3> QED
      BY <1>3, <3>2
  <2>2. ASSUME NEW i \in K, NEW j \in K, NEW k \in K, <<i, j>> \in Down, <<j, k>> \in Down
        PROVE  <<i, k>> \in Down
    <3>1. w[i] \in Int /\ w[j] \in Int /\ w[k] \in Int
      BY <1>2
    <3>2. w[i] <= w[j] /\ w[j] <= w[k]
      BY <1>3, <2>2
    <3>3. w[i] <= w[k]
      BY ONLY <3>1, <3>2
    <3> QED
      BY <1>3, <3>3
  <2> QED
    BY <1>1, <2>1, <2>2, FirstAmong, Zenon
<1>6. S \subseteq Int
  BY <1>1, <1>2
<1>7. \E x \in S : \A y \in S : x >= y
  <2>1. PICK k \in K : \A j \in K : <<k, j>> \in Up
    BY <1>4
  <2>2. \A j \in K : w[k] >= w[j]
    BY <1>3, <2>1
  <2> QED
    BY <1>1, <1>2, <2>1, <2>2
<1>8. \E x \in S : \A y \in S : x <= y
  <2>1. PICK k \in K : \A j \in K : <<k, j>> \in Down
    BY <1>5
  <2>2. \A j \in K : w[k] <= w[j]
    BY <1>3, <2>1
  <2> QED
    BY <1>1, <1>2, <2>1, <2>2
<1>9. Max(S) \in S /\ \A y \in S : Max(S) >= y
  BY <1>7 DEF Max
<1>10. Min(S) \in S /\ \A y \in S : Min(S) <= y
  BY <1>8 DEF Min
<1> QED
  BY <1>6, <1>9, <1>10

\* Fractions with positive denominators are ordered.
LEMMA BelowIsOrder ==
    ASSUME NEW a, NEW b, NEW c, {a.num, b.num, c.num, a.den, b.den, c.den} \subseteq Int,
           a.den > 0, b.den > 0, c.den > 0
    PROVE  /\ Below(a, b) \/ Below(b, a)
           /\ Below(a, b) /\ Below(b, c) => Below(a, c)
<1>1. PICK an \in Int, bn \in Int, cn \in Int, ad \in Int, bd \in Int, cd \in Int :
          /\ an = a.num /\ bn = b.num /\ cn = c.num
          /\ ad = a.den /\ bd = b.den /\ cd = c.den
  OBVIOUS
<1>2. ad > 0 /\ bd > 0 /\ cd > 0
  BY <1>1
<1>3. an * bd <= bn * ad \/ bn * ad <= an * bd
  <2>1. an * bd \in Int /\ bn * ad \in Int
    BY <1>1
  <2> QED
    BY <2>1
<1>4. ASSUME an * bd <= bn * ad, bn * cd <= cn * bd PROVE an * cd <= cn * ad
  <2>1. (an * bd) * cd <= (bn * ad) * cd
    BY ONLY <1>2, <1>4, an \in Int, bn \in Int, ad \in Int, bd \in Int, cd \in Int
  <2>2. (bn * cd) * ad <= (cn * bd) * ad
    BY ONLY <1>2, <1>4, bn \in Int, cn \in Int, ad \in Int, bd \in Int, cd \in Int
  <2>3. (an * cd) * bd <= (cn * ad) * bd
    BY ONLY <2>1, <2>2, an \in Int, bn \in Int, cn \in Int, ad \in Int, bd \in Int, cd \in Int
  <2>4. PICK x \in Int, y \in Int : x = an * cd /\ y = cn * ad
    BY <1>1
  <2>5. x * bd <= y * bd
    BY <2>3, <2>4
  <2>6. x <= y
    BY ONLY <1>2, <2>5, x \in Int, y \in Int, bd \in Int
  <2> QED
    BY <2>4, <2>6
<1> QED
  BY <1>1, <1>3, <1>4 DEF Below

\* What is worth v after a peak has fallen at least as far as from any lower
\* peak; what is worth less than nothing has fallen by more than everything.
LEMMA FallsFromPeaks ==
    ASSUME NEW f, f.num \in Int, f.den \in Int, f.den > 0,
           NEW v \in Int, NEW peak \in Int, Below(f, [num |-> v - peak, den |-> peak]),
           NEW c \in Int, c > 0, c <= peak, NEW x \in Int, v - c <= x
    PROVE  IF v >= 0 THEN Below(f, [num |-> x, den |-> c]) ELSE f.num < -f.den
<1>1. PICK n \in Int, d \in Int : n = f.num /\ d = f.den /\ d > 0
  OBVIOUS
<1>2. n * peak <= (v - peak) * d
  BY <1>1 DEF Below
<1>3. PICK s \in Int : s = n + d
  OBVIOUS
<1>4. s * peak <= v * d
  BY ONLY <1>2, <1>3, n \in Int, d \in Int, v \in Int, peak \in Int, s \in Int
<1>5. CASE v >= 0
  <2>1. v * d >= 0 /\ v * d \in Int
    BY ONLY <1>1, <1>5, v \in Int, d \in Int, d > 0
  <2>2. s * c <= v * d
    <3>1. CASE s >= 0
      <4>1. s * c <= s * peak
        BY ONLY <3>1, s \in Int, c \in Int, peak \in Int, c <= peak
      <4>2. s * c \in Int /\ s * peak \in Int
        BY ONLY s \in Int, c \in Int, peak \in Int
      <4> QED
        BY ONLY <1>4, <2>1, <4>1, <4>2
    <3>2. CASE s < 0
      <4>1. s * c <= 0 /\ s * c \in Int
        BY ONLY <3>2, s \in Int, c \in Int, c > 0
      <4> QED
        BY ONLY <2>1, <4>1
    <3> QED
      BY <3>1, <3>2
  <2>3. n * c <= (v - c) * d
    BY ONLY <1>3, <2>2, n \in Int, d \in Int, v \in Int, c \in Int, s \in Int
  <2>4. (v - c) * d <= x * d
    BY ONLY <1>1, d \in Int, v \in Int, c \in Int, x \in Int, v - c <= x
  <2>5. n * c <= x * d
    BY ONLY <2>3, <2>4, n \in Int, d \in Int, v \in Int, c \in Int, x \in Int
  <2> QED
    BY <1>1, <1>5, <2>5 DEF Below
<1>6. CASE v < 0
  <2>1. v * d < 0 /\ v * d \in Int
    BY ONLY <1>1, <1>6, v \in Int, d \in Int
  <2>2. s * peak < 0
    BY ONLY <1>4, <2>1, s \in Int, peak \in Int, v \in Int, d \in Int
  <2>3. peak > 0
    BY ONLY c \in Int, peak \in Int, c > 0, c <= peak
  <2>4. s < 0
    BY ONLY <2>2, <2>3, s \in Int, peak \in Int
  <2> QED
    BY <1>1, <1>3, <1>6, <2>4
<1> QED
  BY <1>5, <1>6

\* The falls of a list from its peaks so far: there is a deepest one, and the
\* value at any place has not fallen further from what came before it.
Falls(n, w) ==
    {[num |-> w[p[2]] - w[p[1]], den |-> w[p[1]]] :
        p \in {q \in (1..n) \X (1..n) : /\ q[1] <= q[2]
                                        /\ w[q[1]] = Max({w[k] : k \in 1..q[2]})}}

LEMMA DeepestFall ==
    ASSUME NEW n \in Nat \ {0}, NEW w, \A k \in 1..n : w[k] \in Int, w[1] > 0,
           NEW d, d = CHOOSE f \in Falls(n, w) : \A g \in Falls(n, w) : Below(f, g)
    PROVE  /\ d.num \in Int /\ d.den \in Int /\ d.den > 0
           /\ \A j \in 1..n : \E peak \in Int :
                /\ \A k \in 1..j : w[k] <= peak
                /\ Below(d, [num |-> w[j] - peak, den |-> peak])
<1> DEFINE peak(j) == Max({w[k] : k \in 1..j})
           F == [j \in 1..n |-> [num |-> w[j] - peak(j), den |-> peak(j)]]
           R == {p \in (1..n) \X (1..n) : Below(F[p[1]], F[p[2]])}
<1>1. ASSUME NEW j \in 1..n
      PROVE  /\ peak(j) \in Int /\ peak(j) > 0
             /\ \A k \in 1..j : w[k] <= peak(j)
             /\ \E i \in 1..j : w[i] = peak(j)
  <2> DEFINE S == {w[k] : k \in 1..j}
  <2>1. 1 \in 1..j /\ 1..j \subseteq 1..n
    BY ONLY n \in Nat \ {0}, j \in 1..n
  <2>2. S # {} /\ S \subseteq {w[k] : k \in 1..n}
    BY <2>1
  <2>3. \A k \in 1..j : w[k] \in S
    OBVIOUS
  <2>4. \A x \in S : \E k \in 1..j : x = w[k]
    OBVIOUS
  <2> HIDE DEF S
  <2>5. Max(S) \in S /\ (\A x \in S : x <= Max(S)) /\ S \subseteq Int
    BY <2>2, Extremes
  <2>6. Max(S) \in Int /\ Max(S) > 0
    <3>1. w[1] <= Max(S) /\ Max(S) \in Int
      BY <2>1, <2>3, <2>5
    <3>2. w[1] \in Int
      BY <2>1
    <3> QED
      BY ONLY <3>1, <3>2, w[1] > 0
  <2>7. \A k \in 1..j : w[k] <= Max(S)
    BY <2>3, <2>5
  <2>8. \E i \in 1..j : w[i] = Max(S)
    BY <2>4, <2>5
  <2> QED
    BY <2>6, <2>7, <2>8 DEF S
<1> HIDE DEF peak
<1>2. \A j \in 1..n : /\ F[j] = [num |-> w[j] - peak(j), den |-> peak(j)]
                      /\ F[j].num \in Int /\ F[j].den \in Int /\ F[j].den > 0
  BY <1>1
<1>3. ASSUME NEW j \in 1..n PROVE F[j] \in Falls(n, w)
  <2>1. PICK i \in 1..j : w[i] = peak(j)
    BY <1>1
  <2>2. i \in 1..n /\ i <= j
    BY ONLY n \in Nat, j \in 1..n, i \in 1..j
  <2>3. <<i, j>> \in {q \in (1..n) \X (1..n) : /\ q[1] <= q[2]
                                              /\ w[q[1]] = Max({w[k] : k \in 1..q[2]})}
    BY <2>1, <2>2 DEF peak
  <2>4. F[j] = [num |-> w[<<i, j>>[2]] - w[<<i, j>>[1]], den |-> w[<<i, j>>[1]]]
    BY <1>2, <2>1
  <2> QED
    BY <2>3, <2>4, Zenon DEF Falls
<1>4. ASSUME NEW f \in Falls(n, w) PROVE \E j \in 1..n : f = F[j]
  <2>1. PICK p \in (1..n) \X (1..n) :
            /\ w[p[1]] = Max({w[k] : k \in 1..p[2]})
            /\ f = [num |-> w[p[2]] - w[p[1]], den |-> w[p[1]]]
    BY DEF Falls
  <2>2. p[2] \in 1..n /\ w[p[1]] = peak(p[2])
    BY <2>1 DEF peak
  <2> QED
    BY <1>2, <2>1, <2>2
<1> HIDE DEF F
<1>5. \A i, j \in 1..n : <<i, j>> \in R <=> Below(F[i], F[j])
  OBVIOUS
<1> HIDE DEF R
<1>6. \E k \in 1..n : \A j \in 1..n : <<k, j>> \in R
  <2>1. ASSUME NEW i \in 1..n, NEW j \in 1..n PROVE <<i, j>> \in R \/ <<j, i>> \in R
    <3>1. PICK a, b : a = F[i] /\ b = F[j]
      OBVIOUS
    <3>2. {a.num, b.num, a.den, b.den} \subseteq Int /\ a.den > 0 /\ b.den > 0
      BY <1>2, <3>1
    <3>3. Below(a, b) \/ Below(b, a)
      BY ONLY <3>2, BelowIsOrder
    <3> QED
      BY <1>5, <3>1, <3>3
  <2>2. ASSUME NEW i \in 1..n, NEW j \in 1..n, NEW k \in 1..n,
               <<i, j>> \in R, <<j, k>> \in R
        PROVE  <<i, k>> \in R
    <3>1. Below(F[i], F[j]) /\ Below(F[j], F[k])
      BY <1>5, <2>2
    <3>2. PICK a, b, c : a = F[i] /\ b = F[j] /\ c = F[k]
      OBVIOUS
    <3>3. /\ {a.num, b.num, c.num, a.den, b.den, c.den} \subseteq Int
          /\ a.den > 0 /\ b.den > 0 /\ c.den > 0
      BY <1>2, <3>2
    <3>4. Below(F[i], F[k])
      BY ONLY <3>1, <3>2, <3>3, BelowIsOrder
    <3> QED
      BY <1>5, <3>4
  <2>3. 1..n # {} /\ 1..n \in SUBSET (1..n)
    BY ONLY n \in Nat \ {0}
  <2> QED
    BY <2>1, <2>2, <2>3, FirstAmong
<1>7. \E f \in Falls(n, w) : \A g \in Falls(n, w) : Below(f, g)
  <2>1. PICK k \in 1..n : \A j \in 1..n : <<k, j>> \in R
    BY <1>6
  <2>2. ASSUME NEW g \in Falls(n, w) PROVE Below(F[k], g)
    BY <1>4, <1>5, <2>1
  <2> QED
    BY <1>3, <2>2
<1>8. d \in Falls(n, w) /\ \A g \in Falls(n, w) : Below(d, g)
  BY <1>7
<1>9. d.num \in Int /\ d.den \in Int /\ d.den > 0
  BY <1>2, <1>4, <1>8
<1>10. ASSUME NEW j \in 1..n
       PROVE  \E m \in Int : /\ \A k \in 1..j : w[k] <= m
                             /\ Below(d, [num |-> w[j] - m, den |-> m])
  <2>1. Below(d, [num |-> w[j] - peak(j), den |-> peak(j)])
    BY <1>2, <1>3, <1>8
  <2> QED
    BY <1>1, <2>1
<1> QED
  BY <1>9, <1>10

\* A trade with numbers that are positive, as IsTrade demands.
IsPositive(t) ==
    /\ {t.entry, t.entryFx, t.exit, t.exitFx, t.quantity} \subseteq Nat \ {0}
    /\ t.path \in Seq({t.path[i] : i \in DOMAIN t.path})
    /\ \A i \in DOMAIN t.path :
        {t.path[i].low, t.path[i].close, t.path[i].high, t.path[i].fx} \subseteq Nat \ {0}

LEMMA TradesArePositive ==
    ASSUME NEW t, IsTrade(t), PricesAreNumbers(t)
    PROVE  IsPositive(t)
<1>1. t.path \in Seq({t.path[i] : i \in DOMAIN t.path})
  BY Zenon DEF PricesAreNumbers, Range
<1>2. {t.entry, t.entryFx, t.exit, t.exitFx, t.quantity} \subseteq Nat \ {0}
  <2>1. \A n \in {t.entry, t.entryFx, t.exit, t.exitFx, t.quantity} : n \in Int /\ 0 < n
    BY DEF PricesAreNumbers, IsTrade
  <2> QED
    BY <2>1
<1>3. ASSUME NEW i \in DOMAIN t.path
      PROVE  {t.path[i].low, t.path[i].close, t.path[i].high, t.path[i].fx} \subseteq Nat \ {0}
  <2>1. PICK o : o = t.path[i] /\ o \in Range(t.path)
    BY Zenon DEF Range
  <2>2. {o.low, o.close, o.high, o.fx} \subseteq Int
    BY <2>1, Zenon DEF PricesAreNumbers
  <2>3. IsObservation(o)
    BY <2>1, Zenon DEF IsTrade
  <2>4. 0 < o.low /\ o.low <= o.close /\ o.close <= o.high /\ 0 < o.fx
    BY <2>3 DEF IsObservation
  <2> QED
    BY <2>1, <2>2, <2>4
<1> QED
  BY <1>1, <1>2, <1>3 DEF IsPositive

Wealth(side, t, unit) == EntryUnit(t) + Gain(side, t, unit)

\* Products of positive numbers.
LEMMA Products ==
    ASSUME NEW a \in Nat \ {0}, NEW b \in Nat \ {0}
    PROVE  a * b \in Nat \ {0}
  OBVIOUS

\* The prices of a trade, in the order in which the drawdown sees them.
UnitsAreAt(side, t, u, n) ==
    /\ n \in Nat /\ DOMAIN t.path = 1..n /\ DOMAIN u = 1..(3 * n + 2)
    /\ EntryUnit(t) \in Nat \ {0} /\ ExitUnit(t) \in Nat \ {0}
    /\ u[1] = EntryUnit(t) /\ u[3 * n + 2] = ExitUnit(t)
    /\ \A i \in 1..n : /\ u[3 * i - 1] = ConservativeOrder(side, t.path[i])[1]
                       /\ u[3 * i] = ConservativeOrder(side, t.path[i])[2]
    /\ \A k \in 1..(3 * n + 2) : u[k] \in Int

LEMMA PlacesOfUnits ==
    ASSUME NEW t, IsPositive(t), NEW side \in {1, -1},
           NEW u, u = OrderedUnits(side, t), NEW n, n = Len(t.path)
    PROVE  UnitsAreAt(side, t, u, n)
<1>1. n \in Nat /\ DOMAIN t.path = 1..n
  BY DEF IsPositive
<1>2. EntryUnit(t) \in Nat \ {0} /\ ExitUnit(t) \in Nat \ {0}
  BY Products DEF IsPositive, EntryUnit, ExitUnit
<1>3. u = [k \in 1..(3 * n + 2) |->
             IF k = 1 THEN EntryUnit(t)
             ELSE IF k = 3 * n + 2 THEN ExitUnit(t)
             ELSE ConservativeOrder(side, t.path[(k + 1) \div 3])[((k + 1) % 3) + 1]]
  BY Zenon DEF OrderedUnits
<1>4. 1 \in 1..(3 * n + 2) /\ 3 * n + 2 \in 1..(3 * n + 2) /\ 3 * n + 2 # 1
  BY ONLY <1>1
<1>5. u[1] = EntryUnit(t) /\ u[3 * n + 2] = ExitUnit(t)
  BY <1>3, <1>4
<1>6. ASSUME NEW i \in 1..n
      PROVE  /\ u[3 * i - 1] = ConservativeOrder(side, t.path[i])[1]
             /\ u[3 * i] = ConservativeOrder(side, t.path[i])[2]
  <2>1. /\ 3 * i - 1 \in 1..(3 * n + 2) /\ 3 * i - 1 # 1 /\ 3 * i - 1 # 3 * n + 2
        /\ ((3 * i - 1) + 1) \div 3 = i /\ (((3 * i - 1) + 1) % 3) + 1 = 1
    BY ONLY <1>1, i \in 1..n
  <2>2. /\ 3 * i \in 1..(3 * n + 2) /\ 3 * i # 1 /\ 3 * i # 3 * n + 2
        /\ (3 * i + 1) \div 3 = i /\ ((3 * i + 1) % 3) + 1 = 2
    BY ONLY <1>1, i \in 1..n
  <2> QED
    BY <1>3, <2>1, <2>2
<1>7. ASSUME NEW k \in 1..(3 * n + 2) PROVE u[k] \in Int
  <2>1. CASE k = 1 \/ k = 3 * n + 2
    BY <1>2, <1>5, <2>1
  <2>2. CASE k # 1 /\ k # 3 * n + 2
    <3>1. (k + 1) \div 3 \in 1..n /\ ((k + 1) % 3) + 1 \in 1..3
      BY ONLY <1>1, <2>2, k \in 1..(3 * n + 2)
    <3>2. PICK o : o = t.path[(k + 1) \div 3]
      OBVIOUS
    <3>3. {o.low * o.fx, o.high * o.fx, o.close * o.fx} \subseteq Nat \ {0}
      <4>1. {o.low, o.close, o.high, o.fx} \subseteq Nat \ {0}
        BY <1>1, <3>1, <3>2 DEF IsPositive
      <4> QED
        BY <4>1, Products
    <3>4. \A m \in 1..3 : ConservativeOrder(side, o)[m] \in Int
      BY <3>3 DEF ConservativeOrder
    <3>5. u[k] = ConservativeOrder(side, o)[((k + 1) % 3) + 1]
      BY <1>3, <2>2, <3>2
    <3> QED
      BY <3>1, <3>4, <3>5
  <2> QED
    BY <2>1, <2>2
<1>8. DOMAIN u = 1..(3 * n + 2)
  BY <1>3
<1> QED
  BY <1>1, <1>2, <1>5, <1>6, <1>7, <1>8 DEF UnitsAreAt

\* The best and the worst price of an interval are where the order has them.
LEMMA ExtremesOfInterval ==
    ASSUME NEW t, IsPositive(t), NEW side \in {1, -1}, NEW o, o.low <= o.high,
           {o.low, o.high, o.fx} \subseteq Nat \ {0}, EntryUnit(t) \in Int
    PROVE  LET low == Wealth(side, t, o.low * o.fx)
               high == Wealth(side, t, o.high * o.fx)
           IN /\ Max({low, high}) = Wealth(side, t, ConservativeOrder(side, o)[1])
              /\ Min({low, high}) = Wealth(side, t, ConservativeOrder(side, o)[2])
              /\ low \in Int /\ high \in Int
<1>1. PICK a \in Nat, b \in Nat, x \in Nat, m \in Int :
         a = o.low /\ b = o.high /\ x = o.fx /\ m = EntryUnit(t)
  OBVIOUS
<1>2. a * x <= b * x /\ a * x \in Int /\ b * x \in Int
  BY ONLY <1>1, o.low <= o.high, a \in Nat, b \in Nat, x \in Nat
<1>3. PICK p \in Int, q \in Int : p = a * x /\ q = b * x /\ p <= q
  BY <1>2
<1>4. PICK low \in Int, high \in Int :
        /\ low = Wealth(side, t, o.low * o.fx) /\ high = Wealth(side, t, o.high * o.fx)
        /\ IF side = 1 THEN low <= high ELSE high <= low
  <2>1. m + side * (p - m) \in Int /\ m + side * (q - m) \in Int
    BY ONLY side \in {1, -1}, p \in Int, q \in Int, m \in Int
  <2>2. IF side = 1 THEN m + side * (p - m) <= m + side * (q - m)
                    ELSE m + side * (q - m) <= m + side * (p - m)
    BY ONLY <1>3, side \in {1, -1}, p \in Int, q \in Int, m \in Int
  <2>3. /\ Wealth(side, t, o.low * o.fx) = m + side * (p - m)
        /\ Wealth(side, t, o.high * o.fx) = m + side * (q - m)
    BY <1>1, <1>3, Zenon DEF Wealth, Gain
  <2> QED
    BY <2>1, <2>2, <2>3
<1>5. /\ Max({low, high}) = IF low >= high THEN low ELSE high
      /\ Min({low, high}) = IF low >= high THEN high ELSE low
  BY low \in Int, high \in Int DEF Max, Min
<1>6. CASE side = 1
  <2>1. /\ Wealth(side, t, ConservativeOrder(side, o)[1]) = high
        /\ Wealth(side, t, ConservativeOrder(side, o)[2]) = low
    BY <1>4, <1>6 DEF ConservativeOrder
  <2> QED
    BY <1>4, <1>5, <1>6, <2>1
<1>7. CASE side = -1
  <2>1. /\ Wealth(side, t, ConservativeOrder(side, o)[1]) = low
        /\ Wealth(side, t, ConservativeOrder(side, o)[2]) = high
    BY <1>4, <1>7 DEF ConservativeOrder
  <2> QED
    BY <1>4, <1>5, <1>7, <2>1
<1> QED
  BY <1>6, <1>7

\* What the excursions of a trade promise.
Covers(e, left, fall) ==
    IF left >= 0 THEN Below(e.drawdown, fall) ELSE e.drawdown.num < -e.drawdown.den
WorstOf(side, t, o) ==
    Min({Wealth(side, t, o.low * o.fx), Wealth(side, t, o.high * o.fx)})
BestOf(side, t, o) ==
    Max({Wealth(side, t, o.low * o.fx), Wealth(side, t, o.high * o.fx)})

IsConservative(e, gross, side, t) ==
    /\ e.adverse <= gross /\ gross <= e.favorable
    /\ Covers(e, EntryUnit(t) * t.quantity + e.adverse,
              [num |-> e.adverse, den |-> EntryUnit(t) * t.quantity])
    /\ \A i \in DOMAIN t.path :
         Covers(e, WorstOf(side, t, t.path[i]),
                [num |-> WorstOf(side, t, t.path[i]) - BestOf(side, t, t.path[i]),
                 den |-> Max({BestOf(side, t, t.path[i]), EntryUnit(t)})])

LEMMA ExcursionsOfTrade ==
    ASSUME NEW d, NEW t, IsTrade(t), IsPositive(t), NEW e, e = Excursions(d, t),
           NEW side, side = Side(d)
    PROVE  IsConservative(e, GrossPnl(d, t), side, t)
<1>1. side \in {1, -1}
  BY DEF Side
<1>2. PICK u, n, E, X, Q : /\ u = OrderedUnits(side, t) /\ n = Len(t.path)
                          /\ E = EntryUnit(t) /\ X = ExitUnit(t) /\ Q = t.quantity
  OBVIOUS
<1> DEFINE L == 3 * n + 2
           g == [k \in 1..L |-> Gain(side, t, u[k])]
           w == [k \in 1..L |-> E + g[k]]
           gains == {Gain(side, t, x) : x \in ExcursionUnits(side, t)} \cup {0}
<1>3. /\ n \in Nat /\ DOMAIN t.path = 1..n /\ DOMAIN u = 1..L
      /\ E \in Nat \ {0} /\ X \in Nat \ {0} /\ u[1] = E /\ u[L] = X
      /\ \A i \in 1..n : /\ u[3 * i - 1] = ConservativeOrder(side, t.path[i])[1]
                         /\ u[3 * i] = ConservativeOrder(side, t.path[i])[2]
      /\ \A k \in 1..L : u[k] \in Int
  <2>1. UnitsAreAt(side, t, u, n)
    BY <1>1, <1>2, PlacesOfUnits
  <2> QED
    BY <1>2, <2>1, Zenon DEF UnitsAreAt
<1>4. L \in Nat \ {0} /\ 1 \in 1..L /\ L \in 1..L
      /\ \A i \in 1..n : 3 * i - 1 \in 1..L /\ 3 * i \in 1..L /\ 3 * i - 1 \in 1..(3 * i)
  <2>1. n \in Nat
    BY <1>3
  <2> QED
    BY ONLY <2>1
<1>5. Q \in Nat \ {0}
  BY <1>2 DEF IsPositive
<1>6. ASSUME NEW x \in Int PROVE Gain(side, t, x) \in Int
  <2>1. side * (x - E) \in Int
    BY ONLY <1>1, <1>3, x \in Int
  <2> QED
    BY <1>2, <2>1 DEF Gain
<1>7. /\ \A k \in 1..L : g[k] = Gain(side, t, u[k]) /\ g[k] \in Int
      /\ \A k \in 1..L : w[k] = E + g[k] /\ w[k] \in Int
  <2>1. \A k \in 1..L : g[k] = Gain(side, t, u[k]) /\ g[k] \in Int
    BY <1>3, <1>6, Zenon
  <2>2. \A k \in 1..L : w[k] = E + g[k]
    BY Zenon
  <2> HIDE DEF g, w, L
  <2> QED
    BY <1>3, <2>1, <2>2
<1>8. g[1] = 0 /\ w[1] = E
  <2>1. side * (E - E) = 0 /\ E + 0 = E
    BY ONLY <1>1, <1>3
  <2>2. Gain(side, t, u[1]) = side * (E - E)
    BY <1>2, <1>3, Zenon DEF Gain
  <2> QED
    BY <1>4, <1>7, <2>1, <2>2
<1>9. gains \subseteq {g[k] : k \in 1..L} /\ 0 \in gains /\ Gain(side, t, X) \in gains
  <2>1. ASSUME NEW x \in ExcursionUnits(side, t)
        PROVE  \E k \in 1..L : x = u[k]
    <3>1. CASE x = ExitUnit(t)
      BY <1>2, <1>3, <1>4, <3>1
    <3>2. CASE \E i \in DOMAIN t.path, k \in 1..2 :
                    x = ConservativeOrder(side, t.path[i])[k]
      <4>1. PICK i \in 1..n, k \in 1..2 : x = ConservativeOrder(side, t.path[i])[k]
        BY <1>3, <3>2
      <4>2. PICK j \in 1..L, m \in 1..L :
                u[j] = ConservativeOrder(side, t.path[i])[1]
                /\ u[m] = ConservativeOrder(side, t.path[i])[2]
        BY <1>3, <1>4, <4>1, Zenon
      <4>3. k = 1 \/ k = 2
        BY <4>1
      <4> QED
        BY <4>1, <4>2, <4>3, Zenon
    <3> QED
      BY <3>1, <3>2 DEF ExcursionUnits
  <2>2. \A x \in ExcursionUnits(side, t) : \E k \in 1..L : Gain(side, t, x) = g[k]
    BY <1>7, <2>1
  <2>3. \E k \in 1..L : 0 = g[k]
    BY <1>4, <1>8
  <2>4. X \in ExcursionUnits(side, t)
    BY <1>2 DEF ExcursionUnits
  <2> QED
    BY <2>2, <2>3, <2>4
<1> HIDE DEF gains, g
<1>10. PICK best \in Int, worst \in Int, gain \in Int :
          /\ best = Max(gains) /\ worst = Min(gains) /\ gain = Gain(side, t, X)
          /\ worst \in gains /\ worst <= 0 /\ worst <= gain /\ gain <= best
  <2>1. /\ Max(gains) \in gains /\ \A x \in gains : x <= Max(gains)
        /\ Min(gains) \in gains /\ \A x \in gains : Min(gains) <= x
        /\ gains \subseteq Int
    <3>1. L \in Nat /\ gains # {}
      BY <1>4, <1>9
    <3>2. /\ \A k \in 1..L : g[k] \in Int
          /\ gains \subseteq {g[k] : k \in 1..L}
      BY <1>7, <1>9, Zenon
    <3> HIDE DEF L
    <3> QED
      BY ONLY <3>1, <3>2, Extremes, Zenon
  <2> QED
    BY <1>9, <2>1
<1>11. e = [favorable |-> best * Q, adverse |-> worst * Q,
            drawdown |-> CHOOSE f \in Falls(L, w) : \A h \in Falls(L, w) : Below(f, h)]
  <2>1. w = [i \in DOMAIN u |-> EntryUnit(t) + Gain(side, t, u[i])]
    BY <1>2, <1>3, <1>7
  <2>2. DOMAIN w = 1..L
    OBVIOUS
  <2> HIDE DEF w, L
  <2>3. Falls(L, w) =
            {[num |-> w[p[2]] - w[p[1]], den |-> w[p[1]]] :
                p \in {q \in (DOMAIN w) \X (DOMAIN w) :
                        /\ q[1] <= q[2]
                        /\ w[q[1]] = Max({w[k] : k \in 1..q[2]})}}
    BY <2>2, Zenon DEF Falls
  <2>4. Excursions(d, t) =
            [favorable |-> Max(gains) * Q, adverse |-> Min(gains) * Q,
             drawdown |->
               CHOOSE f \in {[num |-> w[p[2]] - w[p[1]], den |-> w[p[1]]] :
                    p \in {q \in (DOMAIN w) \X (DOMAIN w) :
                        /\ q[1] <= q[2]
                        /\ w[q[1]] = Max({w[k] : k \in 1..q[2]})}} :
                  \A h \in {[num |-> w[p[2]] - w[p[1]], den |-> w[p[1]]] :
                    p \in {q \in (DOMAIN w) \X (DOMAIN w) :
                        /\ q[1] <= q[2]
                        /\ w[q[1]] = Max({w[k] : k \in 1..q[2]})}} : Below(f, h)]
    BY <1>2, <2>1 DEF Excursions, gains
  <2> QED
    BY <1>10, <2>3, <2>4, Zenon
<1> HIDE DEF w, L
<1>12. PICK dd : dd = e.drawdown
  OBVIOUS
<1>13. e.favorable = best * Q /\ e.adverse = worst * Q
  BY <1>11
<1>14. /\ dd.num \in Int /\ dd.den \in Int /\ dd.den > 0
       /\ \A j \in 1..L : \E peak \in Int :
             /\ \A k \in 1..j : w[k] <= peak
             /\ Below(dd, [num |-> w[j] - peak, den |-> peak])
  <2>1. dd = CHOOSE f \in Falls(L, w) : \A h \in Falls(L, w) : Below(f, h)
    BY <1>11, <1>12
  <2>2. w[1] > 0
    BY <1>3, <1>8
  <2> QED
    BY <1>4, <1>7, <2>1, <2>2, DeepestFall
\* From any lower peak, which the value at a place has passed or begun with.
<1>15. ASSUME NEW j \in 1..L, NEW c \in Int, c > 0, NEW x \in Int, w[j] - c <= x,
              c = E \/ \E k \in 1..j : c = w[k]
       PROVE  Covers(e, w[j], [num |-> x, den |-> c])
  <2>1. PICK peak \in Int : /\ \A k \in 1..j : w[k] <= peak
                            /\ Below(dd, [num |-> w[j] - peak, den |-> peak])
    BY <1>14
  <2>2. 1 \in 1..j
    BY ONLY <1>4, j \in 1..L
  <2>3. c <= peak
    BY <1>8, <1>15, <2>1, <2>2
  <2>4. w[j] \in Int
    BY <1>7
  <2>5. IF w[j] >= 0 THEN Below(dd, [num |-> x, den |-> c]) ELSE dd.num < -dd.den
    BY <1>14, <1>15, <2>1, <2>3, <2>4, FallsFromPeaks
  <2> QED
    BY <1>12, <2>5 DEF Covers
<1>16. e.adverse <= GrossPnl(d, t) /\ GrossPnl(d, t) <= e.favorable
  <2>1. GrossPnl(d, t) = side * Q * (X - E) /\ gain = side * (X - E)
    BY <1>2, <1>10, Zenon DEF GrossPnl, Gain
  <2>2. side * Q * (X - E) = (side * (X - E)) * Q
    BY ONLY <1>1, <1>3, <1>5
  <2>3. worst * Q <= gain * Q /\ gain * Q <= best * Q
    <3>1. worst <= gain /\ gain <= best
      BY <1>10
    <3> QED
      BY ONLY <1>5, <3>1, worst \in Int, gain \in Int, best \in Int
  <2> QED
    BY <1>13, <2>1, <2>2, <2>3
<1>17. Covers(e, E * Q + worst * Q, [num |-> worst * Q, den |-> E * Q])
  <2>1. PICK j \in 1..L : worst = g[j]
    BY <1>9, <1>10
  <2>2. w[j] = E + worst /\ w[j] - E <= worst /\ E > 0 /\ E \in Int
    BY <1>3, <1>7, <1>10, <2>1
  <2>3. Covers(e, E + worst, [num |-> worst, den |-> E])
    BY <1>10, <1>15, <2>2
  <2>4. PICK a \in Int, b \in Int : a = dd.num /\ b = dd.den
    BY <1>14
  <2>5. CASE E + worst >= 0
    <3>1. a * E <= worst * b
      BY <1>12, <2>3, <2>4, <2>5 DEF Covers, Below
    <3>2. (a * E) * Q <= (worst * b) * Q
      BY ONLY <1>3, <1>5, <3>1, a \in Int, b \in Int, worst \in Int
    <3>3. a * (E * Q) <= (worst * Q) * b
      BY ONLY <1>3, <1>5, <3>2, a \in Int, b \in Int, worst \in Int
    <3>4. E * Q + worst * Q >= 0
      <4>1. E * Q + worst * Q = (E + worst) * Q
        BY ONLY <1>3, <1>5, worst \in Int
      <4>2. PICK s \in Int : s = E + worst /\ s >= 0
        BY <1>3, <2>5
      <4>3. s * Q >= 0
        BY ONLY <1>5, <4>2, s \in Int
      <4> QED
        BY <4>1, <4>2, <4>3
    <3> QED
      BY <1>12, <2>4, <3>3, <3>4 DEF Covers, Below
  <2>6. CASE E + worst < 0
    <3>1. ~(E + worst >= 0)
      BY ONLY <1>3, <2>6, worst \in Int
    <3>2. dd.num < -dd.den
      BY <1>12, <2>3, <3>1 DEF Covers
    <3>3. ~(E * Q + worst * Q >= 0)
      <4>1. E * Q + worst * Q = (E + worst) * Q
        BY ONLY <1>3, <1>5, worst \in Int
      <4>2. PICK s \in Int : s = E + worst /\ s < 0
        BY <1>3, <2>6
      <4>3. ~(s * Q >= 0)
        BY ONLY <1>5, <4>2, s \in Int
      <4> QED
        BY <4>1, <4>2, <4>3
    <3> QED
      BY <1>12, <3>2, <3>3 DEF Covers
  <2> QED
    BY <1>3, <2>5, <2>6
<1>18. ASSUME NEW i \in DOMAIN t.path
       PROVE  Covers(e, WorstOf(side, t, t.path[i]),
                     [num |-> WorstOf(side, t, t.path[i]) - BestOf(side, t, t.path[i]),
                      den |-> Max({BestOf(side, t, t.path[i]), E})])
  <2>1. PICK o, low, high : /\ o = t.path[i] /\ high = BestOf(side, t, o)
                            /\ low = WorstOf(side, t, o)
    OBVIOUS
  <2>2. i \in 1..n
    BY <1>3
  <2>3. {o.low, o.close, o.high, o.fx} \subseteq Nat \ {0} /\ o.low <= o.high
    <3>1. {o.low, o.close, o.high, o.fx} \subseteq Nat \ {0}
      BY <2>1 DEF IsPositive
    <3>2. IsObservation(o)
      BY <2>1 DEF IsTrade
    <3> QED
      BY <3>1, <3>2 DEF IsObservation
  <2>4. /\ high = Wealth(side, t, ConservativeOrder(side, o)[1])
        /\ low = Wealth(side, t, ConservativeOrder(side, o)[2])
    <3>1. EntryUnit(t) \in Int /\ {o.low, o.high, o.fx} \subseteq Nat \ {0}
      BY <1>2, <1>3, <2>3
    <3> QED
      BY <1>1, <2>1, <2>3, <3>1, ExtremesOfInterval, Zenon DEF BestOf, WorstOf
  <2>5. high = w[3 * i - 1] /\ low = w[3 * i]
    <3>1. PICK k, m : k = 3 * i - 1 /\ m = 3 * i /\ k \in 1..L /\ m \in 1..L
      BY <1>4, <2>2
    <3>2. u[k] = ConservativeOrder(side, o)[1] /\ u[m] = ConservativeOrder(side, o)[2]
      BY <1>3, <2>1, <2>2, <3>1, Zenon
    <3>3. w[k] = E + Gain(side, t, u[k]) /\ w[m] = E + Gain(side, t, u[m])
      BY <1>7, <3>1, Zenon
    <3> QED
      BY <1>2, <2>4, <3>1, <3>2, <3>3, Zenon DEF Wealth
  <2>6. high \in Int /\ low \in Int
    BY <1>4, <1>7, <2>2, <2>5
  <2>7. PICK c \in Int : c = Max({high, E}) /\ c >= high /\ c >= E /\ (c = high \/ c = E)
    <3>1. Max({high, E}) = IF high >= E THEN high ELSE E
      BY <1>3, <2>6 DEF Max
    <3> QED
      BY <1>3, <2>6, <3>1
  <2>8. c > 0 /\ low - c <= low - high /\ low - high \in Int
    BY ONLY <1>3, <2>6, <2>7, c \in Int
  <2>9. c = E \/ \E k \in 1..(3 * i) : c = w[k]
    BY <1>4, <2>2, <2>5, <2>7
  <2>10. Covers(e, low, [num |-> low - high, den |-> c])
    BY <1>4, <1>15, <2>2, <2>5, <2>8, <2>9
  <2> QED
    BY <2>1, <2>7, <2>10
<1> QED
  BY <1>2, <1>13, <1>16, <1>17, <1>18 DEF IsConservative

\* In every stored review of a trade the excursions enclose where it ended, and
\* the drawdown is at least the fall inside any one interval and from the entry.
THEOREM Conservative == Spec => []ExcursionsAreConservative
<1>1. ChecksInv => ExcursionsAreConservative
  <2> SUFFICES ASSUME ChecksInv, NEW r \in Committed, r.table = "simulation_reviews",
                      r.content.out.excursions # None
               PROVE  IsConservative(r.content.out.excursions, r.content.out.gross,
                                     Side(r.content.in.decision), r.content.in.outcome)
    BY DEF ExcursionsAreConservative, IsConservative, Covers, WorstOf, BestOf, Wealth
  <2>0. PICK in, t, e, side : /\ in = r.content.in /\ t = in.outcome
                             /\ e = r.content.out.excursions /\ side = Side(in.decision)
    OBVIOUS
  <2>1. ReviewIsPassed(r)
    BY DEF ChecksInv, Committed
  <2>2. /\ Reviewable(in) /\ r.content.out = Review(in)
        /\ \E req \in Requests : req.kind = "review" /\ req.input = in
    BY <2>0, <2>1 DEF ReviewIsPassed
  <2>3. in.outcome.type = "trade" /\ r.content.out = TradeReview(in)
    BY <2>2 DEF Review, NonExecutionReview
  <2>4. e = Excursions(in.decision, t) /\ r.content.out.gross = GrossPnl(in.decision, t)
    BY <2>0, <2>3 DEF TradeReview
  <2>5. IsTrade(t)
    BY <2>0, <2>2, <2>3 DEF Reviewable, WellFormed
  <2>6. IsPositive(t)
    BY <2>0, <2>2, <2>3, <2>5, RequestsAssumption, TradesArePositive
  <2> QED
    BY <2>0, <2>4, <2>5, <2>6, ExcursionsOfTrade
<1> QED
  BY <1>1, ChecksInvariance, PTL
=============================================================================
