------------------------- MODULE ValidationWindows --------------------------
(***************************************************************************)
(* The walk-forward backtest on real prices (jobs/run_backtest.py,         *)
(* services/backtest_service.py, backtest/validation.py) and the registry  *)
(* in which it claims every validation window before it looks at it        *)
(* (backtest/validation_registry.py): a JSON list that is read, extended   *)
(* and replaced as a whole through one temporary file.                     *)
(*                                                                         *)
(* A run loads the prices once and then takes the tracks one by one.  The  *)
(* prices of the qualified symbols are the stretch of sessions from..to    *)
(* (the code takes the union of their sessions, which may have gaps);      *)
(* `universe` stands for which symbols those are and `revised` for the     *)
(* sessions whose bars a vendor has changed since.  The expanding training *)
(* window starts at the first session, test windows follow each other.     *)
(* A rule stands for the hash of everything that decides: the rule, the    *)
(* assumptions, the policies and the protocol version.                     *)
(***************************************************************************)
EXTENDS Integers, Sequences, FiniteSetsExt

CONSTANTS
    Runs,         \* processes of run_backtest.py
    TrackOrder,   \* REAL_BACKTEST_RULES: short_term, mid_term
    MinTrain,     \* minimum_train_sessions of each track
    TestSessions, \* test_sessions, which is also the step
    LastSession,  \* bound: the last session of the pinned exchange calendar
    MaxChanges,   \* bound: changes of rules, qualified symbols and bars
    NoRun, NoFile

Tracks == {TrackOrder[k] : k \in DOMAIN TrackOrder}
Sessions == 1..LastSession

ASSUME NamesAssumption == NoRun \notin Runs

\* REAL_BACKTEST_RULES: each track once, with its sizes.
TrackRules ==
    /\ TrackOrder \in Seq(Tracks)
    /\ \A k, l \in DOMAIN TrackOrder : TrackOrder[k] = TrackOrder[l] => k = l
    /\ MinTrain \in [Tracks -> Nat \ {0}]
    /\ TestSessions \in Nat \ {0}

ASSUME TracksAssumption == TrackRules
ASSUME BoundsAssumption == LastSession \in Nat \ {0} /\ MaxChanges \in Nat

VARIABLES
    market,    \* the prices the database holds
    rules,     \* the rule of each track in the code
    registry,  \* the claims, in the order of the file
    temporary, \* the file a writer fills before it replaces the registry
    lock,      \* who holds HEAVY_ANALYSIS_LOCK
    run,       \* each process
    evaluated  \* history: the windows that were simulated

vars == <<market, rules, registry, temporary, lock, run, evaluated>>

-----------------------------------------------------------------------------
(* Windows and claims.                                                     *)

Training(m, last) ==
    [from |-> m.from, to |-> last, universe |-> m.universe,
     revised |-> {s \in m.revised : s \in m.from..last}]

\* claim_validation_window: what the identity of a claim is made of.
WindowClaim(track, rule, m, start) ==
    [type |-> "historical_validation", track |-> track, rule |-> rule,
     from |-> start, to |-> start + TestSessions - 1,
     training |-> Training(m, start - 1)]

\* walk_forward_windows: the starts of the test windows of a track.
TestStarts(track, m) ==
    {s \in m.from..m.to :
        /\ s >= m.from + MinTrain[track]
        /\ (s - m.from - MinTrain[track]) % TestSessions = 0
        /\ s + TestSessions - 1 <= m.to}

IsForward(claim) == claim.type = "forward_period"

Activations(entries, track) ==
    {i \in DOMAIN entries : IsForward(entries[i]) /\ entries[i].track = track}

Overlap(a, b) == a.from <= b.to /\ b.from <= a.to

\* A faulty variant: another rule is refused the same window only.
RefusesSameWindow(entry, claim) ==
    /\ entry.track = claim.track
    /\ \/ /\ entry.type = "forward_period"
          /\ claim.type = "forward_period" \/ claim.to >= entry.from
       \/ /\ entry.type = claim.type /\ claim.type = "historical_validation"
          /\ entry.from = claim.from /\ entry.to = claim.to
          /\ entry.rule # claim.rule \/ entry.training # claim.training

\* The claim cannot be made because of an entry of the registry.
Refuses(entry, claim) ==
    /\ entry.track = claim.track
    /\ \/ /\ IsForward(entry)
          /\ IsForward(claim) \/ claim.to >= entry.from
       \/ /\ ~IsForward(entry) /\ ~IsForward(claim)
          /\ Overlap(entry, claim)
          /\ \/ entry.rule # claim.rule
             \/ /\ entry.from = claim.from /\ entry.to = claim.to
                /\ entry.training # claim.training

Decisive(entries, claim) ==
    {i \in DOMAIN entries : entries[i] = claim \/ Refuses(entries[i], claim)}

\* Every entry is looked at in order: the first decisive one decides.
Known(entries, claim) ==
    /\ Decisive(entries, claim) # {}
    /\ entries[Min(Decisive(entries, claim))] = claim
Refused(entries, claim) ==
    /\ Decisive(entries, claim) # {}
    /\ entries[Min(Decisive(entries, claim))] # claim

-----------------------------------------------------------------------------
Stretch ==
    {m \in [from: Sessions, to: Sessions, universe: Nat \ {0},
            revised: SUBSET Sessions] : m.from <= m.to}

Waiting ==
    {"idle", "track", "claim", "replace", "evaluate", "activation", "freeze",
     "replace_forward"}

\* backtest_service: the track a run is at, and its rule.
Track(r) == TrackOrder[run[r].k]
Rule(r) == run[r].rules[Track(r)]
Claim(r) == WindowClaim(Track(r), Rule(r), run[r].market, Min(run[r].windows))

NoPrices == [from |-> 1, to |-> 1, universe |-> 1, revised |-> {}]
Idle ==
    [pc |-> "idle", k |-> 1, market |-> NoPrices,
     rules |-> [t \in Tracks |-> 1], windows |-> {}, validated |-> 0]

Init ==
    /\ \E to \in Sessions :
        market = [from |-> 1, to |-> to, universe |-> 1, revised |-> {}]
    /\ rules = [t \in Tracks |-> 1]
    /\ registry = <<>> /\ temporary = NoFile
    /\ lock = NoRun /\ evaluated = {}
    /\ run = [r \in Runs |-> Idle]

Goto(r, pc) == run' = [run EXCEPT ![r].pc = pc]

\* The process ends, with or without an exception, and its lock is free.
Stop(r) ==
    /\ run' = [run EXCEPT ![r] = Idle]
    /\ lock' = IF lock = r THEN NoRun ELSE lock

-----------------------------------------------------------------------------
(* The run.                                                                *)

\* A faulty variant: the job without its lock.
BeginUnlocked(r) ==
    /\ run[r].pc = "idle"
    /\ run' = [run EXCEPT ![r] = [Idle EXCEPT
            !.pc = "track", !.market = market, !.rules = rules]]
    /\ UNCHANGED <<market, rules, registry, temporary, lock, evaluated>>

\* prevent_concurrent_runs; run_real_walk_forward_backtest loads the prices.
Begin(r) ==
    /\ run[r].pc = "idle" /\ lock = NoRun
    /\ lock' = r
    /\ run' = [run EXCEPT ![r] = [Idle EXCEPT
            !.pc = "track", !.market = market, !.rules = rules]]
    /\ UNCHANGED <<market, rules, registry, temporary, evaluated>>

Past(r) == run[r].k > Len(TrackOrder)

\* What is left of the windows once the forward period is frozen.
Reserved(entries, track, windows) ==
    {s \in windows :
        \A i \in Activations(entries, track) :
            s + TestSessions - 1 < entries[i].from}

\* A track without enough contiguous sessions, without signals or without a
\* window is reported as insufficient data and claims nothing.
StartTrack(r) ==
    /\ run[r].pc = "track" /\ ~Past(r)
    /\ LET windows ==
            Reserved(registry, Track(r), TestStarts(Track(r), run[r].market))
       IN \/ /\ windows # {}
             /\ run' = [run EXCEPT ![r].pc = "claim", ![r].windows = windows,
                                   ![r].validated = 0]
          \/ run' = [run EXCEPT ![r].k = @ + 1]
    /\ UNCHANGED <<market, rules, registry, temporary, lock, evaluated>>

\* The claim of the next window: one that is known already is used again.
ClaimWindow(r) ==
    /\ run[r].pc = "claim"
    /\ \/ /\ Known(registry, Claim(r))
          /\ Goto(r, "evaluate")
          /\ UNCHANGED <<temporary, lock>>
       \/ /\ Refused(registry, Claim(r))
          /\ Stop(r)
          /\ UNCHANGED temporary
       \/ /\ Decisive(registry, Claim(r)) = {}
          /\ temporary' = Append(registry, Claim(r))
          /\ Goto(r, "replace")
          /\ UNCHANGED lock
    /\ UNCHANGED <<market, rules, registry, evaluated>>

\* temporary_path.replace(path): without the file there is only the crash.
Replace(r) ==
    /\ temporary # NoFile
    /\ \/ run[r].pc = "replace" /\ Goto(r, "evaluate")
       \/ run[r].pc = "replace_forward"
          /\ run' = [run EXCEPT ![r].pc = "track", ![r].k = @ + 1]
    /\ registry' = temporary /\ temporary' = NoFile
    /\ UNCHANGED <<market, rules, lock, evaluated>>

\* The simulator and the benchmarks on the claimed window.
Evaluate(r) ==
    /\ run[r].pc = "evaluate"
    /\ evaluated' = evaluated \cup {Claim(r)}
    /\ LET rest == run[r].windows \ {Min(run[r].windows)}
       IN run' = [run EXCEPT ![r].windows = rest, ![r].validated = Claim(r).to,
                             ![r].pc = IF rest = {} THEN "activation" ELSE "claim"]
    /\ UNCHANGED <<market, rules, registry, temporary, lock>>

\* A frozen period stays as it is; without a next session there is none.
ReadActivation(r) ==
    /\ run[r].pc = "activation"
    /\ IF Activations(registry, Track(r)) = {} /\ run[r].market.to < LastSession
       THEN Goto(r, "freeze")
       ELSE run' = [run EXCEPT ![r].pc = "track", ![r].k = @ + 1]
    /\ UNCHANGED <<market, rules, registry, temporary, lock, evaluated>>

\* A faulty variant: without observed_through, which is optional, the period
\* starts after the last window.
ForwardUnobserved(r) ==
    [type |-> "forward_period", track |-> Track(r), rule |-> Rule(r),
     from |-> run[r].validated + 1, observed |-> run[r].validated,
     to |-> run[r].validated]

ForwardClaim(r) ==
    [type |-> "forward_period", track |-> Track(r), rule |-> Rule(r),
     from |-> run[r].market.to + 1, observed |-> run[r].market.to,
     to |-> run[r].validated]

\* The dates of the claim are in order: claim_forward_period raises otherwise.
InOrder(claim) ==
    claim.to <= claim.observed /\ claim.to < claim.from /\ claim.observed < claim.from

ClaimForward(r) ==
    /\ run[r].pc = "freeze"
    /\ \/ /\ InOrder(ForwardClaim(r)) /\ Known(registry, ForwardClaim(r))
          /\ run' = [run EXCEPT ![r].pc = "track", ![r].k = @ + 1]
          /\ UNCHANGED <<temporary, lock>>
       \/ /\ ~InOrder(ForwardClaim(r)) \/ Refused(registry, ForwardClaim(r))
          /\ Stop(r)
          /\ UNCHANGED temporary
       \/ /\ InOrder(ForwardClaim(r)) /\ Decisive(registry, ForwardClaim(r)) = {}
          /\ temporary' = Append(registry, ForwardClaim(r))
          /\ Goto(r, "replace_forward")
          /\ UNCHANGED lock
    /\ UNCHANGED <<market, rules, registry, evaluated>>

\* record_job, and the lock is released.
End(r) ==
    /\ run[r].pc = "track" /\ Past(r)
    /\ Stop(r)
    /\ UNCHANGED <<market, rules, registry, temporary, evaluated>>

\* An exception anywhere, or the process dies: a half-written file stays.
Crash(r) ==
    /\ run[r].pc # "idle"
    /\ Stop(r)
    /\ UNCHANGED <<market, rules, registry, temporary, evaluated>>

-----------------------------------------------------------------------------
(* The data and the code change between, and during, the runs.             *)

MoreChanges ==
    market.universe - 1 + Cardinality(market.revised)
        + MapThenSumSet(LAMBDA t : rules[t] - 1, Tracks) < MaxChanges

NewSession ==
    /\ market.to < LastSession
    /\ market' = [market EXCEPT !.to = @ + 1]
    /\ UNCHANGED <<rules, registry, temporary, lock, run, evaluated>>

Revise(s) ==
    /\ s \in market.from..market.to /\ s \notin market.revised
    /\ market' = [market EXCEPT !.revised = @ \cup {s}]
    /\ UNCHANGED <<rules, registry, temporary, lock, run, evaluated>>

\* Symbols gain or lose the contiguous sessions they need.
Requalify(from, to) ==
    /\ from <= to /\ to <= market.to
    /\ market' = [market EXCEPT !.from = from, !.to = to, !.universe = @ + 1]
    /\ UNCHANGED <<rules, registry, temporary, lock, run, evaluated>>

ChangeRule(track) ==
    /\ rules' = [rules EXCEPT ![track] = @ + 1]
    /\ UNCHANGED <<market, registry, temporary, lock, run, evaluated>>

Next ==
    \/ \E r \in Runs :
        \/ Begin(r) \/ StartTrack(r) \/ ClaimWindow(r) \/ Replace(r)
        \/ Evaluate(r) \/ ReadActivation(r) \/ ClaimForward(r)
        \/ End(r) \/ Crash(r)
    \/ NewSession
    \/ /\ MoreChanges
       /\ \/ \E s \in Sessions : Revise(s)
          \/ \E from, to \in Sessions : Requalify(from, to)
          \/ \E track \in Tracks : ChangeRule(track)

Spec == Init /\ [][Next]_vars

-----------------------------------------------------------------------------
Entries == {registry[i] : i \in DOMAIN registry}

\* The variables have their types.
TypeOK ==
    /\ market \in Stretch
    /\ rules \in [Tracks -> Nat \ {0}]
    /\ registry \in Seq(Entries)
    /\ lock \in Runs \cup {NoRun}
    /\ run \in [Runs ->
        [pc: Waiting, k: 1..(Len(TrackOrder) + 1), market: Stretch,
         rules: [Tracks -> Nat \ {0}], windows: SUBSET Sessions, validated: Nat]]

\* Nothing is looked at without a claim that outlives the process: every
\* window that was simulated is in the registry as it was simulated
\* (claim_validation_window before simulator, and the lock around the file).
EvaluatedIsRegistered == evaluated \subseteq Entries

\* A session that one rule has been judged on is never used to judge another
\* rule of the same track, however the windows are cut by then, whoever
\* crashed in between and whatever the prices became (claim_validation_window).
OneRulePerWindow ==
    \A a, b \in evaluated :
        a.track = b.track /\ Overlap(a, b) => a.rule = b.rule

\* One boundary for a track, and no window behind it claimed later.
BoundaryHolds ==
    \A j \in DOMAIN registry : IsForward(registry[j]) =>
        /\ registry[j].to <= registry[j].observed
        /\ registry[j].observed < registry[j].from
        /\ \A i \in DOMAIN registry :
            i > j /\ registry[i].track = registry[j].track =>
                ~IsForward(registry[i]) /\ registry[i].to < registry[j].from

\* The boundary of the forward period is set once for a track, behind all
\* prices the run that sets it has loaded and not only behind the windows it
\* simulated, and no window claimed from then on reaches it
\* (claim_forward_period, its caller and the filter of the windows).  Windows
\* that were claimed before are not looked at when it is set.
ForwardStaysUnseen ==
    /\ BoundaryHolds
    /\ \A r \in Runs : run[r].pc = "replace_forward" =>
        temporary[Len(temporary)].from > run[r].market.to

=============================================================================
