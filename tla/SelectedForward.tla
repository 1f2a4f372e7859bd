-------------------------- MODULE SelectedForward ---------------------------
(***************************************************************************)
(* The forward accounts of a user's own universe: the versions of one      *)
(* selection (services/user_asset_selection_service.py), the log of its    *)
(* activation events (services/selected_forward_activation_service.py) and *)
(* the daily job that advances the accounts of every enabled version       *)
(* (jobs/run_selected_universe_forward.py and                              *)
(* services/selected_universe_forward_account_service.py).                 *)
(*                                                                         *)
(* Users call the services from sessions of their own, statement by        *)
(* statement under READ COMMITTED; one job runs at a time (JobLocks).      *)
(* Phase 2d-1 of the clock is the time up to 18:30 of the session day d,   *)
(* phase 2d the time after it.                                             *)
(*                                                                         *)
(* The two accounts of a version are always advanced together and by the   *)
(* same signals: they are one account here, and its state is the set of    *)
(* days whose signals it took, from which the engine recomputes the rest.  *)
(***************************************************************************)
EXTENDS Integers, Sequences

CONSTANTS
    Users,      \* the sessions that call the services
    Requests,   \* request_id
    Versions,   \* the version numbers, 1 .. MaxVersion
    MaxVersion, \* bound: versions of the selection
    LastDay,    \* bound: session days
    Closes,     \* Closes[d]: when the positions of d's signals are closed again
    MaxCalls,   \* bound: calls of the services
    NoRequest

Days == 1..LastDay
Phases == 1..(2 * LastDay)

\* Decided as of 18:30: what was there in the phase p is known on the day d.
KnownOn(d, p) == p < 2 * d

ASSUME VersionsAssumption == MaxVersion \in Nat \ {0} /\ Versions = 1..MaxVersion
ASSUME CalendarAssumption == LastDay \in Nat \ {0} /\ MaxCalls \in Nat
ASSUME ClosesAssumption ==
    Closes \in [Days -> 1..(LastDay + 1)] /\ \A d \in Days : d < Closes[d]
ASSUME NoRequestAssumption == NoRequest \notin Requests

VARIABLES
    phase,      \* the time
    calls,      \* how many calls there were; orders them by their requested_at
    selections, \* user_asset_selections: the version, and when it was committed
    events,     \* the activation events in the order of their commits
    rows,       \* virtual_account_daily_states of each version
    call,       \* what each user's call has read
    job         \* the daily job: its day, signals, selections and results

vars == <<phase, calls, selections, events, rows, call, job>>

Absent == [status |-> "absent", effective |-> 0, saved |-> 0]
Selection ==
    [status: {"active", "inactive"}, effective: Phases, saved: Phases]
Event ==
    [request: Requests, version: Versions, enabled: BOOLEAN,
     at: 1..MaxCalls, requested: Phases, saved: Phases]

NoRow == {0}
Histories == SUBSET Days

Places == {"none", "requested", "logged", "checked", "create", "numbered"}
NoCall ==
    [place |-> "none", request |-> NoRequest, version |-> 0, enabled |-> FALSE,
     at |-> 0, since |-> 1]
NoJob == [running |-> FALSE, day |-> 1, signals |-> FALSE, todo |-> {},
          results |-> [v \in Versions |-> NoRow]]

TypeOK ==
    /\ phase \in Phases
    /\ calls \in 0..MaxCalls
    /\ selections \in [Versions -> Selection \cup {Absent}]
    /\ events \in Seq(Event)
    /\ rows \in [Versions -> [Days -> Histories \cup {NoRow}]]
    /\ call \in [Users -> [place: Places, request: Requests \cup {NoRequest},
                           version: 0..(MaxVersion + 1), enabled: BOOLEAN,
                           at: 0..MaxCalls, since: Phases]]
    /\ job \in [running: BOOLEAN, day: Days, signals: BOOLEAN, todo: SUBSET Versions,
                results: [Versions -> Histories \cup {NoRow}]]

Saved == {v \in Versions : selections[v] # Absent}

\* func.max(version), 0 for a selection without versions.
IsLatestVersion(n) ==
    /\ n \in Saved \cup {0}
    /\ \A v \in Saved : v <= n

EventsOf(v) == {i \in DOMAIN events : events[i].version = v}

\* latest_activation_event_by_selection, of the events that are known.
Latest(known) == {i \in known : \A k \in known : events[k].at <= events[i].at}

\* _latest_events without as_of.
NowEnabled(v) == \E i \in Latest(EventsOf(v)) : events[i].enabled

\* load_latest_forward_account_states: the last day that has a row.
LastRow(v) ==
    {d \in Days : rows[v][d] # NoRow /\ \A e \in Days : rows[v][e] # NoRow => e <= d}

\* The history that the restored state carries, empty without a row.
Carried(v) == UNION {rows[v][d] : d \in LastRow(v)}

\* _has_exposure: orders of the day's signals, then positions until they close.
Exposed(v) == \E d \in LastRow(v) : \E e \in rows[v][d] : d < Closes[e]

-----------------------------------------------------------------------------
(* Time and calls.                                                         *)

Tick ==
    /\ phase < 2 * LastDay
    /\ phase' = phase + 1
    /\ UNCHANGED <<calls, selections, events, rows, call, job>>

\* A call of u begins at the present time.
Begin(u, r) ==
    /\ call[u].place = "none"
    /\ calls < MaxCalls
    /\ calls' = calls + 1
    /\ call' = [call EXCEPT ![u] = r]
    /\ UNCHANGED <<phase, selections, events, rows, job>>

\* The call returns, raises, or its session is lost: what is not committed is
\* rolled back.
Return(u) ==
    /\ call[u].place # "none"
    /\ call' = [call EXCEPT ![u] = NoCall]
    /\ UNCHANGED <<phase, calls, selections, events, rows, job>>

Read(u, place, version) ==
    /\ call' = [call EXCEPT ![u].place = place, ![u].version = version]
    /\ UNCHANGED <<phase, calls, selections, events, rows, job>>

-----------------------------------------------------------------------------
(* Versions.                                                               *)

\* create_lite_selection_version: a composition unlike the latest one's, or of
\* a selection that was deactivated; effective from now.
BeginCreate(u) ==
    Begin(u, [NoCall EXCEPT !.place = "create", !.enabled = TRUE, !.since = phase])

\* deactivate_selection_version for the latest version, if that is active.
BeginDeactivate(u, v) ==
    /\ IsLatestVersion(v)
    /\ selections[v].status = "active"
    /\ Begin(u, [NoCall EXCEPT !.place = "create", !.version = v, !.since = phase])

\* create_selection_version reads the number to count on from ...
ReadNumber(u) ==
    /\ call[u].place = "create"
    /\ \E n \in 0..MaxVersion : IsLatestVersion(n) /\ Read(u, "numbered", n + 1)

\* ... and inserts its row, unless another call has taken the number.
InsertVersion(u) ==
    /\ call[u].place = "numbered"
    /\ call[u].version \in Versions
    /\ call[u].version \notin Saved
    /\ selections' = [selections EXCEPT ![call[u].version] =
                         [status |-> IF call[u].enabled THEN "active" ELSE "inactive",
                          effective |-> call[u].since, saved |-> phase]]
    /\ call' = [call EXCEPT ![u] = NoCall]
    /\ UNCHANGED <<phase, calls, events, rows, job>>

-----------------------------------------------------------------------------
(* set_selected_forward_activation.                                        *)

\* The user names a saved version by its row id.
Request(u, r, v, enabled) ==
    /\ v \in Saved
    /\ Begin(u, [NoCall EXCEPT !.place = "requested", !.request = r, !.version = v,
                               !.enabled = enabled, !.at = calls + 1, !.since = phase])

\* The version, the number of the latest one and the log are read one after the
\* other.  They may be read in one step: a saved version does not change, and
\* what the log has to lack to enable one it lacked before as well.  A known
\* request_id comes with a new requested_at, so it is refused as another input;
\* the same input once more is answered with the saved event and changes nothing
\* either.
CheckLog(u) ==
    LET v == call[u].version IN
    /\ call[u].place = "requested"
    /\ selections[v].status = "active"
    /\ selections[v].effective <= call[u].since
    /\ call[u].enabled => IsLatestVersion(v)
    /\ \A i \in DOMAIN events : events[i].request # call[u].request
    /\ \A i \in EventsOf(v) : events[i].at <= call[u].at
    /\ ~call[u].enabled => NowEnabled(v)
    /\ Read(u, IF call[u].enabled THEN "checked" ELSE "logged", v)

\* To disable, the accounts are read after it.
CheckExposure(u) ==
    LET v == call[u].version IN
    /\ call[u].place = "logged"
    /\ ~Exposed(v)
    /\ Read(u, "checked", v)

CheckRequest(u) == CheckLog(u) \/ CheckExposure(u)

\* The event is inserted and committed, unless the request_id has been used
\* meanwhile.
InsertEvent(u) ==
    /\ call[u].place = "checked"
    /\ \A i \in DOMAIN events : events[i].request # call[u].request
    /\ events' = Append(events, [request |-> call[u].request, version |-> call[u].version,
                                 enabled |-> call[u].enabled, at |-> call[u].at,
                                 requested |-> call[u].since, saved |-> phase])
    /\ call' = [call EXCEPT ![u] = NoCall]
    /\ UNCHANGED <<phase, calls, selections, rows, job>>

-----------------------------------------------------------------------------
(* The daily job.                                                          *)

\* A faulty variant that takes the present state of the log.
EverythingKnown(d, v) == EventsOf(v)

\* The events of v that count for the day d.
KnownEvents(d, v) == {i \in EventsOf(v) : KnownOn(d, events[i].requested)}

\* explicitly_enabled_selections as of 18:30 of the day d.
EnabledOn(d) ==
    {v \in Saved :
        /\ \E i \in Latest(KnownEvents(d, v)) : events[i].enabled
        /\ selections[v].status = "active"
        /\ KnownOn(d, selections[v].effective)}

\* no_explicitly_enabled_selection_versions.
SkipRun(d) ==
    /\ ~job.running
    /\ ~KnownOn(d, phase)
    /\ EnabledOn(d) = {}
    /\ UNCHANGED vars

\* After 18:30, or later with --observed-at; the analysis of the day has
\* eligible signals or none, and a retry may find newer prices.
StartRun(d, signals) ==
    /\ ~job.running
    /\ ~KnownOn(d, phase)
    /\ EnabledOn(d) # {}
    /\ job' = [NoJob EXCEPT !.running = TRUE, !.day = d, !.signals = signals,
                            !.todo = EnabledOn(d)]
    /\ UNCHANGED <<phase, calls, selections, events, rows, call>>

\* A faulty variant that lets every version enter new positions.
AnyVersionEnters(v) == TRUE

\* allow_new_entries.
MayEnter(v) == IsLatestVersion(v)

\* _merge_signal_history: no signal of the restored state is lost.
Merged(previous, incoming) == previous \cup incoming

\* advance_forward_accounts_as_of: the eligible signals of the day join those
\* of the restored state, and the account is simulated anew from all of them;
\* the state it comes to is a function of that history.
Advanced(v) ==
    Merged(Carried(v), IF job.signals /\ MayEnter(v) THEN {job.day} ELSE {})

\* A faulty variant that lets a state move backwards.
NeverBackwards(v) == TRUE

\* _previous_signal_history: a state cannot move backwards in time.
InOrder(v) == \A d \in LastRow(v) : d <= job.day

\* insert_virtual_account_daily_state: a new row, or the same one again.
Acceptable(v, history) == rows[v][job.day] \in {NoRow, history}

\* advance_selected_universe_forward_accounts for the next selection of the
\* loop; when it raises, the run is given up.
Advance(v) ==
    /\ job.running
    /\ v \in job.todo /\ \A w \in job.todo : v <= w
    /\ InOrder(v)
    /\ Acceptable(v, Advanced(v))
    /\ job' = [job EXCEPT !.todo = @ \ {v}, !.results[v] = Advanced(v)]
    /\ UNCHANGED <<phase, calls, selections, events, rows, call>>

\* record_job commits the rows of all selections together.
CommitRun ==
    /\ job.running
    /\ job.todo = {}
    /\ rows' = [v \in Versions |->
                   IF job.results[v] = NoRow THEN rows[v]
                   ELSE [rows[v] EXCEPT ![job.day] = job.results[v]]]
    /\ job' = NoJob
    /\ UNCHANGED <<phase, calls, selections, events, call>>

\* A selection raises or the process dies: everything is rolled back.
GiveUpRun ==
    /\ job.running
    /\ job' = NoJob
    /\ UNCHANGED <<phase, calls, selections, events, rows, call>>

-----------------------------------------------------------------------------

Init ==
    /\ phase = 1
    /\ calls = 0
    /\ selections = [v \in Versions |-> Absent]
    /\ events = <<>>
    /\ rows = [v \in Versions |-> [d \in Days |-> NoRow]]
    /\ call = [u \in Users |-> NoCall]
    /\ job = NoJob

Next ==
    \/ Tick
    \/ \E u \in Users :
        \/ BeginCreate(u)
        \/ \E v \in Versions : BeginDeactivate(u, v)
        \/ ReadNumber(u)
        \/ InsertVersion(u)
        \/ \E r \in Requests, v \in Versions, enabled \in BOOLEAN :
              Request(u, r, v, enabled)
        \/ CheckRequest(u)
        \/ InsertEvent(u)
        \/ Return(u)
    \/ \E d \in Days : SkipRun(d) \/ \E signals \in BOOLEAN : StartRun(d, signals)
    \/ \E v \in Versions : Advance(v)
    \/ CommitRun
    \/ GiveUpRun

Spec == Init /\ [][Next]_vars

-----------------------------------------------------------------------------

\* Users who create and deactivate versions at the same time get the numbers
\* 1, 2, 3 ... in the order of their commits: a higher number is never older.
VersionsAreInOrder ==
    \A v, w \in Versions : v < w /\ w \in Saved =>
        v \in Saved /\ selections[v].saved <= selections[w].saved

\* A request that is sent twice, by two sessions at once included, has one event.
OneEventPerRequest ==
    \A i, j \in DOMAIN events : events[i].request = events[j].request => i = j

\* Only an explicit activation starts an account, and only by 18:30 of the day:
\* a row goes back to an event that enabled this very version by then, which no
\* disabling followed that was requested later and saved by then, whenever the
\* day was run, run again or replayed.
RowsFollowActivation ==
    \A v \in Versions, d \in Days : rows[v][d] # NoRow =>
        \E i \in EventsOf(v) :
            /\ events[i].enabled
            /\ KnownOn(d, events[i].requested)
            /\ \A k \in EventsOf(v) :
                  ~events[k].enabled /\ events[i].at < events[k].at =>
                      ~KnownOn(d, events[k].saved)

\* The account of a superseded version takes no more signals: none of a day by
\* whose 18:30 a later version, active or not, had been saved.
SupersededTakesNoSignals ==
    \A v \in Versions, d, e \in Days : e \in rows[v][d] =>
        \A w \in Saved : v < w => ~KnownOn(e, selections[w].saved)

\* What an account took stays in all its later rows, and no row knows signals
\* of a later day: retries and replays neither lose nor anticipate a position.
HistoryIsCarried ==
    \A v \in Versions, d, e \in Days :
        /\ rows[v][d] # NoRow => rows[v][d] \subseteq 1..d
        /\ d < e /\ rows[v][d] # NoRow /\ rows[v][e] # NoRow => rows[v][d] \subseteq rows[v][e]

\* A run of a day that has been recorded adds the versions that are missing and
\* never changes or removes a row.
RowsAreFrozen ==
    [][\A v \in Versions, d \in Days :
        rows[v][d] # NoRow => rows'[v][d] = rows[v][d]]_vars

=============================================================================
