---------------------------- MODULE ForwardMonitor ----------------------------
(***************************************************************************)
(* What app/services/forward_account_monitor.py tells an operator of the   *)
(* forward record.  The monitor only reads: every definition is a function *)
(* of the state of ForwardLedger and of what that state does not hold,     *)
(* given as parameters: whether PostgreSQL answers, the sessions for which *)
(* the last lines of the host's log name an error (hostErrors), whether an *)
(* attempt for the expected session was started more than 30 minutes ago   *)
(* and never ended, and whether the output volume is too full.             *)
(***************************************************************************)
EXTENDS ForwardLedger

\* expected_forward_session_date: the latest session whose 18:30 has passed; 0
\* before the first one.
ExpectedSession == IF clock.starts > 0 THEN clock.day ELSE clock.day - 1

\* read_host_attempts: the sessions with an error among the lines of the log; a
\* line counts for the day it was written on.
HostErrors(lines) == {l.day : l \in {m \in lines : m.status = "error"}}

\* The sessions some row is there for, and those some attempt ended on with
\* success or error; what was skipped, or only started, does not count.
ObservedDays == {d \in Days : \E p \in PairOf(d) : ledger[p] # Absent}
AttemptDays == {d \in Days : runs[d] \cap {"success", "error"} # {}}

\* What the monitor counts its sessions from.
StartCandidates(hostErrors) ==
    {d \in ObservedDays \cup AttemptDays \cup hostErrors : d <= ExpectedSession}

\* A faulty variant that starts from the last evidence, not from the first.
LatestOn(hostErrors) ==
    LET known == StartCandidates(hostErrors)
    IN  IF known = {} THEN ExpectedSession
        ELSE CHOOSE d \in known : \A e \in known : e <= d

FirstDay(hostErrors) ==
    LET known == StartCandidates(hostErrors)
    IN  IF known = {} THEN ExpectedSession
        ELSE CHOOSE d \in known : \A e \in known : d <= e

ExpectedDays(hostErrors) ==
    {d \in Days : FirstDay(hostErrors) <= d /\ d <= ExpectedSession}

MissingDays(hostErrors) == {d \in ExpectedDays(hostErrors) : ~Committed(d)}

\* A faulty variant that takes the expected session for a problem before its
\* rows are there.
ProblemsOfTheDay ==
    {p \in Paths : (ledger[p] # Absent \/ p[2] = ExpectedSession)
                      /\ ExportStatus(p) # "ok"}

\* The copies of the expected session and of every other one with rows.
ExportProblems == {p \in Paths : ledger[p] # Absent /\ ExportStatus(p) # "ok"}

\* An attempt for the expected session failed, in job_runs or on the host.
FailureIn(d, hostErrors) == d \in Days /\ ("error" \in runs[d] \/ d \in hostErrors)

\* The warnings.  The categories that name why an attempt failed are one warning
\* here, "failed_attempt"; "three_retries_failed", the third failure of a session,
\* never comes without one of them and does not change the status.
Warnings(hostErrors, unfinished, full) ==
    {w \in {"missing_business_sessions", "failed_attempt", "unfinished_job_attempt",
            "output_capacity_insufficient", "json_audit_problem"} :
        \/ w = "missing_business_sessions" /\ MissingDays(hostErrors) # {}
        \/ w = "failed_attempt" /\ FailureIn(ExpectedSession, hostErrors)
        \/ w = "unfinished_job_attempt" /\ unfinished
        \/ w = "output_capacity_insufficient" /\ full
        \/ w = "json_audit_problem" /\ ExportProblems # {}}

\* load_forward_account_monitor: without PostgreSQL it is the outage and nothing
\* else; with it, the chain's own verification stands beside the status, not in it.
Shown(reachable, hostErrors, unfinished, full) ==
    IF reachable THEN Warnings(hostErrors, unfinished, full) ELSE {"database_unavailable"}

Status(reachable, hostErrors, unfinished, full) ==
    IF Shown(reachable, hostErrors, unfinished, full) = {} THEN "ok" ELSE "warning"

ChainStatus == IF ~Verified(TRUE) THEN "invalid" ELSE IF chain = <<>> THEN "empty" ELSE "ok"

-----------------------------------------------------------------------------

\* Once something is known of a session, a later one that was missed is never
\* forgotten: it stays on the monitor's list, whatever rows and attempts of other
\* sessions come in, until its rows are there.
MissedDaysStay ==
    [][\A d \in MissingDays({}) :
        (\E e \in StartCandidates({}) : e <= d) =>
            Committed(d)' \/ d \in MissingDays({})']_vars

\* No false alarm: as long as nothing failed and nobody touched the copies,
\* the monitor complains of no copy and of no chain while the job and the
\* operator's command are at rest, whatever attempts were made in what order.
QuietWhileHealthy ==
    /\ used.faults = 0 /\ used.damage = 0
    /\ \A c \in Callers : pc[c] = "idle"
    => "json_audit_problem" \notin Shown(TRUE, {}, FALSE, FALSE) /\ ChainStatus # "invalid"

=============================================================================
