---------------------------- MODULE ForwardLedger ----------------------------
(***************************************************************************)
(* The daily forward record: jobs/run_forward_shadow.py freezes one        *)
(* immutable row per account and session day in PostgreSQL, exports each   *)
(* row as an audit copy and registers the copy in the chain of AuditChain; *)
(* an operator may at any time register existing copies with               *)
(* jobs/verify_audit_integrity.py --initialize-existing.                   *)
(*                                                                         *)
(* One forward job runs at a time (JobLocks!MutualExclusion); the operator *)
(* takes no job lock.  The steps of the two interleave, every step may     *)
(* raise, and the job's process may die between any two of them.           *)
(*                                                                         *)
(* The state and the events of an account that one attempt computes are    *)
(* one value, the attempt's result; an exported file holds that value, or  *)
(* Altered after somebody edited it.  Days are XTKS sessions.              *)
(***************************************************************************)
EXTENDS AuditChain

CONSTANTS
    Accounts,   \* the standard pair, short_term and mid_term
    Days,       \* the sessions, 1 .. LastDay
    LastDay,
    Weekday,    \* Weekday[d] as launchd counts: 0 and 7 are Sunday, 1 is Monday
    StartTimes, \* launchd's start times of an evening: 18:30, 20:30 and 22:30
    Results,    \* what an analysis may come to for a day
    Altered,    \* the content of an edited export
    ExportRank, \* ExportRank[c][p]: the place of p in the order c works through
    MaxFaults,  \* bound: steps that raise, torn lines and crashes
    MaxManual,  \* bound: runs without --daily
    MaxDamage   \* bound: exports edited or deleted by hand

ASSUME CallersAssumption == Callers = {"job", "operator"}
ASSUME DaysAssumption == LastDay \in Nat \ {0} /\ Days = 1..LastDay
ASSUME WeekdayAssumption == Weekday \in [Days -> 1..5]
ASSUME StartTimesAssumption == StartTimes \in Nat \ {0}
ASSUME PathsAssumption == Paths = Accounts \X Days
ASSUME ContentsAssumption == Contents = Results \cup {Altered} /\ Altered \notin Results
ASSUME BoundsAssumption == MaxFaults \in Nat /\ MaxManual \in Nat /\ MaxDamage \in Nat
ASSUME RankAssumption ==
    /\ ExportRank \in [Callers -> [Paths -> Nat]]
    /\ \A c \in Callers, p, q \in Paths : ExportRank[c][p] = ExportRank[c][q] => p = q

VARIABLES
    clock,      \* the current session and how many of its start times have come
    ledger,     \* virtual_account_daily_states: the frozen result, or Absent
    pc,         \* where the job and the operator's command are
    todo,       \* the exports each of them still has to record
    attempt,    \* the job's decision day, --daily, and whether some registered
                \* copy is damaged ever since it started (ghost)
    runs,       \* what job_runs says of the attempts for each day
    used        \* how many faults, manual runs and damages there were

ledgerVars == <<clock, ledger, pc, todo, attempt, runs, used>>
vars == <<files, chain, torn, head, call, clock, ledger, pc, todo, attempt, runs, used>>

JobLocations == {"idle", "verify", "audit", "analyse", "export", "record", "failing"}
Outcomes == {"started", "frozen", "success", "error"}
NoAttempt == [day |-> 1, daily |-> FALSE, damaged |-> FALSE]

TypeOK ==
    /\ ChainTypeOK
    /\ clock \in [day: Days, starts: 0..StartTimes]
    /\ ledger \in [Paths -> Results \cup {Absent}]
    /\ pc \in [Callers -> JobLocations]
    /\ todo \in [Callers -> SUBSET Paths]
    /\ attempt \in [day: Days, daily: BOOLEAN, damaged: BOOLEAN]
    /\ runs \in [Days -> SUBSET Outcomes]
    /\ used \in [faults: 0..MaxFaults, manual: 0..MaxManual, damage: 0..MaxDamage]

PairOf(d) == Accounts \X {d}
Committed(d) == \A p \in PairOf(d) : ledger[p] # Absent

\* audit_virtual_account_export: the copy at p against the row in PostgreSQL.
ExportStatus(p) ==
    IF ledger[p] = Absent THEN "db_state_missing"
    ELSE IF files[p] = Absent THEN "json_missing"
    ELSE IF files[p] # ledger[p] THEN "json_modified"
    ELSE "ok"

PairStatuses == {ExportStatus(p) : p \in PairOf(attempt.day)}

\* The next export of the loop that c is in.
IsNext(c, p) ==
    /\ p \in todo[c]
    /\ \A q \in todo[c] : ExportRank[c][p] <= ExportRank[c][q]

Goto(c, location) == pc' = [pc EXCEPT ![c] = location]
\* The process of c is gone, and with it what it knew.
Leave(c) ==
    /\ Goto(c, "idle")
    /\ todo' = [todo EXCEPT ![c] = {}]
    /\ attempt' = IF c = "job" THEN NoAttempt ELSE attempt
Report(status) == runs' = [runs EXCEPT ![attempt.day] = @ \cup {status}]
Spend(kind) == used' = [used EXCEPT ![kind] = @ + 1]
CanFail == used.faults < MaxFaults

-----------------------------------------------------------------------------
(* The calendar.                                                           *)

\* The days for which StartCalendarInterval of the LaunchAgent has entries.
LaunchdWeekdays == 2..6
Scheduled(d) == Weekday[d] \in LaunchdWeekdays

\* The next start time of the evening; 18:30 JST is the first of them.
Tick ==
    /\ clock.starts < StartTimes
    /\ clock' = [clock EXCEPT !.starts = @ + 1]

\* launchd has no entry for it; or the job runs still, and launchd starts it no
\* second time, or a run by hand holds the locks and the wrapper exits with 75.
NobodyStarts ==
    /\ ~Scheduled(clock.day) \/ pc["job"] # "idle"
    /\ Tick
    /\ UNCHANGED <<chainVars, ledger, pc, todo, attempt, runs, used>>

\* The host sleeps, or Docker does not answer and the wrapper exits with 75.
StartLost ==
    /\ CanFail
    /\ Scheduled(clock.day)
    /\ pc["job"] = "idle"
    /\ Tick
    /\ Spend("faults")
    /\ UNCHANGED <<chainVars, ledger, pc, todo, attempt, runs>>

NextDay ==
    /\ clock.day < LastDay
    /\ clock.starts = StartTimes
    /\ clock' = [day |-> clock.day + 1, starts |-> 0]
    /\ UNCHANGED <<chainVars, ledger, pc, todo, attempt, runs, used>>

-----------------------------------------------------------------------------
(* The job.                                                                *)

\* A "started" row is committed; --daily decides as of 18:30 of the same day,
\* and before that daily_preflight_reason has the attempt end as skipped.
Begin(daily) ==
    /\ pc["job"] = "idle"
    /\ attempt' = [day |-> clock.day, daily |-> daily, damaged |-> ~FilesMatch]
    /\ runs' = [runs EXCEPT ![clock.day] = @ \cup {"started"}]
    /\ Goto("job", "verify")
    /\ UNCHANGED <<chainVars, ledger, todo>>

\* The LaunchAgent's start time has come.
LaunchdStarts ==
    /\ Scheduled(clock.day)
    /\ Tick
    /\ Begin(TRUE)
    /\ UNCHANGED used

\* The same command at a login (RunAtLoad) or by hand, on any day.
StartDaily ==
    /\ clock.starts > 0
    /\ Begin(TRUE)
    /\ UNCHANGED <<clock, used>>

StartManual ==
    /\ used.manual < MaxManual
    /\ Begin(FALSE)
    /\ Spend("manual")
    /\ UNCHANGED clock

\* A faulty variant that does not look at the verification's result.
AcceptUnverified ==
    /\ pc["job"] = "verify"
    /\ LockFree
    /\ Goto("job", IF attempt.daily THEN "audit" ELSE "analyse")
    /\ UNCHANGED <<chainVars, clock, ledger, todo, attempt, runs, used>>

\* verify_audit_chain reports "ok" or "empty" ...
ChainAccepted ==
    /\ pc["job"] = "verify"
    /\ LockFree
    /\ Verified(TRUE)
    /\ Goto("job", IF attempt.daily THEN "audit" ELSE "analyse")
    /\ UNCHANGED <<chainVars, clock, ledger, todo, attempt, runs, used>>

\* ... or "invalid": AuditIntegrityError.
ChainRefused ==
    /\ pc["job"] = "verify"
    /\ LockFree
    /\ ~Verified(TRUE)
    /\ Goto("job", "failing")
    /\ UNCHANGED <<chainVars, clock, ledger, todo, attempt, runs, used>>

\* A faulty variant that looks at the rows only and never at the copies.
FrozenByRows ==
    /\ pc["job"] = "audit"
    /\ "db_state_missing" \notin PairStatuses
    /\ "json_modified" \notin PairStatuses
    /\ Report("frozen")
    /\ Leave("job")
    /\ UNCHANGED <<chainVars, clock, ledger, used>>

\* Both copies are there and equal to PostgreSQL: the attempt ends as skipped.
AlreadyFrozen ==
    /\ pc["job"] = "audit"
    /\ PairStatuses = {"ok"}
    /\ Report("frozen")
    /\ Leave("job")
    /\ UNCHANGED <<chainVars, clock, ledger, used>>

\* FileExistsError: an export differs from PostgreSQL.
ExportModified ==
    /\ pc["job"] = "audit"
    /\ "json_modified" \in PairStatuses
    /\ Goto("job", "failing")
    /\ UNCHANGED <<chainVars, clock, ledger, todo, attempt, runs, used>>

\* The rows are there and an export is not: write the missing copies only.
RepairExports ==
    /\ pc["job"] = "audit"
    /\ PairStatuses \subseteq {"ok", "json_missing"}
    /\ "json_missing" \in PairStatuses
    /\ todo' = [todo EXCEPT !["job"] = PairOf(attempt.day)]
    /\ Goto("job", "export")
    /\ UNCHANGED <<chainVars, clock, ledger, attempt, runs, used>>

NothingFrozen ==
    /\ pc["job"] = "audit"
    /\ "db_state_missing" \in PairStatuses
    /\ "json_modified" \notin PairStatuses
    /\ Goto("job", "analyse")
    /\ UNCHANGED <<chainVars, clock, ledger, todo, attempt, runs, used>>

\* A faulty variant that replaces a row on conflict.
PersistOver(r) ==
    /\ pc["job"] = "analyse"
    /\ ledger' = [p \in Paths |-> IF p \in PairOf(attempt.day) THEN r ELSE ledger[p]]
    /\ todo' = [todo EXCEPT !["job"] = PairOf(attempt.day)]
    /\ Goto("job", "export")
    /\ UNCHANGED <<chainVars, clock, attempt, runs, used>>

\* A faulty variant that commits after each account.
PersistOne(r) ==
    /\ pc["job"] = "analyse"
    /\ \E q \in PairOf(attempt.day) :
        /\ ledger[q] \in {Absent, r}
        /\ ledger' = [ledger EXCEPT ![q] = r]
    /\ todo' = [todo EXCEPT !["job"] = PairOf(attempt.day)]
    /\ Goto("job", "export")
    /\ UNCHANGED <<chainVars, clock, attempt, runs, used>>

\* The analysis comes to r; both accounts' rows and events are inserted, or
\* found with the same input, and committed in one transaction.
Persist(r) ==
    /\ pc["job"] = "analyse"
    /\ \A p \in PairOf(attempt.day) : ledger[p] \in {Absent, r}
    /\ ledger' = [p \in Paths |-> IF p \in PairOf(attempt.day) THEN r ELSE ledger[p]]
    /\ todo' = [todo EXCEPT !["job"] = PairOf(attempt.day)]
    /\ Goto("job", "export")
    /\ UNCHANGED <<chainVars, clock, attempt, runs, used>>

\* VirtualAccountStateConflict: the day is frozen with another input or result.
PersistConflict(r) ==
    /\ pc["job"] = "analyse"
    /\ \E p \in PairOf(attempt.day) : ledger[p] \notin {Absent, r}
    /\ Goto("job", "failing")
    /\ UNCHANGED <<chainVars, clock, ledger, todo, attempt, runs, used>>

\* export_virtual_account_day: the temporary file replaces the missing one, or
\* the file is there with the same text.
Export(p) ==
    /\ pc["job"] = "export"
    /\ IsNext("job", p)
    /\ files[p] \in {Absent, ledger[p]}
    /\ files' = [files EXCEPT ![p] = ledger[p]]
    /\ Goto("job", "record")
    /\ UNCHANGED <<chain, torn, head, call, clock, ledger, todo, attempt, runs, used>>

\* FileExistsError: the copy differs already.
ExportDiffers(p) ==
    /\ pc["job"] = "export"
    /\ IsNext("job", p)
    /\ files[p] \notin {Absent, ledger[p]}
    /\ Goto("job", "failing")
    /\ UNCHANGED <<chainVars, clock, ledger, todo, attempt, runs, used>>

Succeed ==
    /\ pc["job"] = "export"
    /\ todo["job"] = {}
    /\ Report("success")
    /\ Leave("job")
    /\ UNCHANGED <<chainVars, clock, ledger, used>>

\* The except clause: the error row goes through a session of its own, and when
\* that fails too it is lost.
ReportFailure ==
    /\ pc["job"] = "failing"
    /\ Report("error") \/ UNCHANGED runs
    /\ Leave("job")
    /\ UNCHANGED <<chainVars, clock, ledger, used>>

-----------------------------------------------------------------------------
(* record_audit_export, called by the job after each export and by the     *)
(* operator's command in a loop.                                           *)

InRecord(c, p) ==
    /\ pc[c] = "record"
    /\ call[c].at = "none"
    /\ IsNext(c, p)

\* A faulty variant that does not advance its loop.
AfterRecordStays(c) ==
    /\ UNCHANGED todo
    /\ Goto(c, IF c = "job" THEN "export" ELSE "record")

\* The job goes on to its next export, the operator's loop to its next file.
AfterRecord(c) ==
    /\ \E p \in todo[c] : IsNext(c, p) /\ todo' = [todo EXCEPT ![c] = @ \ {p}]
    /\ Goto(c, IF c = "job" THEN "export" ELSE "record")

RecordKnown(c, p) ==
    /\ InRecord(c, p)
    /\ AlreadyRecorded(p)
    /\ AfterRecord(c)
    /\ UNCHANGED <<chainVars, clock, ledger, attempt, runs, used>>

RecordBegins(c, p) ==
    /\ InRecord(c, p)
    /\ BeginRecord(c, p)
    /\ UNCHANGED ledgerVars

RecordAppends(c) ==
    /\ AppendRecord(c)
    /\ UNCHANGED ledgerVars

RecordEnds(c) ==
    /\ WriteHead(c)
    /\ AfterRecord(c)
    /\ UNCHANGED <<clock, ledger, attempt, runs, used>>

\* The exception ends the command: the job reports it, the operator's does not.
Abort(c) ==
    /\ Goto(c, IF c = "job" THEN "failing" ELSE "idle")
    /\ todo' = [todo EXCEPT ![c] = {}]

\* A faulty variant that swallows the exception and goes on.
RefusalSwallowed(c, p) ==
    /\ InRecord(c, p)
    /\ RecordRaises(p)
    /\ AfterRecord(c)
    /\ UNCHANGED <<chainVars, clock, ledger, attempt, runs, used>>

RecordRefused(c, p) ==
    /\ InRecord(c, p)
    /\ RecordRaises(p)
    /\ Abort(c)
    /\ UNCHANGED <<chainVars, clock, ledger, attempt, runs, used>>

-----------------------------------------------------------------------------
(* The operator.                                                           *)

\* discover_formal_exports finds files that all match PostgreSQL; with a
\* problem, or without the option, the command only verifies and reports.
OperatorStart ==
    /\ pc["operator"] = "idle"
    /\ Existing # {}
    /\ \A p \in Existing : ExportStatus(p) = "ok"
    /\ todo' = [todo EXCEPT !["operator"] = Existing]
    /\ Goto("operator", "record")
    /\ UNCHANGED <<chainVars, clock, ledger, attempt, runs, used>>

\* The command verifies the chain once more, under the lock, and reports.
OperatorEnd ==
    /\ LockFree
    /\ pc["operator"] = "record"
    /\ todo["operator"] = {}
    /\ Goto("operator", "idle")
    /\ UNCHANGED <<chainVars, clock, ledger, todo, attempt, runs, used>>

-----------------------------------------------------------------------------
(* Faults and damage.                                                      *)

\* Capacity, database, analysis or file system: the step c is in raises.
StepRaises(c) ==
    /\ CanFail
    /\ pc[c] \notin {"idle", "failing"}
    /\ \/ call[c].at = "none" /\ UNCHANGED chainVars
       \/ TearAppend(c)
       \/ DropCall(c)
    /\ Abort(c)
    /\ Spend("faults")
    /\ UNCHANGED <<clock, ledger, attempt, runs>>

\* The process is killed.
Crash(c) ==
    /\ CanFail
    /\ pc[c] # "idle"
    /\ \/ call[c].at = "none" /\ UNCHANGED chainVars
       \/ DropCall(c)
    /\ Leave(c)
    /\ Spend("faults")
    /\ UNCHANGED <<clock, ledger, runs>>

\* Somebody edits or deletes an export.
Damage(p) ==
    /\ used.damage < MaxDamage
    /\ files[p] # Absent
    /\ \E content \in {Altered, Absent} : PutFile(p, content)
    /\ attempt' = [attempt EXCEPT !.damaged = @ /\ ~FilesMatch']
    /\ Spend("damage")
    /\ UNCHANGED <<clock, ledger, pc, todo, runs>>

-----------------------------------------------------------------------------

Init ==
    /\ ChainInit
    /\ clock = [day |-> 1, starts |-> 0]
    /\ ledger = [p \in Paths |-> Absent]
    /\ pc = [c \in Callers |-> "idle"]
    /\ todo = [c \in Callers |-> {}]
    /\ attempt = NoAttempt
    /\ runs = [d \in Days |-> {}]
    /\ used = [faults |-> 0, manual |-> 0, damage |-> 0]

RecordNext(c) ==
    \/ \E p \in Paths : RecordKnown(c, p) \/ RecordBegins(c, p) \/ RecordRefused(c, p)
    \/ RecordAppends(c)
    \/ RecordEnds(c)

\* What the job does once it is started.
JobNext ==
    \/ ChainAccepted
    \/ ChainRefused
    \/ AlreadyFrozen
    \/ ExportModified
    \/ RepairExports
    \/ NothingFrozen
    \/ \E r \in Results : Persist(r) \/ PersistConflict(r)
    \/ \E p \in Paths : Export(p) \/ ExportDiffers(p)
    \/ RecordNext("job")
    \/ Succeed
    \/ ReportFailure

OperatorNext == RecordNext("operator") \/ OperatorEnd

\* A start time comes, and the job is started or not.
StartTime == NobodyStarts \/ StartLost \/ LaunchdStarts

Next ==
    \/ StartTime
    \/ NextDay
    \/ StartDaily
    \/ StartManual
    \/ JobNext
    \/ OperatorStart
    \/ OperatorNext
    \/ \E c \in Callers : StepRaises(c) \/ Crash(c)
    \/ \E p \in Paths : Damage(p)

Spec == Init /\ [][Next]_vars

\* The processes run on unless they crash; a lock that is waited for is given
\* back by a process that runs on; and the evening's start times come.  Each of
\* them starts the job once at most: nothing has the job started again and again.
Fairness ==
    /\ WF_vars(JobNext)
    /\ WF_vars(OperatorNext)
    /\ WF_vars(StartTime)

FairSpec == Spec /\ Fairness

-----------------------------------------------------------------------------

\* A row of virtual_account_daily_states is never replaced: of all attempts for
\* a day, manual ones and retries with later data included, the first that
\* committed decides ("the first successful result only is stored").
LedgerFrozen == [][\A p \in Paths : ledger[p] # Absent => ledger'[p] = ledger[p]]_vars

\* The two accounts are frozen together and from the same attempt, whatever
\* raises or dies in between.
PairAtomic == \A d \in Days : \A p, q \in PairOf(d) : ledger[p] = ledger[q]

\* PostgreSQL is the source of truth: a copy that nobody edited is the copy of
\* a committed row, and so is every record of the chain about such a copy.  No
\* crash leaves an export of a transaction that was rolled back.
ExportBackedByLedger ==
    /\ \A p \in Existing : ledger[p] # Absent /\ files[p] \in {ledger[p], Altered}
    /\ \A i \in DOMAIN chain :
        /\ ledger[chain[i].path] # Absent
        /\ chain[i].content \in {ledger[chain[i].path], Altered}

\* A day that some attempt reported as recorded, or as frozen already, has both
\* rows and both copies in the chain.
SuccessMeansAudited ==
    \A d \in Days : runs[d] \cap {"success", "frozen"} # {} =>
        Committed(d) /\ PairOf(d) \subseteq Tracked

\* An attempt that started after a registered copy was edited or deleted
\* freezes nothing, registers nothing and does not report success, whoever
\* else uses the chain meanwhile and unless the copy is put back.  A copy that
\* is damaged later, behind the verification the attempt began with, is found
\* before the next record: nobody begins one.
DamagedHistoryStops ==
    [][/\ attempt.damaged =>
           /\ UNCHANGED ledger
           /\ call["job"].at = "none"
           /\ \A d \in Days : runs'[d] \subseteq runs[d] \cup {"error"}
       /\ ~FilesMatch =>
           \A c \in Callers : call[c].at = "none" => call'[c].at = "none"]_vars

\* Every attempt and every command comes to its end: the two never wait for
\* each other's chain lock for ever, not even after one of them was killed.
AttemptsEnd == \A c \in Callers : pc[c] # "idle" ~> pc[c] = "idle"

\* How often something went wrong, or somebody ran the job without --daily.
Disturbances == used.faults + used.manual + used.damage

Recorded(d) == PairOf(d) \subseteq Tracked /\ head = chain

\* One attempt is enough, and no row or copy is left half done for ever.  When
\* the rows of a day are committed and its copies are not all in the chain, the
\* next of the evening's start times completes it, unless something goes wrong
\* until then; for there are three of them, and no fourth.
NextStartCompletes(d, n) ==
    /\ Scheduled(d) /\ clock.day = d /\ clock.starts < StartTimes
    /\ pc["job"] = "idle"
    /\ Committed(d)
    /\ Verified(TRUE)
    /\ Disturbances = n
    ~> Recorded(d) \/ Disturbances > n

\* An export that a dead job left out of the chain has every attempt refused;
\* the operator's command registers it, whether or not the job runs meanwhile.
OperatorRegisters(p, n) ==
    /\ pc["operator"] = "record" /\ p \in todo["operator"]
    /\ Verified(FALSE)
    /\ Disturbances = n
    ~> p \in Tracked \/ Disturbances > n

UndisturbedRunsComplete ==
    \A n \in 0..(MaxFaults + MaxManual + MaxDamage) :
        /\ \A d \in Days : NextStartCompletes(d, n)
        /\ \A p \in Paths : OperatorRegisters(p, n)

\* What docs/08_raspberry_pi_operations.md says of the schedule: on weekdays the
\* job is started at 18:30, 20:30 and 22:30.  When the last of these times has
\* come, some attempt was made for the day (Weekday is 1..5 for every session).
BusinessDaysAreAttempted ==
    clock.starts = StartTimes => "started" \in runs[clock.day]

\* While nobody touches the exports, ledger and chain are a DailyAudit.
Audit == INSTANCE DailyAudit WITH
    frozen <- ledger,
    log <- [i \in DOMAIN chain |-> [path |-> chain[i].path, content |-> chain[i].content]]

AuditSpec == Audit!Spec

=============================================================================
