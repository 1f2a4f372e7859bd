------------------------------ MODULE JobLocks ------------------------------
(***************************************************************************)
(* The host-local job locks of app/core/job_lock.py.                       *)
(*                                                                         *)
(* A scheduled job is wrapped by prevent_concurrent_runs, which takes the  *)
(* job's locks one after the other in the sorted order of their names with *)
(* a non-blocking flock, writes who runs into each lock file, and gives    *)
(* everything back in reverse order.  One lock that is taken ends the      *)
(* attempt with exit code 75.  A killed process loses its flocks but       *)
(* leaves its owner files as they were.                                    *)
(*                                                                         *)
(* A lock is its position in the sorted order of the names:                *)
(* analysis-heavy < forward-selected < forward-standard.                   *)
(***************************************************************************)
EXTENDS Integers

CONSTANTS
    Jobs,       \* the scheduled processes
    Locks,      \* lock names, as positions in their sorted order
    Needs,      \* Needs[p]: the names given to p's decorator
    NoJob

\* A decorator without a name raises ValueError, so every job needs a lock;
\* finitely many names give every set of them a least one.
ASSUME NoJobAssumption == NoJob \notin Jobs
ASSUME LocksAssumption == Locks \subseteq Nat
ASSUME NeedsAssumption == Needs \in [Jobs -> (SUBSET Locks) \ {{}}]

VARIABLES
    pc,         \* where each process is in its wrapper
    holder,     \* holder[l]: the process whose flock on l is granted
    owner,      \* owner[l]: the metadata in the lock file of l
    blockedBy   \* the process and the lock that rejected an attempt (ghost)

vars == <<pc, holder, owner, blockedBy>>

Locations == {"idle", "acquire", "announce", "run", "release", "unlock"}
Owner == [job: Jobs \cup {NoJob}, status: {"absent", "running", "released"}]
Blocker == [job: Jobs \cup {NoJob}, lock: Locks \cup {0}]
NoOwner == [job |-> NoJob, status |-> "absent"]
NoBlocker == [job |-> NoJob, lock |-> 0]

TypeOK ==
    /\ pc \in [Jobs -> Locations]
    /\ holder \in [Locks -> Jobs \cup {NoJob}]
    /\ owner \in [Locks -> Owner]
    /\ blockedBy \in [Jobs -> Blocker]

Held(p) == {l \in Locks : holder[l] = p}
Missing(p) == Needs[p] \ Held(p)

\* A faulty variant: in the order the decorator names them.
UnsortedNext(p, l) == l \in Missing(p)

\* The next lock of `for lock_name in sorted(set(lock_names))`.
NextLock(p, l) == l \in Missing(p) /\ \A m \in Missing(p) : l <= m

\* The innermost context of the ExitStack: the lock taken last.
InnermostLock(p, l) == l \in Held(p) /\ \A m \in Held(p) : m <= l

\* A finished attempt can no longer be what another attempt was rejected for.
ForgetBlocker(p) ==
    [q \in Jobs |-> IF q = p \/ blockedBy[q].job = p THEN NoBlocker ELSE blockedBy[q]]

-----------------------------------------------------------------------------

Start(p) ==
    /\ pc[p] = "idle"
    /\ pc' = [pc EXCEPT ![p] = "acquire"]
    /\ UNCHANGED <<holder, owner, blockedBy>>

\* A faulty variant: flock without LOCK_EX.
FlockIgnoringHolder(p) ==
    /\ pc[p] = "acquire"
    /\ \E l \in Locks :
        /\ NextLock(p, l)
        /\ holder' = [holder EXCEPT ![l] = p]
    /\ pc' = [pc EXCEPT ![p] = "announce"]
    /\ UNCHANGED <<owner, blockedBy>>

\* flock(LOCK_EX | LOCK_NB) is granted.
Flock(p) ==
    /\ pc[p] = "acquire"
    /\ \E l \in Locks :
        /\ NextLock(p, l)
        /\ holder[l] = NoJob
        /\ holder' = [holder EXCEPT ![l] = p]
    /\ pc' = [pc EXCEPT ![p] = "announce"]
    /\ UNCHANGED <<owner, blockedBy>>

\* A faulty variant that opens the lock file with "w".
RejectTruncatingOwner(p) ==
    /\ pc[p] = "acquire"
    /\ \E l \in Locks :
        /\ NextLock(p, l)
        /\ holder[l] # NoJob
        /\ owner' = [owner EXCEPT ![l] = NoOwner]
        /\ blockedBy' = [blockedBy EXCEPT ![p] = [job |-> holder[l], lock |-> l]]
    /\ pc' = [pc EXCEPT ![p] = "release"]
    /\ UNCHANGED holder

\* flock raises BlockingIOError: JobAlreadyRunning unwinds the ExitStack and
\* the wrapper exits with TEMPORARY_FAILURE_EXIT_CODE.
Reject(p) ==
    /\ pc[p] = "acquire"
    /\ \E l \in Locks :
        /\ NextLock(p, l)
        /\ holder[l] # NoJob
        /\ blockedBy' = [blockedBy EXCEPT ![p] = [job |-> holder[l], lock |-> l]]
    /\ pc' = [pc EXCEPT ![p] = "release"]
    /\ UNCHANGED <<holder, owner>>

\* _write_owner with status running, after the flock was granted.
Announce(p) ==
    /\ pc[p] = "announce"
    /\ \E l \in Locks :
        /\ InnermostLock(p, l)
        /\ owner' = [owner EXCEPT ![l] = [job |-> p, status |-> "running"]]
    /\ pc' = [pc EXCEPT ![p] = IF Missing(p) = {} THEN "run" ELSE "acquire"]
    /\ UNCHANGED <<holder, blockedBy>>

\* The wrapped main returns or raises; either way the ExitStack unwinds.
Finish(p) ==
    /\ pc[p] = "run"
    /\ pc' = [pc EXCEPT ![p] = "release"]
    /\ UNCHANGED <<holder, owner, blockedBy>>

\* The finally block of exclusive_job_lock: the owner file first ...
AnnounceRelease(p) ==
    /\ pc[p] = "release"
    /\ \E l \in Locks :
        /\ InnermostLock(p, l)
        /\ owner' = [owner EXCEPT ![l] = [job |-> p, status |-> "released"]]
    /\ pc' = [pc EXCEPT ![p] = "unlock"]
    /\ UNCHANGED <<holder, blockedBy>>

\* ... and then LOCK_UN.
Unlock(p) ==
    /\ pc[p] = "unlock"
    /\ \E l \in Locks :
        /\ InnermostLock(p, l)
        /\ holder' = [holder EXCEPT ![l] = NoJob]
    /\ pc' = [pc EXCEPT ![p] = "release"]
    /\ UNCHANGED <<owner, blockedBy>>

Exit(p) ==
    /\ pc[p] = "release"
    /\ Held(p) = {}
    /\ pc' = [pc EXCEPT ![p] = "idle"]
    /\ blockedBy' = ForgetBlocker(p)
    /\ UNCHANGED <<holder, owner>>

\* The process or its container is killed: the kernel drops every flock.
Crash(p) ==
    /\ pc[p] # "idle"
    /\ pc' = [pc EXCEPT ![p] = "idle"]
    /\ holder' = [l \in Locks |-> IF holder[l] = p THEN NoJob ELSE holder[l]]
    /\ blockedBy' = ForgetBlocker(p)
    /\ UNCHANGED owner

Init ==
    /\ pc = [p \in Jobs |-> "idle"]
    /\ holder = [l \in Locks |-> NoJob]
    /\ owner = [l \in Locks |-> NoOwner]
    /\ blockedBy = [p \in Jobs |-> NoBlocker]

Next ==
    \E p \in Jobs :
        \/ Start(p)
        \/ Flock(p)
        \/ Reject(p)
        \/ Announce(p)
        \/ Finish(p)
        \/ AnnounceRelease(p)
        \/ Unlock(p)
        \/ Exit(p)
        \/ Crash(p)

Spec == Init /\ [][Next]_vars

-----------------------------------------------------------------------------

\* Jobs that name a common lock never run their bodies at the same time:
\* the forward jobs and the heavy analyses exclude each other.
MutualExclusion ==
    \A p, q \in Jobs :
        p # q /\ pc[p] = "run" /\ pc[q] = "run" => Needs[p] \cap Needs[q] = {}

\* While a job runs its body, every lock file it holds names it as the running
\* owner: a predecessor's late "released" never overwrites it, which is why
\* exclusive_job_lock writes the owner file before LOCK_UN.
OwnerFileNamesTheRunner ==
    \A p \in Jobs : pc[p] = "run" =>
        \A l \in Needs[p] : owner[l] = [job |-> p, status |-> "running"]

\* Rejections cannot be circular.  A job is turned away by one that is ahead of
\* it in the sorted order: all the blocker still misses lies beyond the lock
\* they met at, and if the blocker is turned away too, that happens further on.
\* So of several jobs started together one at least is not turned away by the
\* others, whatever sets of locks their decorators name.
RejectedByOneAhead ==
    \A p, q \in Jobs : blockedBy[p].job = q =>
        /\ pc[q] \in {"acquire", "announce"} =>
              \A m \in Missing(q) : blockedBy[p].lock < m
        /\ blockedBy[q].job # NoJob => blockedBy[p].lock < blockedBy[q].lock

=============================================================================
