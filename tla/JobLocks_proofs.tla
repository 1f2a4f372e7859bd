-------------------------- MODULE JobLocks_proofs ---------------------------
(***************************************************************************)
(* The properties of JobLocks for any set of jobs, any lock names and any  *)
(* assignment of names to jobs.                                            *)
(***************************************************************************)
EXTENDS JobLocks, TLAPS

\* An idle job holds nothing and has turned nobody away; a body runs with every
\* lock its decorator names; what a job holds it asked for.
HoldsWhatItNeeds ==
    \A p \in Jobs :
        /\ Held(p) \subseteq Needs[p]
        /\ pc[p] = "idle" => Held(p) = {}
        /\ pc[p] = "run" => Missing(p) = {}

\* On the way up a job holds an initial part of its sorted names.
AscendingOrder ==
    \A p \in Jobs : pc[p] \in {"acquire", "announce"} =>
        \A l \in Locks, m \in Needs[p] :
            holder[l] = p /\ holder[m] # p => l < m

\* Only a job that is on its way out after a rejection has a blocker, and a
\* blocker has not finished the attempt it blocked with.
BlockerIsAlive ==
    \A p \in Jobs :
        /\ blockedBy[p].job # NoJob => pc[p] \in {"release", "unlock"}
        /\ \A q \in Jobs : blockedBy[p].job = q => pc[q] # "idle"

\* A job that was turned away holds only locks before the one it was refused.
HeldBeforeBlock ==
    \A p \in Jobs : blockedBy[p].job # NoJob =>
        \A l \in Locks : holder[l] = p => l < blockedBy[p].lock

\* Every held lock whose owner file is already written names its holder.
OwnerFilesCurrent ==
    \A p \in Jobs : pc[p] \in {"acquire", "announce", "run"} =>
        \A l \in Locks : holder[l] = p =>
            \/ owner[l] = [job |-> p, status |-> "running"]
            \/ pc[p] = "announce" /\ \A m \in Locks : holder[m] = p => m <= l

IInv ==
    /\ TypeOK
    /\ HoldsWhatItNeeds
    /\ AscendingOrder
    /\ BlockerIsAlive
    /\ HeldBeforeBlock
    /\ OwnerFilesCurrent
    /\ RejectedByOneAhead

USE NoJobAssumption, LocksAssumption, NeedsAssumption

-----------------------------------------------------------------------------

LEMMA InitInv == Init => IInv
  BY DEF Init, IInv, TypeOK, HoldsWhatItNeeds, AscendingOrder, BlockerIsAlive,
         HeldBeforeBlock, OwnerFilesCurrent, RejectedByOneAhead, Held, Missing, Locations, Owner,
         Blocker, NoOwner, NoBlocker

LEMMA TypeStep == TypeOK /\ [Next]_vars => TypeOK'
<1> SUFFICES ASSUME TypeOK, [Next]_vars PROVE TypeOK'
    OBVIOUS
<1> USE DEF TypeOK, Locations, Owner, Blocker, NoBlocker
<1>1. CASE UNCHANGED vars
    BY <1>1 DEF vars
<1>2. ASSUME NEW p \in Jobs, Start(p) PROVE TypeOK'
    BY <1>2 DEF Start
<1>3. ASSUME NEW p \in Jobs, Flock(p) PROVE TypeOK'
    BY <1>3 DEF Flock
<1>4. ASSUME NEW p \in Jobs, Reject(p) PROVE TypeOK'
    BY <1>4 DEF Reject
<1>5. ASSUME NEW p \in Jobs, Announce(p) PROVE TypeOK'
    BY <1>5 DEF Announce
<1>6. ASSUME NEW p \in Jobs, Finish(p) PROVE TypeOK'
    BY <1>6 DEF Finish
<1>7. ASSUME NEW p \in Jobs, AnnounceRelease(p) PROVE TypeOK'
    BY <1>7 DEF AnnounceRelease
<1>8. ASSUME NEW p \in Jobs, Unlock(p) PROVE TypeOK'
    BY <1>8 DEF Unlock
<1>9. ASSUME NEW p \in Jobs, Exit(p) PROVE TypeOK'
    BY <1>9 DEF Exit, ForgetBlocker
<1>10. ASSUME NEW p \in Jobs, Crash(p) PROVE TypeOK'
    BY <1>10 DEF Crash, ForgetBlocker
<1>11. QED
    BY <1>1, <1>2, <1>3, <1>4, <1>5, <1>6, <1>7, <1>8, <1>9, <1>10 DEF Next

LEMMA HoldsStep == IInv /\ [Next]_vars => HoldsWhatItNeeds'
<1> SUFFICES ASSUME IInv, [Next]_vars PROVE HoldsWhatItNeeds'
    OBVIOUS
<1> USE DEF IInv, TypeOK, HoldsWhatItNeeds, Held, Missing
<1>1. CASE UNCHANGED vars
    BY <1>1 DEF vars
<1>2. ASSUME NEW p \in Jobs, Start(p) PROVE HoldsWhatItNeeds'
    BY <1>2 DEF Start
<1>3. ASSUME NEW p \in Jobs, Flock(p) PROVE HoldsWhatItNeeds'
    BY <1>3 DEF Flock, NextLock
<1>4. ASSUME NEW p \in Jobs, Reject(p) PROVE HoldsWhatItNeeds'
    BY <1>4 DEF Reject
<1>5. ASSUME NEW p \in Jobs, Announce(p) PROVE HoldsWhatItNeeds'
    BY <1>5 DEF Announce
<1>6. ASSUME NEW p \in Jobs, Finish(p) PROVE HoldsWhatItNeeds'
    BY <1>6 DEF Finish
<1>7. ASSUME NEW p \in Jobs, AnnounceRelease(p) PROVE HoldsWhatItNeeds'
    BY <1>7 DEF AnnounceRelease
<1>8. ASSUME NEW p \in Jobs, Unlock(p) PROVE HoldsWhatItNeeds'
    BY <1>8 DEF Unlock, InnermostLock
<1>9. ASSUME NEW p \in Jobs, Exit(p) PROVE HoldsWhatItNeeds'
    BY <1>9 DEF Exit
<1>10. ASSUME NEW p \in Jobs, Crash(p) PROVE HoldsWhatItNeeds'
    BY <1>10 DEF Crash
<1>11. QED
    BY <1>1, <1>2, <1>3, <1>4, <1>5, <1>6, <1>7, <1>8, <1>9, <1>10 DEF Next

LEMMA AscendingStep == IInv /\ [Next]_vars => AscendingOrder'
<1> SUFFICES ASSUME IInv, [Next]_vars,
                    NEW q \in Jobs, pc'[q] \in {"acquire", "announce"},
                    NEW l \in Locks, NEW m \in Needs[q],
                    holder'[l] = q, holder'[m] # q
             PROVE  l < m
    BY DEF AscendingOrder
<1>a. TypeOK /\ AscendingOrder /\ m \in Locks
    BY DEF IInv
<1>b. holder[l] = q /\ holder[m] # q /\ pc[q] \in {"acquire", "announce"} => l < m
    BY <1>a DEF AscendingOrder
<1>1. CASE UNCHANGED vars
    BY <1>1, <1>b DEF vars
<1>2. ASSUME NEW p \in Jobs, Start(p) PROVE l < m
  <2>1. holder[l] # q \/ pc[q] # "idle"
    BY DEF IInv, HoldsWhatItNeeds, Held
  <2>2. QED
    BY <1>2, <1>a, <1>b, <2>1 DEF Start, TypeOK
<1>3. ASSUME NEW p \in Jobs, Flock(p) PROVE l < m
  <2>1. PICK k \in Locks : NextLock(p, k) /\ holder' = [holder EXCEPT ![k] = p]
    BY <1>3 DEF Flock
  <2>2. CASE q = p /\ l = k
    BY <1>a, <2>1, <2>2 DEF NextLock, Missing, Held, TypeOK
  <2>3. CASE ~(q = p /\ l = k)
    BY <1>3, <1>a, <1>b, <2>1, <2>3 DEF Flock, TypeOK
  <2>4. QED
    BY <2>2, <2>3
<1>4. ASSUME NEW p \in Jobs, Reject(p) PROVE l < m
    BY <1>4, <1>a, <1>b DEF Reject, TypeOK
<1>5. ASSUME NEW p \in Jobs, Announce(p) PROVE l < m
    BY <1>5, <1>a, <1>b DEF Announce, TypeOK
<1>6. ASSUME NEW p \in Jobs, Finish(p) PROVE l < m
    BY <1>6, <1>a, <1>b DEF Finish, TypeOK
<1>7. ASSUME NEW p \in Jobs, AnnounceRelease(p) PROVE l < m
    BY <1>7, <1>a, <1>b DEF AnnounceRelease, TypeOK
<1>8. ASSUME NEW p \in Jobs, Unlock(p) PROVE l < m
    BY <1>8, <1>a, <1>b DEF Unlock, InnermostLock, Held, TypeOK
<1>9. ASSUME NEW p \in Jobs, Exit(p) PROVE l < m
    BY <1>9, <1>a, <1>b DEF Exit, TypeOK
<1>10. ASSUME NEW p \in Jobs, Crash(p) PROVE l < m
  <2>1. holder[l] = q /\ holder[m] # q /\ pc[q] \in {"acquire", "announce"}
    BY <1>10, <1>a DEF Crash, TypeOK
  <2>2. QED
    BY <1>b, <2>1
<1>11. QED
    BY <1>1, <1>2, <1>3, <1>4, <1>5, <1>6, <1>7, <1>8, <1>9, <1>10 DEF Next

LEMMA BlockerStep == IInv /\ [Next]_vars => BlockerIsAlive'
<1> SUFFICES ASSUME IInv, [Next]_vars PROVE BlockerIsAlive'
    OBVIOUS
<1> USE DEF IInv, TypeOK, HoldsWhatItNeeds, BlockerIsAlive, Held, Blocker,
            NoBlocker
<1>1. CASE UNCHANGED vars
    BY <1>1 DEF vars
<1>2. ASSUME NEW p \in Jobs, Start(p) PROVE BlockerIsAlive'
    BY <1>2 DEF Start
<1>3. ASSUME NEW p \in Jobs, Flock(p) PROVE BlockerIsAlive'
    BY <1>3 DEF Flock
<1>4. ASSUME NEW p \in Jobs, Reject(p) PROVE BlockerIsAlive'
    BY <1>4 DEF Reject, NextLock, Missing
<1>5. ASSUME NEW p \in Jobs, Announce(p) PROVE BlockerIsAlive'
    BY <1>5 DEF Announce
<1>6. ASSUME NEW p \in Jobs, Finish(p) PROVE BlockerIsAlive'
    BY <1>6 DEF Finish
<1>7. ASSUME NEW p \in Jobs, AnnounceRelease(p) PROVE BlockerIsAlive'
    BY <1>7 DEF AnnounceRelease
<1>8. ASSUME NEW p \in Jobs, Unlock(p) PROVE BlockerIsAlive'
    BY <1>8 DEF Unlock
<1>9. ASSUME NEW p \in Jobs, Exit(p) PROVE BlockerIsAlive'
    BY <1>9 DEF Exit, ForgetBlocker
<1>10. ASSUME NEW p \in Jobs, Crash(p) PROVE BlockerIsAlive'
    BY <1>10 DEF Crash, ForgetBlocker
<1>11. QED
    BY <1>1, <1>2, <1>3, <1>4, <1>5, <1>6, <1>7, <1>8, <1>9, <1>10 DEF Next

LEMMA BeforeStep == IInv /\ [Next]_vars => HeldBeforeBlock'
<1> SUFFICES ASSUME IInv, [Next]_vars,
                    NEW q \in Jobs, blockedBy'[q].job # NoJob,
                    NEW l \in Locks, holder'[l] = q
             PROVE  l < blockedBy'[q].lock
    BY DEF HeldBeforeBlock
<1>a. TypeOK
    BY DEF IInv
<1>b. blockedBy[q].job # NoJob =>
        pc[q] \in {"release", "unlock"} /\ (holder[l] = q => l < blockedBy[q].lock)
    BY DEF IInv, BlockerIsAlive, HeldBeforeBlock
<1>1. CASE UNCHANGED vars
    BY <1>1, <1>b DEF vars
<1>2. ASSUME NEW p \in Jobs, Start(p) PROVE l < blockedBy'[q].lock
    BY <1>2, <1>a, <1>b DEF Start, TypeOK
<1>3. ASSUME NEW p \in Jobs, Flock(p) PROVE l < blockedBy'[q].lock
    BY <1>3, <1>a, <1>b DEF Flock, TypeOK
<1>4. ASSUME NEW p \in Jobs, Reject(p) PROVE l < blockedBy'[q].lock
  <2>1. PICK k \in Locks :
            /\ NextLock(p, k)
            /\ blockedBy' = [blockedBy EXCEPT ![p] = [job |-> holder[k], lock |-> k]]
    BY <1>4 DEF Reject
  <2>2. holder' = holder /\ pc[p] = "acquire"
    BY <1>4 DEF Reject
  <2>3. CASE q # p
    BY <1>a, <1>b, <2>1, <2>2, <2>3 DEF TypeOK
  <2>4. CASE q = p
    BY <1>a, <2>1, <2>2, <2>4 DEF TypeOK, IInv, AscendingOrder, NextLock, Missing, Held
  <2>5. QED
    BY <2>3, <2>4
<1>5. ASSUME NEW p \in Jobs, Announce(p) PROVE l < blockedBy'[q].lock
    BY <1>5, <1>a, <1>b DEF Announce, TypeOK
<1>6. ASSUME NEW p \in Jobs, Finish(p) PROVE l < blockedBy'[q].lock
    BY <1>6, <1>a, <1>b DEF Finish, TypeOK
<1>7. ASSUME NEW p \in Jobs, AnnounceRelease(p) PROVE l < blockedBy'[q].lock
    BY <1>7, <1>a, <1>b DEF AnnounceRelease, TypeOK
<1>8. ASSUME NEW p \in Jobs, Unlock(p) PROVE l < blockedBy'[q].lock
    BY <1>8, <1>a, <1>b DEF Unlock, TypeOK
<1>9. ASSUME NEW p \in Jobs, Exit(p) PROVE l < blockedBy'[q].lock
    BY <1>9, <1>a, <1>b DEF Exit, ForgetBlocker, NoBlocker, TypeOK
<1>10. ASSUME NEW p \in Jobs, Crash(p) PROVE l < blockedBy'[q].lock
    BY <1>10, <1>a, <1>b DEF Crash, ForgetBlocker, NoBlocker, TypeOK
<1>11. QED
    BY <1>1, <1>2, <1>3, <1>4, <1>5, <1>6, <1>7, <1>8, <1>9, <1>10 DEF Next

LEMMA OwnerStep == IInv /\ [Next]_vars => OwnerFilesCurrent'
<1> DEFINE Named(l, q) == owner[l] = [job |-> q, status |-> "running"]
           Last(l, q) == /\ pc[q] = "announce"
                         /\ \A m \in Locks : holder[m] = q => m <= l
<1> SUFFICES ASSUME IInv, [Next]_vars,
                    NEW q \in Jobs, pc'[q] \in {"acquire", "announce", "run"},
                    NEW l \in Locks, holder'[l] = q
             PROVE  Named(l, q)' \/ Last(l, q)'
    BY DEF OwnerFilesCurrent
<1>a. TypeOK /\ AscendingOrder
    BY DEF IInv
<1>b. holder[l] = q /\ pc[q] \in {"acquire", "announce", "run"}
        => Named(l, q) \/ Last(l, q)
    BY DEF IInv, OwnerFilesCurrent
<1>1. CASE UNCHANGED vars
    BY <1>1, <1>b DEF vars
<1>2. ASSUME NEW p \in Jobs, Start(p) PROVE Named(l, q)' \/ Last(l, q)'
  <2>1. holder[l] # q \/ pc[q] # "idle"
    BY DEF IInv, HoldsWhatItNeeds, Held
  <2>2. QED
    BY <1>2, <1>a, <1>b, <2>1 DEF Start, TypeOK
<1>3. ASSUME NEW p \in Jobs, Flock(p) PROVE Named(l, q)' \/ Last(l, q)'
  <2>1. PICK k \in Locks : /\ NextLock(p, k)
                           /\ holder[k] = NoJob
                           /\ holder' = [holder EXCEPT ![k] = p]
    BY <1>3 DEF Flock
  <2>2. CASE q = p /\ l = k
    <3>1. \A m \in Locks : holder[m] = p => m < k
      BY <1>3, <1>a, <2>1 DEF Flock, AscendingOrder, NextLock, Missing, TypeOK, Held
    <3>2. QED
      BY <1>3, <1>a, <2>1, <2>2, <3>1 DEF Flock, TypeOK
  <2>3. CASE q = p /\ l # k
    BY <1>3, <1>a, <1>b, <2>1, <2>3 DEF Flock, TypeOK
  <2>4. CASE q # p
    BY <1>3, <1>a, <1>b, <2>1, <2>4 DEF Flock, TypeOK
  <2>5. QED
    BY <2>2, <2>3, <2>4
<1>4. ASSUME NEW p \in Jobs, Reject(p) PROVE Named(l, q)' \/ Last(l, q)'
    BY <1>4, <1>a, <1>b DEF Reject, TypeOK
<1>5. ASSUME NEW p \in Jobs, Announce(p) PROVE Named(l, q)' \/ Last(l, q)'
  <2>1. PICK k \in Locks :
            /\ InnermostLock(p, k)
            /\ owner' = [owner EXCEPT ![k] = [job |-> p, status |-> "running"]]
    BY <1>5 DEF Announce
  <2>2. holder' = holder /\ holder[k] = p
    BY <1>5, <2>1 DEF Announce, InnermostLock, Held
  <2>3. CASE q # p
    BY <1>5, <1>a, <1>b, <2>1, <2>2, <2>3 DEF Announce, TypeOK
  <2>4. CASE q = p /\ l = k
    BY <1>a, <2>1, <2>4 DEF TypeOK
  <2>5. CASE q = p /\ l # k
    <3>1. k <= l => k = l
      BY <1>a, <2>1, <2>2, <2>5 DEF InnermostLock, Held
    <3>2. ~ Last(l, q)
      BY <2>2, <2>5, <3>1
    <3>3. QED
      BY <1>5, <1>a, <1>b, <2>1, <2>2, <2>5, <3>2 DEF Announce, TypeOK
  <2>6. QED
    BY <2>3, <2>4, <2>5
<1>6. ASSUME NEW p \in Jobs, Finish(p) PROVE Named(l, q)' \/ Last(l, q)'
    BY <1>6, <1>a, <1>b DEF Finish, TypeOK
<1>7. ASSUME NEW p \in Jobs, AnnounceRelease(p) PROVE Named(l, q)' \/ Last(l, q)'
    BY <1>7, <1>a, <1>b DEF AnnounceRelease, InnermostLock, Held, TypeOK
<1>8. ASSUME NEW p \in Jobs, Unlock(p) PROVE Named(l, q)' \/ Last(l, q)'
    BY <1>8, <1>a, <1>b DEF Unlock, TypeOK
<1>9. ASSUME NEW p \in Jobs, Exit(p) PROVE Named(l, q)' \/ Last(l, q)'
    BY <1>9, <1>a, <1>b DEF Exit, TypeOK
<1>10. ASSUME NEW p \in Jobs, Crash(p) PROVE Named(l, q)' \/ Last(l, q)'
    BY <1>10, <1>a, <1>b DEF Crash, TypeOK
<1>11. QED
    BY <1>1, <1>2, <1>3, <1>4, <1>5, <1>6, <1>7, <1>8, <1>9, <1>10 DEF Next

LEMMA RejectionStep == IInv /\ [Next]_vars => RejectedByOneAhead'
<1> DEFINE Beyond(p, q) == pc[q] \in {"acquire", "announce"} =>
               \A m \in Locks : m \in Needs[q] /\ holder[m] # q => blockedBy[p].lock < m
           Further(p, q) == blockedBy[q].job # NoJob =>
               blockedBy[p].lock < blockedBy[q].lock
<1> SUFFICES ASSUME IInv, [Next]_vars,
                    NEW r \in Jobs, NEW q \in Jobs, blockedBy'[r].job = q
             PROVE  Beyond(r, q)' /\ Further(r, q)'
    BY DEF RejectedByOneAhead, Missing, Held
<1>a. TypeOK
    BY DEF IInv
<1>b. blockedBy[r].job = q => Beyond(r, q) /\ Further(r, q) /\ pc[q] # "idle"
    BY DEF IInv, RejectedByOneAhead, BlockerIsAlive, Missing, Held
<1>c. \A p \in Jobs : blockedBy[p].job # NoJob => pc[p] \in {"release", "unlock"}
    BY DEF IInv, BlockerIsAlive
<1>1. CASE UNCHANGED vars
    BY <1>1, <1>b DEF vars
<1>2. ASSUME NEW p \in Jobs, Start(p) PROVE Beyond(r, q)' /\ Further(r, q)'
    BY <1>2, <1>a, <1>b DEF Start, TypeOK
<1>3. ASSUME NEW p \in Jobs, Flock(p) PROVE Beyond(r, q)' /\ Further(r, q)'
    BY <1>3, <1>a, <1>b DEF Flock, TypeOK
<1>4. ASSUME NEW p \in Jobs, Reject(p) PROVE Beyond(r, q)' /\ Further(r, q)'
  <2>1. PICK l \in Locks :
            /\ NextLock(p, l)
            /\ holder[l] # NoJob
            /\ blockedBy' = [blockedBy EXCEPT ![p] = [job |-> holder[l], lock |-> l]]
    BY <1>4 DEF Reject
  <2>2. pc' = [pc EXCEPT ![p] = "release"] /\ holder' = holder /\ pc[p] = "acquire"
    BY <1>4 DEF Reject
  <2>3. holder[l] # p
    BY <2>1 DEF NextLock, Missing, Held
  <2>4. CASE r = p
    <3>1. holder[l] = q /\ blockedBy'[r].lock = l /\ q # p
      BY <1>a, <2>1, <2>3, <2>4 DEF TypeOK, Blocker
    <3>2. Beyond(r, q)'
      BY <1>a, <2>2, <3>1 DEF IInv, AscendingOrder, TypeOK
    <3>3. blockedBy'[q] = blockedBy[q]
      BY <1>a, <2>1, <3>1 DEF TypeOK
    <3>4. blockedBy[q].job # NoJob => l < blockedBy[q].lock
      BY <3>1 DEF IInv, HeldBeforeBlock
    <3>5. QED
      BY <3>1, <3>2, <3>3, <3>4
  <2>5. CASE r # p
    <3>1. blockedBy'[r] = blockedBy[r]
      BY <1>a, <2>1, <2>5 DEF TypeOK
    <3>2. CASE q # p
      BY <1>a, <1>b, <2>1, <2>2, <3>1, <3>2 DEF TypeOK
    <3>3. CASE q = p
      BY <1>a, <1>b, <2>1, <2>2, <3>1, <3>3 DEF TypeOK, NextLock, Missing, Held
    <3>4. QED
      BY <3>2, <3>3
  <2>6. QED
    BY <2>4, <2>5
<1>5. ASSUME NEW p \in Jobs, Announce(p) PROVE Beyond(r, q)' /\ Further(r, q)'
    BY <1>5, <1>a, <1>b DEF Announce, TypeOK
<1>6. ASSUME NEW p \in Jobs, Finish(p) PROVE Beyond(r, q)' /\ Further(r, q)'
    BY <1>6, <1>a, <1>b DEF Finish, TypeOK
<1>7. ASSUME NEW p \in Jobs, AnnounceRelease(p) PROVE Beyond(r, q)' /\ Further(r, q)'
    BY <1>7, <1>a, <1>b DEF AnnounceRelease, TypeOK
<1>8. ASSUME NEW p \in Jobs, Unlock(p) PROVE Beyond(r, q)' /\ Further(r, q)'
    BY <1>8, <1>a, <1>b DEF Unlock, InnermostLock, Held, TypeOK
<1>9. ASSUME NEW p \in Jobs, Exit(p) PROVE Beyond(r, q)' /\ Further(r, q)'
    BY <1>9, <1>a, <1>b DEF Exit, ForgetBlocker, NoBlocker, TypeOK
<1>10. ASSUME NEW p \in Jobs, Crash(p) PROVE Beyond(r, q)' /\ Further(r, q)'
    BY <1>10, <1>a, <1>b DEF Crash, ForgetBlocker, NoBlocker, TypeOK
<1>11. QED
    BY <1>1, <1>2, <1>3, <1>4, <1>5, <1>6, <1>7, <1>8, <1>9, <1>10 DEF Next

THEOREM Invariance == Spec => []IInv
<1>1. Init => IInv
    BY InitInv
<1>2. IInv /\ [Next]_vars => IInv'
    BY TypeStep, HoldsStep, AscendingStep, BlockerStep, BeforeStep,
       OwnerStep, RejectionStep
    DEF IInv
<1>3. QED
    BY <1>1, <1>2, PTL DEF Spec

-----------------------------------------------------------------------------

\* Jobs sharing a lock name never run their bodies together.
THEOREM JobsExclude == Spec => []MutualExclusion
<1>1. IInv => MutualExclusion
    BY DEF IInv, TypeOK, HoldsWhatItNeeds, MutualExclusion, Held, Missing
<1>2. QED
    BY <1>1, Invariance, PTL

\* A running job is the one its lock files name.
THEOREM OwnerFileCorrect == Spec => []OwnerFileNamesTheRunner
<1>1. IInv => OwnerFileNamesTheRunner
    BY DEF IInv, TypeOK, HoldsWhatItNeeds, OwnerFilesCurrent,
           OwnerFileNamesTheRunner, Held, Missing
<1>2. QED
    BY <1>1, Invariance, PTL

\* Sorted acquisition makes circular rejection impossible.
THEOREM NoCircularRejection == Spec => []RejectedByOneAhead
<1>1. IInv => RejectedByOneAhead
    BY DEF IInv
<1>2. QED
    BY <1>1, Invariance, PTL

=============================================================================
