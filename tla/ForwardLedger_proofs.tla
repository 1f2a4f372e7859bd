------------------------ MODULE ForwardLedger_proofs ------------------------
(***************************************************************************)
(* The safety properties of the daily forward record: of the chain of      *)
(* AuditChain for any callers, paths and contents, and of ForwardLedger    *)
(* and of what ForwardMonitor shows of it for any number of sessions,      *)
(* accounts, results, faults, manual runs and damages.                     *)
(***************************************************************************)
EXTENDS ForwardMonitor, TLAPS, NaturalsInduction, WellFoundedInduction

-----------------------------------------------------------------------------
(* The chain.                                                              *)

\* The call that holds the lock knows the chain: `records` is the chain and the
\* one record it is about to append, or has appended, and the head digests what
\* the chain was when the call took the lock.
LockedCall(c) ==
    call[c].at = "locked" =>
        /\ ~torn
        /\ head = chain
        /\ \E p \in Paths, content \in Contents :
              /\ p \notin Tracked
              /\ call[c].records = Append(chain, [sequence |-> Len(chain) + 1,
                                                  path |-> p, content |-> content])

AppendedCall(c) ==
    call[c].at = "appended" =>
        /\ call[c].records = chain
        /\ Len(chain) = Len(head) + 1
        /\ head = SubSeq(chain, 1, Len(head))

OneHolder ==
    \A c, d \in Callers : call[c].at # "none" /\ call[d].at # "none" => c = d

ChainInv ==
    /\ ChainTypeOK
    /\ ChainWellFormed
    /\ HeadLagsByOne
    /\ OneHolder
    /\ \A c \in Callers : LockedCall(c) /\ AppendedCall(c)

-----------------------------------------------------------------------------
(* Sequences.                                                              *)

\* What appending one element does to a sequence.
LEMMA AppendFacts ==
    ASSUME NEW S, NEW s \in Seq(S), NEW e \in S
    PROVE  /\ Append(s, e) \in Seq(S)
           /\ Len(Append(s, e)) = Len(s) + 1
           /\ Append(s, e)[Len(s) + 1] = e
           /\ \A i \in 1..Len(s) : Append(s, e)[i] = s[i]
           /\ DOMAIN Append(s, e) = 1..(Len(s) + 1)
           /\ DOMAIN s = 1..Len(s)
           /\ SubSeq(Append(s, e), 1, Len(s)) = s
  OBVIOUS

\* One element more than a prefix: the prefix of the shorter one stays.
LEMMA PrefixOfItself ==
    ASSUME NEW S, NEW s \in Seq(S)
    PROVE  SubSeq(s, 1, Len(s)) = s
  OBVIOUS

\* The next record, with a path that is new, keeps the chain well formed.
LEMMA AppendKeepsForm ==
    ASSUME ChainWellFormed, chain \in Seq(Record),
           NEW r \in Record, r.sequence = Len(chain) + 1, r.path \notin Tracked,
           chain' = Append(chain, r)
    PROVE  ChainWellFormed'
<1>1. /\ DOMAIN chain = 1..Len(chain)
      /\ DOMAIN chain' = 1..(Len(chain) + 1)
      /\ Len(chain) \in Nat
      /\ chain'[Len(chain) + 1] = r
      /\ \A i \in 1..Len(chain) : chain'[i] = chain[i]
    BY AppendFacts
<1>2. Numbered'
    BY <1>1 DEF ChainWellFormed, Numbered
<1>3. \A i \in DOMAIN chain : chain[i].path # r.path
    BY DEF Tracked
<1>4. TrackedOnce'
    BY <1>1, <1>3 DEF ChainWellFormed, TrackedOnce
<1>5. QED
    BY <1>2, <1>4 DEF ChainWellFormed

-----------------------------------------------------------------------------

LEMMA ChainInitInv == ChainInit => ChainInv
<1> SUFFICES ASSUME ChainInit PROVE ChainInv
    OBVIOUS
<1> USE DEF ChainInit
<1>1. ChainTypeOK
  <2>1. <<>> \in Seq(Record)
    OBVIOUS
  <2>2. NoCall \in [at: {"none", "locked", "appended"}, records: Seq(Record)]
    BY <2>1 DEF NoCall
  <2>3. call \in [Callers -> [at: {"none", "locked", "appended"}, records: Seq(Record)]]
    BY <2>2
  <2>4. QED
    BY <2>1, <2>3 DEF ChainTypeOK
<1>2. ChainWellFormed
    BY DEF ChainWellFormed, Numbered, TrackedOnce
<1>3. HeadLagsByOne
    BY DEF HeadLagsByOne
<1>4. OneHolder /\ \A c \in Callers : LockedCall(c) /\ AppendedCall(c)
    BY DEF OneHolder, LockedCall, AppendedCall, NoCall
<1>5. QED
    BY <1>1, <1>2, <1>3, <1>4 DEF ChainInv

\* A record that a call prepares is a record.
LEMMA PreparedRecord ==
    ASSUME ChainTypeOK, NEW p \in Paths, files[p] # Absent
    PROVE  [sequence |-> Len(chain) + 1, path |-> p, content |-> files[p]] \in Record
  BY DEF ChainTypeOK, Record

LEMMA BeginStep ==
    ASSUME ChainInv, NEW c \in Callers, NEW p \in Paths, BeginRecord(c, p)
    PROVE  ChainInv'
<1> DEFINE r == [sequence |-> Len(chain) + 1, path |-> p, content |-> files[p]]
<1>1. /\ ChainTypeOK /\ LockFree /\ p \notin Tracked
      /\ ~torn /\ head = chain /\ files[p] \in Contents /\ r \in Record
      /\ call' = [call EXCEPT ![c] = [at |-> "locked", records |-> Append(chain, r)]]
      /\ UNCHANGED <<files, chain, torn, head>>
    BY PreparedRecord DEF ChainInv, BeginRecord, Verified, ChainTypeOK
<1> HIDE DEF r
<1>2. Append(chain, r) \in Seq(Record)
    BY <1>1 DEF ChainTypeOK
<1>3. ChainTypeOK'
    BY <1>1, <1>2 DEF ChainTypeOK
<1>4. \A d \in Callers : d # c => call'[d].at = "none"
    BY <1>1 DEF ChainTypeOK, LockFree
<1>5. OneHolder' /\ HeadLagsByOne' /\ ChainWellFormed'
    BY <1>1, <1>4 DEF OneHolder, HeadLagsByOne, ChainInv, ChainWellFormed, Numbered,
                      TrackedOnce
<1>6. LockedCall(c)' /\ AppendedCall(c)'
    BY <1>1 DEF LockedCall, AppendedCall, ChainTypeOK, Tracked, r
<1>7. \A d \in Callers : LockedCall(d)' /\ AppendedCall(d)'
    BY <1>4, <1>6 DEF LockedCall, AppendedCall
<1>8. QED
    BY <1>3, <1>5, <1>7 DEF ChainInv

LEMMA AppendStep ==
    ASSUME ChainInv, NEW c \in Callers, AppendRecord(c)
    PROVE  ChainInv'
<1>1. PICK p \in Paths, content \in Contents :
        /\ p \notin Tracked
        /\ call[c].records = Append(chain, [sequence |-> Len(chain) + 1,
                                            path |-> p, content |-> content])
    BY DEF ChainInv, LockedCall, AppendRecord
<1> DEFINE r == [sequence |-> Len(chain) + 1, path |-> p, content |-> content]
<1>2. ChainTypeOK /\ ~torn /\ head = chain /\ call[c].at = "locked"
    BY DEF ChainInv, LockedCall, AppendRecord
<1>3. r \in Record /\ r.sequence = Len(chain) + 1 /\ r.path \notin Tracked
    BY <1>1, <1>2 DEF ChainTypeOK, Record
<1>4. call[c].records = Append(chain, r)
    BY <1>1
<1> HIDE DEF r
<1>5. /\ Append(chain, r) \in Seq(Record)
      /\ Len(Append(chain, r)) = Len(chain) + 1
      /\ Append(chain, r)[Len(chain) + 1] = r
      /\ SubSeq(Append(chain, r), 1, Len(chain)) = chain
    BY <1>2, <1>3, AppendFacts DEF ChainTypeOK
<1>6. chain' = Append(chain, r)
    BY <1>4, <1>5 DEF AppendRecord
<1>7. /\ call' = [call EXCEPT ![c].at = "appended"]
      /\ UNCHANGED <<files, torn, head>>
    BY DEF AppendRecord
<1>8. ChainTypeOK'
    BY <1>2, <1>5, <1>6, <1>7 DEF ChainTypeOK
<1>9. ChainWellFormed'
    BY <1>2, <1>3, <1>6, AppendKeepsForm DEF ChainInv, ChainTypeOK
<1>10. \A d \in Callers : d # c => call'[d].at = "none"
    BY <1>2, <1>7 DEF ChainTypeOK, ChainInv, OneHolder
<1>11. call'[c].at = "appended" /\ call'[c].records = chain'
    BY <1>2, <1>4, <1>6, <1>7 DEF ChainTypeOK
<1>12. AppendedCall(c)' /\ LockedCall(c)' /\ HeadLagsByOne'
    BY <1>2, <1>5, <1>6, <1>7, <1>11 DEF AppendedCall, LockedCall, HeadLagsByOne
<1>13. OneHolder' /\ \A d \in Callers : LockedCall(d)' /\ AppendedCall(d)'
    BY <1>10, <1>12 DEF OneHolder, LockedCall, AppendedCall
<1>14. QED
    BY <1>8, <1>9, <1>12, <1>13 DEF ChainInv

\* A call gives the lock back: nobody holds it then.
LEMMA ReleaseFacts ==
    ASSUME ChainInv, NEW c \in Callers, call[c].at # "none",
           call' = [call EXCEPT ![c] = NoCall]
    PROVE  /\ \A d \in Callers : call'[d].at = "none"
           /\ call' \in [Callers -> [at: {"none", "locked", "appended"},
                                     records: Seq(Record)]]
           /\ LockFree'
           /\ OneHolder'
           /\ \A d \in Callers : LockedCall(d)' /\ AppendedCall(d)'
<1>1. \A d \in Callers : call'[d].at = "none"
    BY DEF ChainInv, ChainTypeOK, OneHolder, NoCall
<1>2. NoCall \in [at: {"none", "locked", "appended"}, records: Seq(Record)]
    BY DEF NoCall
<1>3. QED
    BY <1>1, <1>2 DEF LockFree, OneHolder, LockedCall, AppendedCall, ChainInv, ChainTypeOK

LEMMA TearStep ==
    ASSUME ChainInv, NEW c \in Callers, TearAppend(c)
    PROVE  ChainInv'
<1>1. /\ LockFree' /\ OneHolder'
      /\ call' \in [Callers -> [at: {"none", "locked", "appended"}, records: Seq(Record)]]
      /\ \A d \in Callers : LockedCall(d)' /\ AppendedCall(d)'
    BY ReleaseFacts DEF TearAppend
<1>2. head = chain /\ torn' = TRUE /\ UNCHANGED <<files, chain, head>>
    BY DEF TearAppend, ChainInv, LockedCall
<1>3. QED
    BY <1>1, <1>2 DEF ChainInv, ChainTypeOK, ChainWellFormed, Numbered, TrackedOnce,
                      HeadLagsByOne

LEMMA HeadStep ==
    ASSUME ChainInv, NEW c \in Callers, WriteHead(c)
    PROVE  ChainInv'
<1>1. /\ LockFree' /\ OneHolder'
      /\ call' \in [Callers -> [at: {"none", "locked", "appended"}, records: Seq(Record)]]
      /\ \A d \in Callers : LockedCall(d)' /\ AppendedCall(d)'
    BY ReleaseFacts DEF WriteHead
<1>2. head' = chain /\ UNCHANGED <<files, chain, torn>>
    BY DEF WriteHead, ChainInv, AppendedCall
<1>3. QED
    BY <1>1, <1>2 DEF ChainInv, ChainTypeOK, ChainWellFormed, Numbered, TrackedOnce,
                      HeadLagsByOne

LEMMA DropStep ==
    ASSUME ChainInv, NEW c \in Callers, DropCall(c)
    PROVE  ChainInv'
<1>1. /\ LockFree' /\ OneHolder'
      /\ call' \in [Callers -> [at: {"none", "locked", "appended"}, records: Seq(Record)]]
      /\ \A d \in Callers : LockedCall(d)' /\ AppendedCall(d)'
    BY ReleaseFacts DEF DropCall
<1>2. UNCHANGED <<files, chain, torn, head>>
    BY DEF DropCall
<1>3. QED
    BY <1>1, <1>2 DEF ChainInv, ChainTypeOK, ChainWellFormed, Numbered, TrackedOnce,
                      HeadLagsByOne

\* Nothing but the files changes: the chain's invariant does not read them.
LEMMA FilesStep ==
    ASSUME ChainInv, files' \in [Paths -> Contents \cup {Absent}],
           UNCHANGED <<chain, torn, head, call>>
    PROVE  ChainInv'
<1>1. ChainTypeOK'
    BY DEF ChainInv, ChainTypeOK
<1>2. ChainWellFormed'
    BY DEF ChainInv, ChainWellFormed, Numbered, TrackedOnce
<1>3. HeadLagsByOne' /\ OneHolder'
    BY DEF ChainInv, HeadLagsByOne, LockFree, OneHolder
<1>4. \A c \in Callers : LockedCall(c)' /\ AppendedCall(c)'
    BY DEF ChainInv, LockedCall, AppendedCall, Tracked
<1>5. QED
    BY <1>1, <1>2, <1>3, <1>4 DEF ChainInv

LEMMA PutStep ==
    ASSUME ChainInv, NEW p \in Paths, NEW content \in Contents \cup {Absent},
           PutFile(p, content)
    PROVE  ChainInv'
<1>1. files' \in [Paths -> Contents \cup {Absent}]
    BY DEF PutFile, ChainInv, ChainTypeOK
<1>2. QED
    BY <1>1, FilesStep DEF PutFile

\* Every step of the chain keeps its invariant.
LEMMA ChainStep == ChainInv /\ [ChainNext]_chainVars => ChainInv'
<1> SUFFICES ASSUME ChainInv, [ChainNext]_chainVars PROVE ChainInv'
    OBVIOUS
<1>1. CASE UNCHANGED chainVars
  <2>1. files' \in [Paths -> Contents \cup {Absent}]
    BY <1>1 DEF chainVars, ChainInv, ChainTypeOK
  <2>2. QED
    BY <1>1, <2>1, FilesStep DEF chainVars
<1>2. CASE ChainNext
    BY <1>2, BeginStep, AppendStep, TearStep, HeadStep, DropStep, PutStep DEF ChainNext
<1>3. QED
    BY <1>1, <1>2

THEOREM ChainInvariance == ChainSpec => []ChainInv
<1>1. QED
    BY ChainInitInv, ChainStep, PTL DEF ChainSpec

-----------------------------------------------------------------------------

\* The program never gives the chain a gap, a reordering or a repeated path.
THEOREM ChainIsWellFormed == ChainSpec => []ChainWellFormed
<1>1. ChainInv => ChainWellFormed
    BY DEF ChainInv
<1>2. QED
    BY <1>1, ChainInvariance, PTL

\* The head digests the chain, or all but its last record.
THEOREM HeadIsChainOrItsPrefix == ChainSpec => []HeadLagsByOne
<1>1. ChainInv => HeadLagsByOne
    BY DEF ChainInv
<1>2. QED
    BY <1>1, ChainInvariance, PTL

\* Published digests are prefixes of the later ones.
THEOREM HeadOnlyGrows == ChainSpec => HeadNeverRetreats
<1>1. ChainInv /\ [ChainNext]_chainVars =>
        [/\ Len(head) <= Len(head') /\ head = SubSeq(head', 1, Len(head))]_chainVars
  <2> SUFFICES ASSUME ChainInv, ChainNext
               PROVE  Len(head) <= Len(head') /\ head = SubSeq(head', 1, Len(head))
    OBVIOUS
  <2>1. head \in Seq(Record) /\ Len(head) \in Nat
    BY DEF ChainInv, ChainTypeOK
  <2>2. CASE head' = head
    BY <2>1, <2>2, PrefixOfItself
  <2>3. ASSUME NEW c \in Callers, WriteHead(c)
        PROVE  Len(head) <= Len(head') /\ head = SubSeq(head', 1, Len(head))
    BY <2>1, <2>3 DEF WriteHead, ChainInv, AppendedCall
  <2>4. QED
    BY <2>2, <2>3 DEF ChainNext, BeginRecord, AppendRecord, TearAppend, DropCall, PutFile
<1>2. QED
    BY <1>1, ChainInvariance, PTL DEF ChainSpec, HeadNeverRetreats

\* No operation of the program repairs a torn line or a lost head.
THEOREM NoWayBack == ChainSpec => LostHeadIsFinal
<1>1. ChainInv /\ [ChainNext]_chainVars =>
        [Stuck => Stuck' /\ UNCHANGED <<chain, head>>]_chainVars
  <2> SUFFICES ASSUME ChainNext, Stuck
               PROVE  Stuck' /\ UNCHANGED <<chain, head>>
    OBVIOUS
  <2>1. \A c \in Callers : call[c].at = "none"
    BY DEF Stuck, LockFree
  <2>2. ~Verified(FALSE)
    BY DEF Stuck, Verified
  <2>3. PICK p \in Paths, content \in Contents \cup {Absent} : PutFile(p, content)
    BY <2>1, <2>2 DEF ChainNext, BeginRecord, AppendRecord, TearAppend, WriteHead, DropCall
  <2>4. QED
    BY <2>3 DEF PutFile, Stuck, LockFree
<1>2. QED
    BY <1>1, ChainInvariance, PTL DEF ChainSpec, LostHeadIsFinal

-----------------------------------------------------------------------------
(* The forward job and its ledger.                                         *)

\* The record that the call of c appends or has appended.
Pending(c) == call[c].records[Len(call[c].records)]

\* A call under way belongs to the file that its caller is at, and the record
\* it prepares is about a committed row.
Belongs(c) ==
    call[c].at # "none" =>
        /\ pc[c] = "record"
        /\ Pending(c).path \in Paths
        /\ IsNext(c, Pending(c).path)
        /\ ledger[Pending(c).path] # Absent
        /\ Pending(c).content \in {ledger[Pending(c).path], Altered}

CallsBelong == \A c \in Callers : Belongs(c)

\* The job exports a committed pair, and what it has ticked off is registered.
ExportsCommitted ==
    pc["job"] \in {"export", "record"} =>
        /\ Committed(attempt.day)
        /\ todo["job"] \subseteq PairOf(attempt.day)
        /\ PairOf(attempt.day) \ todo["job"] \subseteq Tracked

\* After the verification no copy appears behind the job's back.
AuditedFilesTracked == pc["job"] = "audit" => Existing \subseteq Tracked

\* An attempt that met a damaged copy gets no further than the verification.
DamageSeen ==
    attempt.damaged => pc["job"] \in {"verify", "failing"} /\ ~FilesMatch

LedgerInv ==
    /\ TypeOK
    /\ ChainInv
    /\ PairAtomic
    /\ ExportBackedByLedger
    /\ CallsBelong
    /\ ExportsCommitted
    /\ AuditedFilesTracked
    /\ SuccessMeansAudited
    /\ DamageSeen

LEMMA TheCallers == "job" \in Callers /\ "operator" \in Callers
  BY CallersAssumption

LEMMA PairsArePaths == \A d \in Days : PairOf(d) \subseteq Paths
  BY PathsAssumption DEF PairOf

\* The content of a frozen row may stand in a file.
LEMMA RowsAreContents == Results \subseteq Contents /\ Absent \notin Results
  BY ContentsAssumption, AbsentAssumption

-----------------------------------------------------------------------------
(* Which actions touch what.                                               *)

\* Only a commit changes the ledger, and it replaces no row.
LEMMA LedgerFrame ==
    ASSUME TypeOK, [Next]_vars
    PROVE  /\ ledger' = ledger \/ \E r \in Results : Persist(r)
           /\ \A p \in Paths : ledger[p] # Absent => ledger'[p] = ledger[p]
<1>1. ledger' = ledger \/ \E r \in Results : Persist(r)
    BY DEF Next, vars, chainVars, JobNext, OperatorNext, RecordNext, StartTime,
           NobodyStarts, StartLost, LaunchdStarts, NextDay, StartDaily, StartManual, Begin,
           ChainAccepted, ChainRefused, AlreadyFrozen, ExportModified, RepairExports,
           NothingFrozen, PersistConflict, Export, ExportDiffers, Succeed, ReportFailure,
           RecordKnown, RecordBegins, RecordRefused, RecordAppends, RecordEnds,
           OperatorStart, OperatorEnd, StepRaises, Crash, Damage, ledgerVars
<1>2. ASSUME NEW r \in Results, Persist(r), NEW p \in Paths, ledger[p] # Absent
      PROVE  ledger'[p] = ledger[p]
    BY <1>2 DEF Persist
<1>3. QED
    BY <1>1, <1>2

\* Only an export or somebody's hand changes a file.
LEMMA FilesFrame ==
    ASSUME [Next]_vars
    PROVE  files' = files \/ \E p \in Paths : Export(p) \/ Damage(p)
<1>1. ASSUME NEW c, RecordNext(c) PROVE files' = files
    BY <1>1 DEF RecordNext, chainVars, RecordKnown, RecordBegins, BeginRecord,
                RecordRefused, RecordAppends, AppendRecord, RecordEnds, WriteHead
<1>2. ASSUME NEW c, StepRaises(c) \/ Crash(c) PROVE files' = files
    BY <1>2 DEF StepRaises, TearAppend, DropCall, Crash, chainVars
<1>3. QED
    BY <1>1, <1>2
    DEF Next, vars, chainVars, JobNext, OperatorNext, StartTime, NobodyStarts, StartLost,
        LaunchdStarts, NextDay, StartDaily, StartManual, Begin, ChainAccepted,
        ChainRefused, AlreadyFrozen, ExportModified, RepairExports, NothingFrozen, Persist,
        PersistConflict, ExportDiffers, Succeed, ReportFailure, OperatorStart, OperatorEnd

\* Only an append changes the chain.
LEMMA ChainFrame ==
    ASSUME [Next]_vars
    PROVE  chain' = chain \/ \E c \in Callers : RecordAppends(c)
  BY TheCallers DEF Next, vars, chainVars, JobNext, OperatorNext, RecordNext, StartTime,
                    NobodyStarts, StartLost, LaunchdStarts, NextDay, StartDaily,
                    StartManual, Begin, ChainAccepted, ChainRefused, AlreadyFrozen,
                    ExportModified, RepairExports, NothingFrozen, Persist, PersistConflict,
                    Export, ExportDiffers, Succeed, ReportFailure, RecordKnown,
                    RecordBegins, BeginRecord, RecordRefused, RecordEnds, WriteHead,
                    OperatorStart, OperatorEnd, StepRaises, TearAppend, DropCall, Crash,
                    Damage, PutFile, ledgerVars

\* Only the start and the end of an attempt change what is reported.
LEMMA RunsFrame ==
    ASSUME [Next]_vars
    PROVE  \/ runs' = runs
           \/ LaunchdStarts \/ StartDaily \/ StartManual
           \/ AlreadyFrozen \/ Succeed \/ ReportFailure
  BY DEF Next, vars, chainVars, JobNext, OperatorNext, RecordNext, StartTime, NobodyStarts,
         StartLost, LaunchdStarts, NextDay, StartDaily, StartManual, Begin, ChainAccepted,
         ChainRefused, ExportModified, RepairExports, NothingFrozen, Persist,
         PersistConflict, Export, ExportDiffers, RecordKnown, RecordBegins, RecordRefused,
         RecordAppends, RecordEnds, OperatorStart, OperatorEnd, StepRaises, Crash, Damage,
         ledgerVars

\* The start of an attempt reports that it started and nothing else.
LEMMA StartsReport ==
    ASSUME TypeOK, NEW daily, Begin(daily), NEW d \in Days
    PROVE  /\ runs[d] \subseteq runs'[d]
           /\ runs'[d] \subseteq runs[d] \cup {"started"}
  BY DEF TypeOK, Begin

\* Towards the chain every step of the system is a step of AuditChain.
LEMMA ChainProjection ==
    ASSUME TypeOK, [Next]_vars
    PROVE  [ChainNext]_chainVars
<1>1. CASE UNCHANGED vars
    BY <1>1 DEF vars, chainVars
<1>2. ASSUME NEW p \in Paths, Export(p) PROVE ChainNext
  <2>1. PutFile(p, ledger[p])
    BY <1>2 DEF Export, PutFile
  <2>2. ledger[p] \in Contents \cup {Absent}
    BY RowsAreContents DEF TypeOK
  <2>3. QED
    BY <2>1, <2>2 DEF ChainNext
<1>3. ASSUME NEW p \in Paths, Damage(p) PROVE ChainNext
    BY <1>3, ContentsAssumption DEF Damage, ChainNext
<1>4. ASSUME NEW c \in Callers, RecordNext(c) PROVE [ChainNext]_chainVars
    BY <1>4 DEF RecordNext, RecordKnown, RecordBegins, RecordRefused, RecordAppends,
                RecordEnds, ChainNext
<1>5. ASSUME NEW c \in Callers, StepRaises(c) \/ Crash(c) PROVE [ChainNext]_chainVars
    BY <1>5 DEF StepRaises, Crash, ChainNext
<1>6. CASE StartTime \/ NextDay \/ StartDaily \/ StartManual \/ OperatorStart \/ OperatorEnd
    BY <1>6 DEF StartTime, NobodyStarts, StartLost, LaunchdStarts, NextDay, StartDaily,
                StartManual, Begin, OperatorStart, OperatorEnd
<1>7. CASE JobNext
    BY <1>2, <1>4, <1>7, TheCallers DEF JobNext, ChainAccepted, ChainRefused, AlreadyFrozen,
          ExportModified, RepairExports, NothingFrozen, Persist, PersistConflict,
          ExportDiffers, Succeed, ReportFailure
<1>8. QED
    BY <1>1, <1>3, <1>4, <1>5, <1>6, <1>7, TheCallers DEF Next, OperatorNext

-----------------------------------------------------------------------------

\* The order of the exports leaves one next export at most.
LEMMA NextIsUnique ==
    ASSUME TypeOK, NEW c \in Callers, NEW p, NEW q, IsNext(c, p), IsNext(c, q)
    PROVE  p = q
<1>1. p \in Paths /\ q \in Paths
    BY DEF IsNext, TypeOK
<1>2. ExportRank[c][p] \in Nat /\ ExportRank[c][q] \in Nat
    BY <1>1, RankAssumption
<1>3. ExportRank[c][p] = ExportRank[c][q]
    BY <1>2 DEF IsNext
<1>4. QED
    BY <1>1, <1>3, RankAssumption

\* What is registered stays registered.
LEMMA TrackedGrows ==
    ASSUME TypeOK, [Next]_vars
    PROVE  /\ Tracked \subseteq Tracked'
           /\ \A i \in DOMAIN chain : i \in DOMAIN chain' /\ chain'[i] = chain[i]
<1>1. CASE chain' = chain
    BY <1>1 DEF Tracked
<1>2. ASSUME NEW e, chain' = Append(chain, e)
      PROVE  \A i \in DOMAIN chain : i \in DOMAIN chain' /\ chain'[i] = chain[i]
    BY <1>2 DEF TypeOK, ChainTypeOK
<1>3. CASE \E c \in Callers : RecordAppends(c)
    BY <1>2, <1>3 DEF RecordAppends, AppendRecord, Tracked
<1>4. QED
    BY <1>1, <1>3, ChainFrame

LEMMA LedgerInitInv == Init => LedgerInv
<1> SUFFICES ASSUME Init PROVE LedgerInv
    OBVIOUS
<1>1. ChainInv /\ ChainTypeOK
    BY ChainInitInv DEF Init, ChainInv
<1>2. 1 \in Days
    BY DaysAssumption
<1>3. TypeOK
    BY <1>1, <1>2, BoundsAssumption, StartTimesAssumption
    DEF Init, TypeOK, JobLocations, NoAttempt
<1>4. PairAtomic
    BY PairsArePaths DEF Init, PairAtomic
<1>5. ExportBackedByLedger
    BY DEF Init, ChainInit, ExportBackedByLedger, Existing
<1>6. CallsBelong
    BY DEF Init, ChainInit, CallsBelong, Belongs, NoCall
<1>7. ExportsCommitted /\ AuditedFilesTracked /\ SuccessMeansAudited /\ DamageSeen
    BY TheCallers DEF Init, ExportsCommitted, AuditedFilesTracked, SuccessMeansAudited,
                      DamageSeen, NoAttempt
<1>8. QED
    BY <1>1, <1>3, <1>4, <1>5, <1>6, <1>7 DEF LedgerInv

-----------------------------------------------------------------------------
(* One lemma per conjunct of the invariant.                                *)

LEMMA TypeStep ==
    ASSUME LedgerInv, [Next]_vars
    PROVE  TypeOK'
<1>1. TypeOK /\ ChainTypeOK'
    BY ChainProjection, ChainStep DEF LedgerInv, ChainInv
<1>a. Days \subseteq Nat /\ NoAttempt \in [day: Days, daily: BOOLEAN, damaged: BOOLEAN]
    BY DaysAssumption DEF NoAttempt
<1>b. PairOf(attempt.day) \subseteq Paths
    BY <1>1, PairsArePaths DEF TypeOK
<1>c. \A kind \in {"faults", "manual", "damage"} : used[kind] \in Nat
    BY <1>1, BoundsAssumption DEF TypeOK
<1>d. Tick => clock' \in [day: Days, starts: 0..StartTimes]
    BY <1>1, StartTimesAssumption DEF TypeOK, Tick
<1>e. ASSUME NEW daily \in BOOLEAN, Begin(daily)
      PROVE  /\ attempt' \in [day: Days, daily: BOOLEAN, damaged: BOOLEAN]
             /\ runs' \in [Days -> SUBSET Outcomes]
             /\ pc' \in [Callers -> JobLocations]
             /\ UNCHANGED <<ledger, todo>>
    BY <1>1, <1>e, TheCallers DEF TypeOK, Begin, Goto, Outcomes, JobLocations
<1> USE TheCallers DEF TypeOK, JobLocations, Outcomes
<1>2. CASE UNCHANGED vars
    BY <1>1, <1>2 DEF vars
<1>3. CASE NobodyStarts \/ NextDay
  <2>1. clock.day < LastDay => clock.day + 1 \in Days
    BY <1>1, DaysAssumption
  <2>2. clock' \in [day: Days, starts: 0..StartTimes]
    <3>1. CASE NobodyStarts
      BY <1>d, <3>1 DEF NobodyStarts
    <3>2. CASE NextDay
      BY <2>1, <3>2, StartTimesAssumption DEF NextDay
    <3>3. QED
      BY <1>3, <3>1, <3>2
  <2>3. UNCHANGED <<ledger, pc, todo, attempt, runs, used>>
    BY <1>3 DEF NobodyStarts, NextDay
  <2>4. QED
    BY <1>1, <2>2, <2>3
<1>4. CASE LaunchdStarts \/ StartDaily
    BY <1>1, <1>d, <1>e, <1>4 DEF LaunchdStarts, StartDaily
<1>5. CASE StartManual \/ StartLost
  <2>1. CASE StartManual
    <3>1. Begin(FALSE) /\ clock' = clock
      BY <2>1 DEF StartManual
    <3>2. used' \in [faults: 0..MaxFaults, manual: 0..MaxManual, damage: 0..MaxDamage]
      BY <1>1, <2>1, BoundsAssumption DEF StartManual, Spend
    <3>3. UNCHANGED chainVars
      BY <3>1 DEF Begin
    <3>4. QED
      BY <1>1, <1>e, <3>1, <3>2, <3>3
  <2>2. CASE StartLost
    BY <1>1, <1>d, <2>2, BoundsAssumption DEF StartLost, Spend, CanFail
  <2>3. QED
    BY <1>5, <2>1, <2>2
<1>6. CASE ChainAccepted \/ ChainRefused \/ ExportModified \/ NothingFrozen
    BY <1>1, <1>6 DEF ChainAccepted, ChainRefused, ExportModified, NothingFrozen, Goto
<1>7. CASE RepairExports
    BY <1>1, <1>b, <1>7 DEF RepairExports, Goto
<1>8. CASE AlreadyFrozen \/ Succeed \/ ReportFailure
    BY <1>1, <1>a, <1>8 DEF AlreadyFrozen, Succeed, ReportFailure, Report, Leave, Goto
<1>9. ASSUME NEW r \in Results, Persist(r) \/ PersistConflict(r) PROVE TypeOK'
    BY <1>1, <1>b, <1>9 DEF Persist, PersistConflict, Goto
<1>10. ASSUME NEW p \in Paths, Export(p) \/ ExportDiffers(p) PROVE TypeOK'
    BY <1>1, <1>10 DEF Export, ExportDiffers, Goto
<1>11. ASSUME NEW c \in Callers, NEW p \in Paths,
              RecordKnown(c, p) \/ RecordRefused(c, p)
       PROVE  TypeOK'
    BY <1>1, <1>11 DEF RecordKnown, RecordRefused, AfterRecord, Abort, Goto
<1>12. ASSUME NEW c \in Callers, RecordAppends(c) \/ \E p \in Paths : RecordBegins(c, p)
       PROVE  TypeOK'
    BY <1>1, <1>12 DEF RecordBegins, RecordAppends, ledgerVars
<1>13. ASSUME NEW c \in Callers, RecordEnds(c) PROVE TypeOK'
    BY <1>1, <1>13 DEF RecordEnds, AfterRecord, Goto
<1>14. CASE OperatorStart \/ OperatorEnd
    BY <1>1, <1>14 DEF OperatorStart, OperatorEnd, Goto, Existing
<1>15. ASSUME NEW c \in Callers, StepRaises(c) PROVE TypeOK'
    BY <1>1, <1>15, BoundsAssumption DEF StepRaises, Abort, Goto, Spend, CanFail
<1>16. ASSUME NEW c \in Callers, Crash(c) PROVE TypeOK'
    BY <1>1, <1>a, <1>16, BoundsAssumption DEF Crash, Leave, Goto, Spend, CanFail
<1>17. ASSUME NEW p \in Paths, Damage(p) PROVE TypeOK'
  <2>1. (attempt.damaged /\ ~FilesMatch') \in BOOLEAN
    OBVIOUS
  <2>2. attempt' \in [day: Days, daily: BOOLEAN, damaged: BOOLEAN]
    BY <1>1, <1>17, <2>1 DEF Damage
  <2>3. used' \in [faults: 0..MaxFaults, manual: 0..MaxManual, damage: 0..MaxDamage]
    BY <1>1, <1>17, BoundsAssumption DEF Damage, Spend
  <2>4. QED
    BY <1>1, <1>17, <2>2, <2>3 DEF Damage
<1>18. QED
    BY <1>2, <1>3, <1>4, <1>5, <1>6, <1>7, <1>8, <1>9, <1>10, <1>11, <1>12, <1>13,
       <1>14, <1>15, <1>16, <1>17
    DEF Next, StartTime, JobNext, OperatorNext, RecordNext

LEMMA PairStep ==
    ASSUME LedgerInv, [Next]_vars
    PROVE  PairAtomic'
<1>1. TypeOK /\ PairAtomic
    BY DEF LedgerInv
<1>2. CASE ledger' = ledger
    BY <1>1, <1>2 DEF PairAtomic
<1>3. ASSUME NEW r \in Results, Persist(r) PROVE PairAtomic'
  <2> SUFFICES ASSUME NEW d \in Days, NEW p \in PairOf(d), NEW q \in PairOf(d)
               PROVE  ledger'[p] = ledger'[q]
    BY DEF PairAtomic
  <2>1. p \in Paths /\ q \in Paths /\ ledger[p] = ledger[q]
    BY <1>1, PairsArePaths DEF PairAtomic
  <2>2. p \in PairOf(attempt.day) <=> q \in PairOf(attempt.day)
    BY DEF PairOf
  <2>3. QED
    BY <1>3, <2>1, <2>2 DEF Persist
<1>4. QED
    BY <1>1, <1>2, <1>3, LedgerFrame

LEMMA BackedStep ==
    ASSUME LedgerInv, [Next]_vars
    PROVE  ExportBackedByLedger'
<1>1. TypeOK /\ ExportBackedByLedger /\ CallsBelong /\ ExportsCommitted
    BY DEF LedgerInv
<1>2. \A p \in Paths : ledger[p] # Absent => ledger'[p] = ledger[p]
    BY <1>1, LedgerFrame
<1>3. ASSUME NEW p \in Paths, files'[p] # Absent
      PROVE  ledger'[p] # Absent /\ files'[p] \in {ledger'[p], Altered}
  <2>1. files[p] # Absent => ledger[p] # Absent /\ files[p] \in {ledger[p], Altered}
    BY <1>1 DEF ExportBackedByLedger, Existing
  <2>2. CASE files' = files
    BY <1>2, <1>3, <2>1, <2>2
  <2>3. ASSUME NEW q \in Paths, Export(q)
        PROVE  ledger'[p] # Absent /\ files'[p] \in {ledger'[p], Altered}
    <3>1. ledger[q] # Absent
      BY <1>1, <2>3 DEF Export, IsNext, ExportsCommitted, Committed
    <3>2. files' = [files EXCEPT ![q] = ledger[q]]
      BY <2>3 DEF Export
    <3>3. files'[p] = IF p = q THEN ledger[q] ELSE files[p]
      BY <1>1, <3>2 DEF TypeOK, ChainTypeOK
    <3>4. QED
      BY <1>2, <1>3, <2>1, <3>1, <3>3
  <2>4. ASSUME NEW q \in Paths, Damage(q)
        PROVE  ledger'[p] # Absent /\ files'[p] \in {ledger'[p], Altered}
    <3>1. PICK content \in {Altered, Absent} : files' = [files EXCEPT ![q] = content]
      BY <2>4 DEF Damage, PutFile
    <3>2. files[q] # Absent
      BY <2>4 DEF Damage
    <3>3. files'[p] = IF p = q THEN content ELSE files[p]
      BY <1>1, <3>1 DEF TypeOK, ChainTypeOK
    <3>4. QED
      BY <1>2, <1>3, <2>1, <3>2, <3>3
  <2>5. QED
    BY <2>2, <2>3, <2>4, FilesFrame
<1>4. ASSUME NEW i \in DOMAIN chain'
      PROVE  /\ ledger'[chain'[i].path] # Absent
             /\ chain'[i].content \in {ledger'[chain'[i].path], Altered}
  <2>1. ASSUME NEW j \in DOMAIN chain
        PROVE  /\ ledger'[chain[j].path] # Absent
               /\ chain[j].content \in {ledger'[chain[j].path], Altered}
    <3>1. chain[j] \in Record
      BY <1>1 DEF TypeOK, ChainTypeOK
    <3>2. chain[j].path \in Paths
      BY <3>1 DEF Record
    <3>3. QED
      BY <1>1, <1>2, <3>2 DEF ExportBackedByLedger
  <2>2. CASE chain' = chain
    BY <2>1, <2>2
  <2>3. ASSUME NEW c \in Callers, RecordAppends(c)
        PROVE  /\ ledger'[chain'[i].path] # Absent
               /\ chain'[i].content \in {ledger'[chain'[i].path], Altered}
    <3>1. chain' = Append(chain, Pending(c)) /\ call[c].at # "none"
      BY <2>3 DEF RecordAppends, AppendRecord, Pending
    <3>2. chain'[i] = Pending(c) \/ (i \in DOMAIN chain /\ chain'[i] = chain[i])
      BY <1>1, <3>1 DEF TypeOK, ChainTypeOK
    <3>3. /\ Pending(c).path \in Paths
          /\ ledger[Pending(c).path] # Absent
          /\ Pending(c).content \in {ledger[Pending(c).path], Altered}
      BY <1>1, <3>1 DEF CallsBelong, Belongs
    <3>4. QED
      BY <1>2, <2>1, <3>2, <3>3
  <2>4. QED
    BY <2>2, <2>3, ChainFrame
<1>5. QED
    BY <1>3, <1>4 DEF ExportBackedByLedger, Existing

\* A caller whose call is under way only goes on with it, raises or dies; what
\* anybody else does leaves it where it is.
LEMMA CallerFrame ==
    ASSUME LedgerInv, [Next]_vars, NEW c \in Callers, call'[c].at # "none"
    PROVE  \/ \E p \in Paths : RecordBegins(c, p)
           \/ /\ call[c].at # "none"
              /\ call'[c].records = call[c].records
              /\ pc'[c] = pc[c]
              /\ todo'[c] = todo[c]
<1>1. TypeOK /\ CallsBelong /\ OneHolder
    BY DEF LedgerInv, ChainInv
<1>2. call[c].at # "none" => pc[c] = "record" /\ todo[c] # {}
    BY <1>1 DEF CallsBelong, Belongs, IsNext
<1> DEFINE Goal == \/ \E p \in Paths : RecordBegins(c, p)
                   \/ /\ call[c].at # "none"
                      /\ call'[c].records = call[c].records
                      /\ pc'[c] = pc[c]
                      /\ todo'[c] = todo[c]
<1>3. CASE UNCHANGED vars \/ NobodyStarts \/ StartLost \/ NextDay
    BY <1>3 DEF vars, NobodyStarts, StartLost, NextDay, chainVars
<1>4. CASE LaunchdStarts \/ StartDaily \/ StartManual \/ OperatorStart \/ OperatorEnd
    BY <1>1, <1>2, <1>4 DEF LaunchdStarts, StartDaily, StartManual, Begin, OperatorStart,
                            OperatorEnd, Goto, chainVars, TypeOK
<1>5. CASE ChainAccepted \/ ChainRefused \/ ExportModified \/ RepairExports \/ NothingFrozen
    BY <1>1, <1>2, <1>5 DEF ChainAccepted, ChainRefused, ExportModified, RepairExports,
                      NothingFrozen, Goto, chainVars, TypeOK
<1>6. CASE AlreadyFrozen \/ Succeed \/ ReportFailure
    BY <1>1, <1>2, <1>6 DEF AlreadyFrozen, Succeed, ReportFailure, Leave, Goto, chainVars,
                      TypeOK
<1>7. ASSUME NEW r \in Results, Persist(r) \/ PersistConflict(r) PROVE Goal
    BY <1>1, <1>2, <1>7 DEF Persist, PersistConflict, Goto, chainVars, TypeOK
<1>8. ASSUME NEW p \in Paths, Export(p) \/ ExportDiffers(p) PROVE Goal
    BY <1>1, <1>2, <1>8 DEF Export, ExportDiffers, Goto, chainVars, TypeOK
<1>9. ASSUME NEW d \in Callers, NEW p \in Paths, RecordKnown(d, p) \/ RecordRefused(d, p)
      PROVE Goal
    BY <1>1, <1>2, <1>9 DEF RecordKnown, RecordRefused, InRecord, AfterRecord, Abort, Goto,
                      chainVars, TypeOK
<1>10. ASSUME NEW d \in Callers, NEW p \in Paths, RecordBegins(d, p) PROVE Goal
    BY <1>1, <1>10 DEF RecordBegins, BeginRecord, LockFree, ledgerVars, TypeOK, ChainTypeOK
<1>11. ASSUME NEW d \in Callers, RecordAppends(d) PROVE Goal
    BY <1>1, <1>11 DEF RecordAppends, AppendRecord, ledgerVars, TypeOK, ChainTypeOK
<1>12. ASSUME NEW d \in Callers, RecordEnds(d) PROVE Goal
    BY <1>1, <1>12 DEF RecordEnds, WriteHead, NoCall, OneHolder, TypeOK, ChainTypeOK
<1>13. ASSUME NEW d \in Callers, StepRaises(d) \/ Crash(d) PROVE Goal
    BY <1>1, <1>13 DEF StepRaises, Crash, TearAppend, DropCall, NoCall, Abort, Leave, Goto,
                      chainVars, TypeOK, ChainTypeOK
<1>14. ASSUME NEW p \in Paths, Damage(p) PROVE Goal
    BY <1>14 DEF Damage, PutFile
<1>15. ASSUME NEW d \in Callers, RecordNext(d) PROVE Goal
    BY <1>9, <1>10, <1>11, <1>12, <1>15 DEF RecordNext
<1>16. QED
    BY <1>3, <1>4, <1>5, <1>6, <1>7, <1>8, <1>13, <1>14, <1>15, TheCallers
    DEF Next, StartTime, JobNext, OperatorNext

LEMMA CallsStep ==
    ASSUME LedgerInv, [Next]_vars
    PROVE  CallsBelong'
<1> SUFFICES ASSUME NEW c \in Callers, call'[c].at # "none"
             PROVE  Belongs(c)'
    BY DEF CallsBelong, Belongs
<1>1. TypeOK /\ CallsBelong /\ ExportBackedByLedger
    BY DEF LedgerInv
<1>2. \A p \in Paths : ledger[p] # Absent => ledger'[p] = ledger[p]
    BY <1>1, LedgerFrame
<1>3. ASSUME NEW p \in Paths, RecordBegins(c, p)
      PROVE  Belongs(c)'
  <2> DEFINE r == [sequence |-> Len(chain) + 1, path |-> p, content |-> files[p]]
  <2>1. call'[c].records = Append(chain, r) /\ files[p] # Absent
    BY <1>1, <1>3 DEF RecordBegins, BeginRecord, TypeOK, ChainTypeOK
  <2>2. Append(chain, r)[Len(Append(chain, r))] = r
    BY <1>1 DEF TypeOK, ChainTypeOK
  <2>3. Pending(c)' = r
    BY <2>1, <2>2 DEF Pending
  <2>4. pc'[c] = "record" /\ IsNext(c, p)' /\ ledger' = ledger
    BY <1>3 DEF RecordBegins, InRecord, IsNext, ledgerVars
  <2>5. ledger[p] # Absent /\ files[p] \in {ledger[p], Altered}
    BY <1>1, <2>1 DEF ExportBackedByLedger, Existing
  <2>6. QED
    BY <2>3, <2>4, <2>5 DEF Belongs
<1>4. CASE /\ call[c].at # "none"
           /\ call'[c].records = call[c].records
           /\ pc'[c] = pc[c]
           /\ todo'[c] = todo[c]
  <2>1. Pending(c)' = Pending(c)
    BY <1>4 DEF Pending
  <2>2. QED
    BY <1>1, <1>2, <1>4, <2>1 DEF CallsBelong, Belongs, IsNext
<1>5. QED
    BY <1>3, <1>4, CallerFrame

\* Nobody but the job moves the job.
LEMMA JobFrame ==
    ASSUME TypeOK, [Next]_vars
    PROVE  \/ UNCHANGED <<pc["job"], todo["job"], attempt.day>>
           \/ LaunchdStarts \/ StartDaily \/ StartManual \/ JobNext
           \/ StepRaises("job") \/ Crash("job")
<1> DEFINE Goal == \/ UNCHANGED <<pc["job"], todo["job"], attempt.day>>
                   \/ LaunchdStarts \/ StartDaily \/ StartManual \/ JobNext
                   \/ StepRaises("job") \/ Crash("job")
<1> USE CallersAssumption
<1>1. CASE UNCHANGED vars \/ NobodyStarts \/ StartLost \/ NextDay
    BY <1>1 DEF vars, NobodyStarts, StartLost, NextDay
<1>2. CASE OperatorStart \/ OperatorEnd
    BY <1>2 DEF OperatorStart, OperatorEnd, Goto, TypeOK
<1>3. CASE RecordNext("operator")
    BY <1>3 DEF RecordNext, RecordKnown, RecordBegins, RecordRefused, RecordAppends,
                RecordEnds, AfterRecord, Abort, Goto, ledgerVars, TypeOK
<1>4. CASE StepRaises("operator") \/ Crash("operator")
    BY <1>4 DEF StepRaises, Crash, Abort, Leave, Goto, TypeOK
<1>5. ASSUME NEW p \in Paths, Damage(p) PROVE Goal
    BY <1>5 DEF Damage, TypeOK
<1>6. QED
    BY <1>1, <1>2, <1>3, <1>4, <1>5 DEF Next, StartTime, OperatorNext

\* AfterRecord ticks off the file that the call was about.
LEMMA TickOff ==
    ASSUME TypeOK, NEW c \in Callers, NEW p, IsNext(c, p), AfterRecord(c)
    PROVE  todo' = [todo EXCEPT ![c] = @ \ {p}]
<1>1. PICK q \in todo[c] : IsNext(c, q) /\ todo' = [todo EXCEPT ![c] = @ \ {q}]
    BY DEF AfterRecord
<1>2. p = q
    BY <1>1, NextIsUnique
<1>3. QED
    BY <1>1, <1>2

LEMMA ExportsStep ==
    ASSUME LedgerInv, [Next]_vars
    PROVE  ExportsCommitted'
<1>1. /\ TypeOK /\ ExportsCommitted /\ CallsBelong /\ ChainInv
      /\ attempt.day \in Days /\ PairOf(attempt.day) \subseteq Paths
    BY PairsArePaths DEF LedgerInv, TypeOK
<1>2. /\ \A p \in Paths : ledger[p] # Absent => ledger'[p] = ledger[p]
      /\ Tracked \subseteq Tracked'
    BY <1>1, LedgerFrame, TrackedGrows
<1>3. \A S : PairOf(attempt.day) \ S \subseteq Tracked => PairOf(attempt.day) \ S \subseteq Tracked'
    BY <1>2
<1>4. CASE UNCHANGED <<pc["job"], todo["job"], attempt.day>>
  <2>1. PairOf(attempt.day)' = PairOf(attempt.day)
    BY <1>4 DEF PairOf
  <2>2. QED
    BY <1>1, <1>2, <1>4, <2>1 DEF ExportsCommitted, Committed
<1>5. CASE pc'["job"] \notin {"export", "record"}
    BY <1>5 DEF ExportsCommitted
<1>6. CASE LaunchdStarts \/ StartDaily \/ StartManual
    BY <1>1, <1>5, <1>6, TheCallers DEF LaunchdStarts, StartDaily, StartManual, Begin,
                                        Goto, TypeOK
<1>7. CASE StepRaises("job") \/ Crash("job")
    BY <1>1, <1>5, <1>7, TheCallers DEF StepRaises, Crash, Abort, Leave, Goto, TypeOK
<1>8. CASE ChainAccepted \/ ChainRefused \/ ExportModified \/ NothingFrozen
    BY <1>1, <1>5, <1>8, TheCallers DEF ChainAccepted, ChainRefused, ExportModified,
          NothingFrozen, Goto, TypeOK
<1>9. CASE AlreadyFrozen \/ Succeed \/ ReportFailure
    BY <1>1, <1>5, <1>9, TheCallers DEF AlreadyFrozen, Succeed, ReportFailure, Leave, Goto,
          TypeOK
<1>10. CASE RepairExports
  <2>1. \A p \in PairOf(attempt.day) : ledger[p] # Absent
    BY <1>10 DEF RepairExports, PairStatuses, ExportStatus
  <2>2. todo'["job"] = PairOf(attempt.day) /\ UNCHANGED <<ledger, attempt>>
    BY <1>1, <1>10, TheCallers DEF RepairExports, TypeOK
  <2>3. QED
    BY <2>1, <2>2 DEF ExportsCommitted, Committed, PairOf
<1>11. ASSUME NEW r \in Results, Persist(r) PROVE ExportsCommitted'
  <2>1. \A p \in PairOf(attempt.day) : ledger'[p] = r /\ r # Absent
    BY <1>1, <1>11, RowsAreContents DEF Persist
  <2>2. todo'["job"] = PairOf(attempt.day) /\ UNCHANGED attempt
    BY <1>1, <1>11, TheCallers DEF Persist, TypeOK
  <2>3. QED
    BY <2>1, <2>2 DEF ExportsCommitted, Committed, PairOf
<1>12. ASSUME NEW r \in Results, PersistConflict(r) PROVE ExportsCommitted'
    BY <1>1, <1>5, <1>12, TheCallers DEF PersistConflict, Goto, TypeOK
<1>13. ASSUME NEW p \in Paths, ExportDiffers(p) PROVE ExportsCommitted'
    BY <1>1, <1>5, <1>13, TheCallers DEF ExportDiffers, Goto, TypeOK
<1>14. ASSUME NEW p \in Paths, Export(p) PROVE ExportsCommitted'
  <2>1. pc["job"] = "export" /\ UNCHANGED <<ledger, todo, attempt, chain>>
    BY <1>14 DEF Export
  <2>2. QED
    BY <1>1, <2>1 DEF ExportsCommitted, Committed, PairOf, Tracked
<1>15. ASSUME NEW p \in Paths, IsNext("job", p), AfterRecord("job"), p \in Tracked',
              pc["job"] = "record", UNCHANGED <<ledger, attempt>>
       PROVE  ExportsCommitted'
  <2>1. todo'["job"] = todo["job"] \ {p}
    BY <1>1, <1>15, TickOff, TheCallers DEF TypeOK
  <2>2. PairOf(attempt.day) \ todo'["job"] \subseteq Tracked'
    BY <1>1, <1>2, <1>15, <2>1 DEF ExportsCommitted
  <2>3. PairOf(attempt.day)' = PairOf(attempt.day) /\ Committed(attempt.day)'
    BY <1>1, <1>15 DEF ExportsCommitted, PairOf, Committed
  <2>4. todo'["job"] \subseteq PairOf(attempt.day)
    BY <1>1, <1>15, <2>1 DEF ExportsCommitted
  <2>5. QED
    BY <2>2, <2>3, <2>4 DEF ExportsCommitted
<1>16. CASE RecordNext("job")
  <2>1. ASSUME NEW p \in Paths, RecordKnown("job", p) PROVE ExportsCommitted'
    <3>1. p \in Tracked' /\ IsNext("job", p) /\ AfterRecord("job")
      BY <1>2, <2>1 DEF RecordKnown, AlreadyRecorded, InRecord
    <3>2. pc["job"] = "record" /\ UNCHANGED <<ledger, attempt>>
      BY <2>1 DEF RecordKnown, InRecord
    <3>3. QED
      BY <1>15, <3>1, <3>2
  <2>2. ASSUME NEW p \in Paths, RecordBegins("job", p) PROVE ExportsCommitted'
    BY <1>4, <2>2 DEF RecordBegins, ledgerVars
  <2>3. ASSUME NEW p \in Paths, RecordRefused("job", p) PROVE ExportsCommitted'
    BY <1>1, <1>5, <2>3, TheCallers DEF RecordRefused, Abort, Goto, TypeOK
  <2>4. CASE RecordAppends("job")
    BY <1>4, <2>4 DEF RecordAppends, ledgerVars
  <2>5. CASE RecordEnds("job")
    <3>1. /\ call["job"].at = "appended" /\ call["job"].records = chain
          /\ Len(chain) = Len(head) + 1
      BY <1>1, <2>5, TheCallers DEF RecordEnds, WriteHead, ChainInv, AppendedCall
    <3>2. chain \in Seq(Record) /\ Len(head) \in Nat
      BY <1>1 DEF TypeOK, ChainTypeOK
    <3>3. Len(chain) \in DOMAIN chain /\ Pending("job") = chain[Len(chain)]
      BY <3>1, <3>2 DEF Pending
    <3>4. Pending("job").path \in Tracked
      BY <3>3 DEF Tracked
    <3>5. /\ pc["job"] = "record"
          /\ Pending("job").path \in Paths
          /\ IsNext("job", Pending("job").path)
      BY <1>1, <3>1, TheCallers DEF CallsBelong, Belongs
    <3>6. AfterRecord("job") /\ UNCHANGED <<ledger, attempt>>
      BY <2>5 DEF RecordEnds
    <3>7. QED
      BY <1>2, <1>15, <3>4, <3>5, <3>6
  <2>6. QED
    BY <1>16, <2>1, <2>2, <2>3, <2>4, <2>5 DEF RecordNext
<1>17. CASE JobNext
    BY <1>8, <1>9, <1>10, <1>11, <1>12, <1>13, <1>14, <1>16, <1>17 DEF JobNext
<1>18. QED
    BY <1>1, <1>4, <1>6, <1>7, <1>17, JobFrame

LEMMA AuditedStep ==
    ASSUME LedgerInv, [Next]_vars
    PROVE  AuditedFilesTracked'
<1> SUFFICES ASSUME pc'["job"] = "audit" PROVE Existing' \subseteq Tracked'
    BY DEF AuditedFilesTracked
<1>1. TypeOK /\ AuditedFilesTracked /\ Tracked \subseteq Tracked'
    BY TrackedGrows DEF LedgerInv
<1>2. Existing' \subseteq Existing
  <2>1. ASSUME NEW p \in Paths, Export(p) PROVE FALSE
    BY <1>1, <2>1, TheCallers DEF Export, Goto, TypeOK
  <2>2. ASSUME NEW p \in Paths, Damage(p) PROVE Existing' \subseteq Existing
    BY <1>1, <2>2 DEF Damage, PutFile, Existing, TypeOK, ChainTypeOK
  <2>3. QED
    BY <2>1, <2>2, FilesFrame DEF Existing
<1>3. CASE pc["job"] = "audit"
    BY <1>1, <1>2, <1>3 DEF AuditedFilesTracked
<1>4. CASE ChainAccepted
    BY <1>1, <1>2, <1>4 DEF ChainAccepted, Verified
<1>5. pc["job"] = "audit" \/ ChainAccepted
    BY <1>1, JobFrame, TheCallers
    DEF LaunchdStarts, StartDaily, StartManual, Begin, JobNext, ChainRefused,
        AlreadyFrozen, ExportModified, RepairExports, NothingFrozen, Persist,
        PersistConflict, Export, ExportDiffers, RecordNext, RecordKnown, RecordBegins,
        RecordRefused, RecordAppends, RecordEnds, AfterRecord, Abort, Succeed,
        ReportFailure, StepRaises, Crash, Leave, Goto, ledgerVars, TypeOK
<1>6. QED
    BY <1>3, <1>4, <1>5

LEMMA SuccessStep ==
    ASSUME LedgerInv, [Next]_vars
    PROVE  SuccessMeansAudited'
<1>1. /\ TypeOK /\ SuccessMeansAudited /\ Tracked \subseteq Tracked'
      /\ attempt.day \in Days /\ PairOf(attempt.day) \subseteq Paths
    BY TrackedGrows, PairsArePaths DEF LedgerInv, TypeOK
<1>2. \A p \in Paths : ledger[p] # Absent => ledger'[p] = ledger[p]
    BY <1>1, LedgerFrame
<1>3. ASSUME NEW d \in Days, Committed(d), PairOf(d) \subseteq Tracked
      PROVE  Committed(d)' /\ PairOf(d) \subseteq Tracked'
    BY <1>1, <1>2, <1>3, PairsArePaths DEF Committed
<1>4. Succeed => Committed(attempt.day) /\ PairOf(attempt.day) \subseteq Tracked
    BY DEF Succeed, LedgerInv, ExportsCommitted
<1>5. AlreadyFrozen => Committed(attempt.day) /\ PairOf(attempt.day) \subseteq Tracked
  <2> SUFFICES ASSUME AlreadyFrozen
               PROVE  Committed(attempt.day) /\ PairOf(attempt.day) \subseteq Tracked
    OBVIOUS
  <2>1. \A p \in PairOf(attempt.day) : ExportStatus(p) = "ok"
    BY DEF AlreadyFrozen, PairStatuses
  <2>2. \A p \in PairOf(attempt.day) : ledger[p] # Absent /\ files[p] # Absent
    BY <2>1 DEF ExportStatus
  <2>3. Existing \subseteq Tracked
    BY DEF AlreadyFrozen, LedgerInv, AuditedFilesTracked
  <2>4. QED
    BY <1>1, <2>2, <2>3 DEF Committed, Existing
<1>6. ASSUME NEW d \in Days, runs'[d] \cap {"success", "frozen"} # {}
      PROVE  Committed(d) /\ PairOf(d) \subseteq Tracked
  <2>1. CASE runs[d] \cap {"success", "frozen"} # {}
    BY <1>1, <2>1 DEF SuccessMeansAudited
  <2>2. CASE runs[d] \cap {"success", "frozen"} = {}
    <3>1. (AlreadyFrozen \/ Succeed) /\ d = attempt.day
      <4>1. ~LaunchdStarts /\ ~StartDaily /\ ~StartManual
        BY <1>1, <1>6, <2>2, StartsReport DEF LaunchdStarts, StartDaily, StartManual
      <4>2. QED
        BY <1>1, <1>6, <2>2, <4>1, RunsFrame
        DEF AlreadyFrozen, Succeed, ReportFailure, Report, TypeOK
    <3>2. QED
      BY <1>4, <1>5, <3>1
  <2>3. QED
    BY <2>1, <2>2
<1>7. QED
    BY <1>3, <1>6 DEF SuccessMeansAudited, PairOf

LEMMA DamageStep ==
    ASSUME LedgerInv, [Next]_vars
    PROVE  DamageSeen'
<1> SUFFICES ASSUME attempt'.damaged
             PROVE  pc'["job"] \in {"verify", "failing"} /\ ~FilesMatch'
    BY DEF DamageSeen
<1>1. TypeOK /\ DamageSeen
    BY DEF LedgerInv
<1>2. \A i \in DOMAIN chain : i \in DOMAIN chain' /\ chain'[i] = chain[i]
    BY <1>1, TrackedGrows
<1>3. ASSUME ~FilesMatch, files' = files PROVE ~FilesMatch'
    BY <1>2, <1>3 DEF FilesMatch
<1>4. CASE LaunchdStarts \/ StartDaily \/ StartManual
  <2>1. /\ pc'["job"] = "verify" /\ files' = files
        /\ \E b \in BOOLEAN : attempt' = [day |-> clock.day, daily |-> b,
                                          damaged |-> ~FilesMatch]
    BY <1>1, <1>4, TheCallers DEF LaunchdStarts, StartDaily, StartManual, Begin, Goto,
                                  chainVars, TypeOK
  <2>2. ~FilesMatch
    <3>1. PICK b \in BOOLEAN : attempt' = [day |-> clock.day, daily |-> b,
                                          damaged |-> ~FilesMatch]
      BY <2>1
    <3>2. attempt'.damaged = (~FilesMatch)
      BY <3>1
    <3>3. QED
      BY <3>2, Zenon
  <2>3. QED
    BY <1>3, <2>1, <2>2
<1>5. ASSUME NEW p \in Paths, Damage(p)
      PROVE  pc'["job"] \in {"verify", "failing"} /\ ~FilesMatch'
    BY <1>1, <1>5 DEF Damage, DamageSeen, TypeOK
<1>6. CASE ~(LaunchdStarts \/ StartDaily \/ StartManual) /\ ~(\E p \in Paths : Damage(p))
  <2>1. attempt' = attempt
    <3>1. attempt' # NoAttempt
      BY DEF NoAttempt
    <3>2. ASSUME NEW c, Leave(c) PROVE attempt' = attempt
      BY <3>1, <3>2 DEF Leave
    <3>3. ASSUME NEW c, RecordNext(c) \/ StepRaises(c) \/ Crash(c) PROVE attempt' = attempt
      BY <3>2, <3>3 DEF RecordNext, RecordKnown, RecordBegins, RecordRefused, RecordAppends,
                        RecordEnds, StepRaises, Crash, ledgerVars
    <3>4. QED
      BY <1>6, <3>2, <3>3
      DEF Next, vars, JobNext, OperatorNext, StartTime, NobodyStarts, StartLost,
          LaunchdStarts, NextDay, ChainAccepted, ChainRefused, AlreadyFrozen,
          ExportModified, RepairExports, NothingFrozen, Persist, PersistConflict, Export,
          ExportDiffers, Succeed, ReportFailure, OperatorStart, OperatorEnd
  <2>2. pc["job"] \in {"verify", "failing"} /\ ~FilesMatch
    BY <1>1, <2>1 DEF DamageSeen
  <2>3. files' = files
    BY <1>6, <2>2, FilesFrame DEF Export
  <2>4. pc'["job"] \in {"verify", "failing"}
    <3>1. ~ChainAccepted
      BY <2>2 DEF ChainAccepted, Verified
    <3>2. ~ReportFailure /\ ~Crash("job")
      BY <2>1 DEF ReportFailure, Crash, Leave, NoAttempt
    <3>3. CASE RecordNext("job")
      <4>1. call["job"].at = "none"
        BY <2>2, TheCallers DEF LedgerInv, CallsBelong, Belongs
      <4>2. QED
        BY <2>2, <3>3, <4>1 DEF RecordNext, RecordKnown, RecordBegins, RecordRefused,
           InRecord, RecordAppends, RecordEnds, AppendRecord, WriteHead
    <3>4. CASE ChainRefused \/ StepRaises("job")
      BY <1>1, <3>4, TheCallers DEF ChainRefused, StepRaises, Abort, Goto, TypeOK
    <3>5. CASE JobNext
      BY <2>2, <3>1, <3>2, <3>3, <3>4, <3>5
      DEF JobNext, AlreadyFrozen, ExportModified, RepairExports, NothingFrozen, Persist,
          PersistConflict, Export, ExportDiffers, Succeed
    <3>6. QED
      BY <1>1, <1>6, <2>2, <3>2, <3>4, <3>5, JobFrame
  <2>5. QED
    BY <1>3, <2>2, <2>3, <2>4
<1>7. QED
    BY <1>4, <1>5, <1>6

LEMMA LedgerStep == LedgerInv /\ [Next]_vars => LedgerInv'
<1> SUFFICES ASSUME LedgerInv, [Next]_vars PROVE LedgerInv'
    OBVIOUS
<1>1. ChainInv'
    BY ChainProjection, ChainStep DEF LedgerInv
<1>2. QED
    BY <1>1, TypeStep, PairStep, BackedStep, CallsStep, ExportsStep, AuditedStep,
       SuccessStep, DamageStep
    DEF LedgerInv

-----------------------------------------------------------------------------

THEOREM LedgerInvariance == Spec => []LedgerInv
<1>1. QED
    BY LedgerInitInv, LedgerStep, PTL DEF Spec

\* The variables keep their types.
THEOREM TypeCorrect == Spec => []TypeOK
<1>1. LedgerInv => TypeOK
    BY DEF LedgerInv
<1>2. QED
    BY <1>1, LedgerInvariance, PTL

\* The two accounts' rows of a day always come from the same attempt.
THEOREM PairIsAtomic == Spec => []PairAtomic
<1>1. LedgerInv => PairAtomic
    BY DEF LedgerInv
<1>2. QED
    BY <1>1, LedgerInvariance, PTL

\* Copies and chain records are those of committed rows.
THEOREM ExportsAreBacked == Spec => []ExportBackedByLedger
<1>1. LedgerInv => ExportBackedByLedger
    BY DEF LedgerInv
<1>2. QED
    BY <1>1, LedgerInvariance, PTL

\* A reported success stands for two committed rows and two registered copies.
THEOREM SuccessIsAudited == Spec => []SuccessMeansAudited
<1>1. LedgerInv => SuccessMeansAudited
    BY DEF LedgerInv
<1>2. QED
    BY <1>1, LedgerInvariance, PTL

\* The forward system uses the chain by its rules, so the chain stays well formed.
THEOREM SystemRespectsChain == Spec => ChainSpec
<1>1. Init => ChainInit
    BY DEF Init
<1>2. TypeOK /\ [Next]_vars => [ChainNext]_chainVars
    BY ChainProjection
<1>3. QED
    BY <1>1, <1>2, TypeCorrect, PTL DEF Spec, ChainSpec

\* No attempt replaces a row.
THEOREM LedgerIsFrozen == Spec => LedgerFrozen
<1>1. LedgerInv /\ [Next]_vars =>
        [\A p \in Paths : ledger[p] # Absent => ledger'[p] = ledger[p]]_vars
    BY LedgerFrame DEF LedgerInv
<1>2. QED
    BY <1>1, LedgerInvariance, PTL DEF Spec, LedgerFrozen

\* Damage stops the attempts that start after it.
THEOREM DamageStops == Spec => DamagedHistoryStops
<1> DEFINE Stops == /\ UNCHANGED ledger
                    /\ call["job"].at = "none"
                    /\ \A d \in Days : runs'[d] \subseteq runs[d] \cup {"error"}
           Found == \A c \in Callers : call[c].at = "none" => call'[c].at = "none"
<1>1. LedgerInv /\ [Next]_vars => [attempt.damaged => Stops]_vars
  <2> SUFFICES ASSUME LedgerInv, [Next]_vars, attempt.damaged
               PROVE  /\ UNCHANGED ledger
                      /\ call["job"].at = "none"
                      /\ \A d \in Days : runs'[d] \subseteq runs[d] \cup {"error"}
    OBVIOUS
  <2>1. TypeOK /\ pc["job"] \in {"verify", "failing"}
    BY DEF LedgerInv, DamageSeen
  <2>2. UNCHANGED ledger
    BY <2>1, LedgerFrame DEF Persist
  <2>3. call["job"].at = "none"
    BY <2>1, TheCallers DEF LedgerInv, CallsBelong, Belongs
  <2>4. \A d \in Days : runs'[d] \subseteq runs[d] \cup {"error"}
    <3>1. ~LaunchdStarts /\ ~StartDaily /\ ~StartManual
      BY <2>1 DEF LaunchdStarts, StartDaily, StartManual, Begin
    <3>2. QED
      BY <2>1, <3>1, RunsFrame DEF AlreadyFrozen, Succeed, ReportFailure, Report, TypeOK
  <2>5. QED
    BY <2>2, <2>3, <2>4
<1>2. LedgerInv /\ [Next]_vars => [~FilesMatch => Found]_vars
  <2> SUFFICES ASSUME LedgerInv, [Next]_vars, ~FilesMatch, NEW c \in Callers,
                      call[c].at = "none"
               PROVE  call'[c].at = "none"
    OBVIOUS
  <2>1. TypeOK /\ ChainTypeOK /\ [ChainNext]_chainVars
    BY ChainProjection DEF LedgerInv, TypeOK
  <2>2. \A d \in Callers, p \in Paths : ~BeginRecord(d, p)
    BY DEF BeginRecord, Verified
  <2>3. ASSUME NEW d \in Callers,
               AppendRecord(d) \/ TearAppend(d) \/ WriteHead(d) \/ DropCall(d)
        PROVE  call'[c].at = "none"
    BY <2>1, <2>3 DEF AppendRecord, TearAppend, WriteHead, DropCall, NoCall, ChainTypeOK
  <2>4. QED
    BY <2>1, <2>2, <2>3 DEF ChainNext, PutFile, chainVars
<1>3. LedgerInv /\ [Next]_vars =>
        [(attempt.damaged => Stops) /\ (~FilesMatch => Found)]_vars
    BY <1>1, <1>2
<1>4. QED
    BY <1>3, LedgerInvariance, PTL DEF Spec, DamagedHistoryStops

-----------------------------------------------------------------------------
(* While nobody touches the exports the system implements DailyAudit.      *)

\* Without damage nothing that is exported or registered is an edited copy.
Untouched ==
    /\ \A p \in Paths : files[p] # Altered
    /\ \A i \in DOMAIN chain : chain[i].content # Altered
    /\ \A c \in Callers : call[c].at # "none" => Pending(c).content # Altered

LEMMA InitUntouched == Init => Untouched
  BY ContentsAssumption, AbsentAssumption DEF Init, ChainInit, Untouched, NoCall

LEMMA UntouchedStep ==
    ASSUME \A p \in Paths : ~Damage(p), LedgerInv, Untouched, [Next]_vars
    PROVE  Untouched'
<1>1. TypeOK
    BY DEF LedgerInv
<1>2. \A p \in Paths : files'[p] # Altered
  <2>1. ASSUME NEW q \in Paths, Export(q) PROVE \A p \in Paths : files'[p] # Altered
    <3>1. ledger[q] # Altered
      BY <1>1, ContentsAssumption, AbsentAssumption DEF TypeOK
    <3>2. QED
      BY <1>1, <2>1, <3>1 DEF Export, Untouched, TypeOK, ChainTypeOK
  <2>2. QED
    BY <2>1, FilesFrame DEF Untouched
<1>3. ASSUME NEW i \in DOMAIN chain' PROVE chain'[i].content # Altered
  <2>1. CASE chain' = chain
    BY <1>3, <2>1 DEF Untouched
  <2>2. ASSUME NEW c \in Callers, RecordAppends(c) PROVE chain'[i].content # Altered
    <3>1. chain' = Append(chain, Pending(c)) /\ call[c].at # "none"
      BY <2>2 DEF RecordAppends, AppendRecord, Pending
    <3>2. chain'[i] = Pending(c) \/ (i \in DOMAIN chain /\ chain'[i] = chain[i])
      BY <1>1, <1>3, <3>1 DEF TypeOK, ChainTypeOK
    <3>3. QED
      BY <3>1, <3>2 DEF Untouched
  <2>3. QED
    BY <2>1, <2>2, ChainFrame
<1>4. ASSUME NEW c \in Callers, call'[c].at # "none" PROVE Pending(c)'.content # Altered
  <2>1. ASSUME NEW p \in Paths, RecordBegins(c, p) PROVE Pending(c)'.content # Altered
    <3> DEFINE r == [sequence |-> Len(chain) + 1, path |-> p, content |-> files[p]]
    <3>1. call'[c].records = Append(chain, r)
      BY <1>1, <2>1 DEF RecordBegins, BeginRecord, TypeOK, ChainTypeOK
    <3>2. Append(chain, r)[Len(Append(chain, r))] = r
      BY <1>1 DEF TypeOK, ChainTypeOK
    <3>3. Pending(c)' = r
      BY <3>1, <3>2 DEF Pending
    <3>4. QED
      BY <3>3 DEF Untouched
  <2>2. CASE call[c].at # "none" /\ call'[c].records = call[c].records
    BY <2>2 DEF Pending, Untouched
  <2>3. QED
    BY <1>4, <2>1, <2>2, CallerFrame
<1>5. QED
    BY <1>2, <1>3, <1>4 DEF Untouched

\* The projection of the chain on what DailyAudit logs.
Entry(r) == [path |-> r.path, content |-> r.content]
AuditLog == [i \in DOMAIN chain |-> Entry(chain[i])]

LEMMA AuditStep ==
    ASSUME LedgerInv, Untouched, [Next]_vars
    PROVE  [Audit!Next]_(Audit!vars)
<1>1. /\ TypeOK /\ PairAtomic /\ attempt.day \in Days
      /\ PairOf(attempt.day) \subseteq Paths
    BY PairsArePaths DEF LedgerInv, TypeOK
<1>2. CASE ledger' = ledger /\ chain' = chain
    BY <1>2 DEF Audit!vars
<1>3. ASSUME NEW r \in Results, Persist(r) PROVE [Audit!Next]_(Audit!vars)
  <2>1. /\ chain' = chain
        /\ \A p \in PairOf(attempt.day) : ledger[p] \in {Absent, r}
        /\ ledger' = [p \in Paths |-> IF p \in PairOf(attempt.day) THEN r ELSE ledger[p]]
    BY <1>3 DEF Persist, chainVars
  <2>2. CASE \E p \in PairOf(attempt.day) : ledger[p] = Absent
    <3>1. \A p \in PairOf(attempt.day) : ledger[p] = Absent
      BY <1>1, <2>2 DEF PairAtomic
    <3>2. \A a \in Accounts : ledger[<<a, attempt.day>>] = Absent
      BY <3>1 DEF PairOf
    <3>3. \A p \in Paths : p \in PairOf(attempt.day) <=> p[2] = attempt.day
      BY PathsAssumption DEF PairOf
    <3>4. ledger' = [p \in Accounts \X Days |-> IF p[2] = attempt.day THEN r ELSE ledger[p]]
      BY <2>1, <3>3, PathsAssumption
    <3>5. Audit!Freeze(attempt.day, r)
      BY <2>1, <3>2, <3>4 DEF Audit!Freeze, Audit!Exports
    <3>6. QED
      BY <1>1, <3>5 DEF Audit!Next
  <2>3. CASE \A p \in PairOf(attempt.day) : ledger[p] # Absent
    <3>1. ledger' = ledger
      BY <1>1, <2>1, <2>3 DEF TypeOK
    <3>2. QED
      BY <2>1, <3>1 DEF Audit!vars
  <2>4. QED
    BY <2>2, <2>3
<1>4. ASSUME NEW c \in Callers, RecordAppends(c) PROVE [Audit!Next]_(Audit!vars)
  <2>1. /\ chain' = Append(chain, Pending(c)) /\ call[c].at = "locked"
        /\ ledger' = ledger
    BY <1>4 DEF RecordAppends, AppendRecord, Pending, ledgerVars
  <2>2. chain \in Seq(Record)
    BY <1>1 DEF TypeOK, ChainTypeOK
  <2>3. /\ Pending(c).path \in Paths
        /\ ledger[Pending(c).path] # Absent
        /\ Pending(c).content = ledger[Pending(c).path]
    BY <2>1 DEF LedgerInv, CallsBelong, Belongs, Untouched
  <2>4. Pending(c).path \notin Tracked
    <3>1. PICK p \in Paths, content \in Contents :
            /\ p \notin Tracked
            /\ call[c].records = Append(chain, [sequence |-> Len(chain) + 1,
                                                path |-> p, content |-> content])
      BY <2>1 DEF LedgerInv, ChainInv, LockedCall
    <3>2. Pending(c) = [sequence |-> Len(chain) + 1, path |-> p, content |-> content]
      BY <2>2, <3>1 DEF Pending
    <3>3. QED
      BY <3>1, <3>2
  <2>5. \A i \in DOMAIN AuditLog : AuditLog[i].path # Pending(c).path
    BY <2>4 DEF AuditLog, Entry, Tracked
  <2>6. AuditLog' = Append(AuditLog, Entry(Pending(c)))
    <3>1. /\ DOMAIN chain = 1..Len(chain) /\ Len(chain) \in Nat
          /\ DOMAIN chain' = 1..(Len(chain) + 1)
          /\ chain'[Len(chain) + 1] = Pending(c)
          /\ \A i \in 1..Len(chain) : chain'[i] = chain[i]
      BY <2>1, <2>2
    <3>2. AuditLog \in Seq({Entry(chain[i]) : i \in DOMAIN chain}) /\ Len(AuditLog) = Len(chain)
      BY <3>1 DEF AuditLog
    <3>3. /\ DOMAIN Append(AuditLog, Entry(Pending(c))) = 1..(Len(chain) + 1)
          /\ Append(AuditLog, Entry(Pending(c)))[Len(chain) + 1] = Entry(Pending(c))
          /\ \A i \in 1..Len(chain) : Append(AuditLog, Entry(Pending(c)))[i] = AuditLog[i]
      BY <3>1, <3>2
    <3>4. /\ AuditLog' = [i \in 1..(Len(chain) + 1) |-> Entry(chain'[i])]
          /\ AuditLog = [i \in 1..Len(chain) |-> Entry(chain[i])]
      BY <3>1 DEF AuditLog
    <3>5. QED
      BY <3>1, <3>2, <3>3, <3>4
  <2>7. PICK q \in Audit!Exports : q = Pending(c).path
    BY <2>3, PathsAssumption DEF Audit!Exports
  <2>8. Audit!Log(q)
    BY <2>1, <2>3, <2>5, <2>6, <2>7 DEF Audit!Log, AuditLog, Entry
  <2>9. QED
    BY <2>7, <2>8 DEF Audit!Next
<1>5. QED
    BY <1>1, <1>2, <1>3, <1>4, LedgerFrame, ChainFrame

LEMMA AuditInit == Init => Audit!Init
<1> SUFFICES ASSUME Init PROVE Audit!Init
    OBVIOUS
<1>1. ledger = [p \in Accounts \X Days |-> Absent] /\ chain = <<>>
    BY PathsAssumption DEF Init, ChainInit
<1>2. [i \in DOMAIN chain |-> [path |-> chain[i].path, content |-> chain[i].content]] = <<>>
    BY <1>1
<1>3. QED
    BY <1>1, <1>2 DEF Audit!Init, Audit!Exports

\* Ledger and chain keep the promise of DailyAudit, whatever raises or dies.
THEOREM SystemImplementsAudit ==
    ASSUME MaxDamage = 0
    PROVE  Spec => AuditSpec
<1>1. Init => Audit!Init /\ LedgerInv /\ Untouched
    BY AuditInit, LedgerInitInv, InitUntouched
<1>2. LedgerInv /\ Untouched /\ [Next]_vars => LedgerInv' /\ Untouched'
  <2>1. LedgerInv => \A p \in Paths : ~Damage(p)
    BY DEF LedgerInv, TypeOK, Damage
  <2>2. QED
    BY <2>1, LedgerStep, UntouchedStep
<1>3. LedgerInv /\ Untouched /\ [Next]_vars => [Audit!Next]_(Audit!vars)
    BY AuditStep
<1>4. QED
    BY <1>1, <1>2, <1>3, PTL DEF Spec, AuditSpec, Audit!Spec

-----------------------------------------------------------------------------
(* What the monitor keeps on its list.                                     *)

\* A nonempty set of numbers has a least one.
LEMMA LeastOfSet ==
    ASSUME NEW T, T \subseteq Nat, T # {}
    PROVE  \E x \in T : \A y \in T : x <= y
<1> DEFINE Less == OpToRel(<, Nat)
<1>1. Less = {p \in Nat \X Nat : p[1] < p[2]}
    BY Zenon DEF OpToRel
<1>2. IsWellFoundedOn(Less, Nat)
    BY NatLessThanWellFounded, Zenon
<1> HIDE DEF Less
<1>3. PICK x \in T : \A y \in T : ~(<<y, x>> \in Less)
    BY <1>2, WFMin, Zenon
<1>4. ASSUME NEW y \in T PROVE x <= y
  <2>1. x \in Nat /\ y \in Nat /\ <<y, x>> \notin Less
    BY <1>3
  <2>2. ~(<<y, x>>[1] < <<y, x>>[2])
    BY <1>1, <2>1, Zenon
  <2>3. QED
    BY <2>1, <2>2
<1>5. QED
    BY <1>4

\* The calendar goes on only, and with it the session that is expected.
LEMMA ClockFrame ==
    ASSUME TypeOK, [Next]_vars
    PROVE  clock' = clock \/ Tick \/ NextDay
<1>1. ASSUME NEW c, RecordNext(c) \/ StepRaises(c) \/ Crash(c) PROVE clock' = clock
    BY <1>1 DEF RecordNext, RecordKnown, RecordBegins, RecordRefused, RecordAppends,
                RecordEnds, StepRaises, Crash, ledgerVars
<1>2. QED
    BY <1>1 DEF Next, vars, JobNext, OperatorNext, StartTime, NobodyStarts, StartLost,
           LaunchdStarts, StartDaily, StartManual, Begin,
           ChainAccepted, ChainRefused, AlreadyFrozen, ExportModified, RepairExports,
           NothingFrozen, Persist, PersistConflict, Export, ExportDiffers, Succeed,
           ReportFailure, OperatorStart, OperatorEnd, Damage

LEMMA ExpectationGrows ==
    ASSUME TypeOK, [Next]_vars
    PROVE  /\ ExpectedSession \in Nat /\ ExpectedSession' \in Nat
           /\ ExpectedSession <= ExpectedSession'
<1>1. /\ clock.day \in Nat /\ clock.day >= 1 /\ clock.starts \in Nat
      /\ clock = [day |-> clock.day, starts |-> clock.starts]
    BY DaysAssumption, StartTimesAssumption DEF TypeOK
<1>2. CASE clock' = clock
    BY <1>1, <1>2 DEF ExpectedSession
<1>3. CASE Tick
  <2>1. clock'.day = clock.day /\ clock'.starts = clock.starts + 1
    BY <1>1, <1>3 DEF Tick
  <2>2. QED
    BY <1>1, <2>1 DEF ExpectedSession
<1>4. CASE NextDay
  <2>1. clock'.day = clock.day + 1 /\ clock'.starts = 0
    BY <1>4 DEF NextDay
  <2>2. QED
    BY <1>1, <2>1 DEF ExpectedSession
<1>5. QED
    BY <1>2, <1>3, <1>4, ClockFrame

\* What is known of a session stays known.
LEMMA EvidenceGrows ==
    ASSUME TypeOK, [Next]_vars, NEW e \in StartCandidates({})
    PROVE  e \in StartCandidates({})'
<1>1. /\ e \in ObservedDays \cup AttemptDays /\ e \in Days /\ e <= ExpectedSession
      /\ e \in Nat
    BY DaysAssumption DEF StartCandidates, ObservedDays, AttemptDays
<1>2. e <= ExpectedSession'
    BY <1>1, ExpectationGrows
<1>3. e \in ObservedDays => e \in ObservedDays'
    BY <1>1, PairsArePaths, LedgerFrame DEF ObservedDays, PairOf
<1>4. runs[e] \subseteq runs'[e]
  <2>1. attempt.day \in Days /\ runs \in [Days -> SUBSET Outcomes]
    BY DEF TypeOK
  <2>2. ASSUME NEW status, Report(status) PROVE runs[e] \subseteq runs'[e]
    BY <1>1, <2>1, <2>2 DEF Report
  <2>3. LaunchdStarts \/ StartDaily \/ StartManual => runs[e] \subseteq runs'[e]
    BY <1>1, StartsReport DEF LaunchdStarts, StartDaily, StartManual
  <2>4. QED
    BY <2>2, <2>3, RunsFrame DEF AlreadyFrozen, Succeed, ReportFailure
<1>5. e \in AttemptDays => e \in AttemptDays'
    BY <1>1, <1>4 DEF AttemptDays
<1>6. QED
    BY <1>1, <1>2, <1>3, <1>5 DEF StartCandidates

\* The list begins with the first session that anything is known of.
LEMMA FirstAfter ==
    ASSUME NEW e \in StartCandidates({})'
    PROVE  FirstDay({})' \in Nat /\ FirstDay({})' <= e
<1> DEFINE K == StartCandidates({})'
<1>1. K \subseteq Nat
    BY DaysAssumption DEF StartCandidates, ObservedDays, AttemptDays
<1> HIDE DEF K
<1>2. e \in K
    BY DEF K
<1>3. \E x \in K : \A y \in K : x <= y
    BY <1>1, <1>2, LeastOfSet
<1> DEFINE m == CHOOSE x \in K : \A y \in K : x <= y
<1>4. m \in K /\ \A y \in K : m <= y
    BY <1>3
<1>5. FirstDay({})' = m
    BY <1>2 DEF FirstDay, K
<1>6. QED
    BY <1>1, <1>2, <1>4, <1>5

LEMMA MissedStep ==
    ASSUME TypeOK, [Next]_vars,
           NEW d \in MissingDays({}), NEW e \in StartCandidates({}), e <= d
    PROVE  Committed(d)' \/ d \in MissingDays({})'
<1>1. d \in Days /\ d \in Nat /\ d <= ExpectedSession
    BY DaysAssumption DEF MissingDays, ExpectedDays
<1>2. e \in StartCandidates({})' /\ e \in Nat
    BY EvidenceGrows, DaysAssumption DEF StartCandidates, ObservedDays, AttemptDays
<1>3. FirstDay({})' \in Nat /\ FirstDay({})' <= e
    BY <1>2, FirstAfter
<1>4. d \in ExpectedDays({})'
    BY <1>1, <1>2, <1>3, ExpectationGrows DEF ExpectedDays
<1>5. QED
    BY <1>4 DEF MissingDays

\* No step of the system lets the monitor forget a session it had to list.
THEOREM MissedDaysAreKept == Spec => MissedDaysStay
<1>1. LedgerInv /\ [Next]_vars =>
        [\A d \in MissingDays({}) :
            (\E e \in StartCandidates({}) : e <= d) =>
                Committed(d)' \/ d \in MissingDays({})']_vars
    BY MissedStep DEF LedgerInv
<1>2. QED
    BY <1>1, LedgerInvariance, PTL DEF Spec, MissedDaysStay

-----------------------------------------------------------------------------
(* The monitor's silence.  While nothing failed and nobody touched the     *)
(* copies, every row has its copy or the job is about to write it, every   *)
(* copy is registered or the job is about to register it, and the head     *)
(* follows the chain.                                                      *)

Healthy == used.faults = 0 /\ used.damage = 0

RowsCopied ==
    \A p \in Paths : ledger[p] # Absent /\ files[p] = Absent =>
        pc["job"] \in {"export", "record"} /\ p \in todo["job"]

NextCopyWritten ==
    pc["job"] = "record" => \A p \in Paths : IsNext("job", p) => files[p] # Absent

CopiesTracked ==
    \A p \in Existing : p \in Tracked \/ (pc["job"] = "record" /\ IsNext("job", p))

NothingGone ==
    /\ Tracked \subseteq Existing
    /\ todo["operator"] \subseteq Existing
    /\ \A c \in Callers : call[c].at # "none" => Pending(c).path \in Existing

HeadFollows == ~torn /\ (head = chain \/ \E c \in Callers : call[c].at = "appended")

HealthParts ==
    Untouched /\ RowsCopied /\ NextCopyWritten /\ CopiesTracked /\ NothingGone /\ HeadFollows

HealthInv == Healthy => HealthParts

LEMMA InitHealthy == Init => HealthInv
<1> SUFFICES ASSUME Init PROVE HealthParts
    BY DEF HealthInv
<1>1. Untouched
    BY InitUntouched
<1>2. RowsCopied /\ NextCopyWritten
    BY TheCallers DEF Init, RowsCopied, NextCopyWritten
<1>3. Existing = {} /\ Tracked = {} /\ todo["operator"] = {} /\ HeadFollows
    BY TheCallers DEF Init, ChainInit, Existing, Tracked, HeadFollows
<1>4. \A c \in Callers : call[c].at = "none"
    BY DEF Init, ChainInit, NoCall
<1>5. QED
    BY <1>1, <1>2, <1>3, <1>4 DEF HealthParts, CopiesTracked, NothingGone

\* Faults and damages are counted and never forgotten.
LEMMA HealthyBefore ==
    ASSUME TypeOK, [Next]_vars, Healthy'
    PROVE  /\ Healthy
           /\ \A c \in Callers : ~StepRaises(c) /\ ~Crash(c)
           /\ \A p \in Paths : ~Damage(p)
<1>1. /\ used \in [faults: 0..MaxFaults, manual: 0..MaxManual, damage: 0..MaxDamage]
      /\ used.faults \in Nat /\ used.damage \in Nat
    BY BoundsAssumption DEF TypeOK
<1>2. ASSUME StartLost \/ \E c \in Callers : StepRaises(c) \/ Crash(c) PROVE FALSE
  <2>1. used'.faults = used.faults + 1
    BY <1>1, <1>2 DEF StartLost, StepRaises, Crash, Spend
  <2>2. QED
    BY <1>1, <2>1 DEF Healthy
<1>3. ASSUME NEW p \in Paths, Damage(p) PROVE FALSE
  <2>1. used'.damage = used.damage + 1
    BY <1>1, <1>3 DEF Damage, Spend
  <2>2. QED
    BY <1>1, <2>1 DEF Healthy
<1>4. UNCHANGED used \/ StartManual
  <2>1. ASSUME NEW c, RecordNext(c) PROVE UNCHANGED used
    BY <2>1 DEF RecordNext, RecordKnown, RecordBegins, RecordRefused, RecordAppends,
                RecordEnds, ledgerVars
  <2>2. QED
    BY <1>2, <1>3, <2>1
    DEF Next, vars, JobNext, OperatorNext, StartTime, NobodyStarts, StartLost,
        LaunchdStarts, NextDay, StartDaily, ChainAccepted, ChainRefused, AlreadyFrozen,
        ExportModified, RepairExports, NothingFrozen, Persist, PersistConflict, Export,
        ExportDiffers, Succeed, ReportFailure, OperatorStart, OperatorEnd
<1>5. StartManual => used'.faults = used.faults /\ used'.damage = used.damage
    BY <1>1 DEF StartManual, Spend
<1>6. QED
    BY <1>2, <1>3, <1>4, <1>5 DEF Healthy

\* As long as all is well the copies and the records are those of the rows.
LEMMA HealthyCopies ==
    ASSUME LedgerInv, HealthParts
    PROVE  /\ \A p \in Existing : ledger[p] # Absent /\ files[p] = ledger[p]
           /\ FilesMatch
           /\ LockFree => Verified(FALSE)
<1>1. \A p \in Existing : ledger[p] # Absent /\ files[p] = ledger[p]
    BY DEF LedgerInv, ExportBackedByLedger, HealthParts, Untouched, Existing
<1>2. ASSUME NEW i \in DOMAIN chain PROVE files[chain[i].path] = chain[i].content
  <2>1. chain[i].path \in Existing
    BY DEF HealthParts, NothingGone, Tracked
  <2>2. chain[i].content = ledger[chain[i].path]
    BY DEF LedgerInv, ExportBackedByLedger, HealthParts, Untouched
  <2>3. QED
    BY <1>1, <2>1, <2>2
<1>3. FilesMatch
    BY <1>2 DEF FilesMatch
<1>4. ChainWellFormed
    BY DEF LedgerInv, ChainInv
<1>5. QED
    BY <1>1, <1>3, <1>4
    DEF HealthParts, HeadFollows, LockFree, Verified, ChainWellFormed

\* So no attempt at registering a copy is refused, and no export differs.
LEMMA NothingRefused ==
    ASSUME LedgerInv, HealthParts
    PROVE  /\ \A c \in Callers, p \in Paths : ~RecordRefused(c, p)
           /\ \A p \in Paths : ~ExportDiffers(p)
<1>1. ASSUME NEW c \in Callers, NEW p \in Paths, RecordRefused(c, p) PROVE FALSE
  <2>1. files[p] # Absent
    <3>1. IsNext(c, p) /\ pc[c] = "record"
      BY <1>1 DEF RecordRefused, InRecord
    <3>2. CASE c = "job"
      BY <3>1, <3>2 DEF HealthParts, NextCopyWritten
    <3>3. CASE c = "operator"
      BY <3>1, <3>3 DEF HealthParts, NothingGone, IsNext, Existing
    <3>4. QED
      BY <3>2, <3>3, CallersAssumption
  <2>2. QED
    BY <1>1, <2>1, HealthyCopies DEF RecordRefused, RecordRaises
<1>2. ASSUME NEW p \in Paths, ExportDiffers(p) PROVE FALSE
  <2>1. p \in Existing
    BY <1>2 DEF ExportDiffers, Existing
  <2>2. QED
    BY <1>2, <2>1, HealthyCopies DEF ExportDiffers
<1>3. QED
    BY <1>1, <1>2

\* Files only appear, and only by an export.
LEMMA FilesAppear ==
    ASSUME LedgerInv, [Next]_vars, Healthy'
    PROVE  /\ Existing \subseteq Existing'
           /\ files' = files \/ \E p \in Paths : Export(p)
           /\ \A p \in Paths : Export(p) => Existing' = Existing \cup {p}
<1>1. TypeOK
    BY DEF LedgerInv
<1>2. files' = files \/ \E p \in Paths : Export(p)
    BY <1>1, FilesFrame, HealthyBefore
<1>3. ASSUME NEW p \in Paths, Export(p) PROVE Existing' = Existing \cup {p}
  <2>1. ledger[p] # Absent
    BY <1>3 DEF LedgerInv, ExportsCommitted, Committed, Export, IsNext
  <2>2. files' = [files EXCEPT ![p] = ledger[p]]
    BY <1>3 DEF Export
  <2>3. \A q \in Paths : files'[q] = IF p = q THEN ledger[p] ELSE files[q]
    BY <1>1, <2>2 DEF TypeOK, ChainTypeOK
  <2>4. QED
    BY <1>3, <2>1, <2>3 DEF Existing
<1>4. QED
    BY <1>2, <1>3 DEF Existing


\* Without faults only the three steps of record_audit_export move a call.
LEMMA CallsFrame ==
    ASSUME TypeOK, [Next]_vars, Healthy'
    PROVE  \/ UNCHANGED <<chain, torn, head, call>>
           \/ \E c \in Callers :
                \/ \E p \in Paths : RecordBegins(c, p)
                \/ RecordAppends(c)
                \/ RecordEnds(c)
<1> DEFINE Goal == \/ UNCHANGED <<chain, torn, head, call>>
                   \/ \E c \in Callers :
                        \/ \E p \in Paths : RecordBegins(c, p)
                        \/ RecordAppends(c)
                        \/ RecordEnds(c)
<1>1. ASSUME NEW c \in Callers, RecordNext(c) PROVE Goal
    BY <1>1 DEF RecordNext, RecordKnown, RecordRefused, chainVars
<1>2. QED
    BY <1>1, TheCallers, HealthyBefore
    DEF Next, vars, chainVars, JobNext, OperatorNext, StartTime, NobodyStarts, StartLost,
        LaunchdStarts, NextDay, StartDaily, StartManual, Begin, ChainAccepted,
        ChainRefused, AlreadyFrozen, ExportModified, RepairExports, NothingFrozen, Persist,
        PersistConflict, Export, ExportDiffers, Succeed, ReportFailure, OperatorStart,
        OperatorEnd

\* The job's own steps once it is past the analysis and nothing fails.
LEMMA JobWritesOn ==
    ASSUME LedgerInv, HealthParts, [Next]_vars, Healthy', pc["job"] \in {"export", "record"}
    PROVE  \/ UNCHANGED <<pc["job"], todo["job"]>>
           \/ \E p \in Paths : Export(p)
           \/ \E p \in Paths :
                /\ pc["job"] = "record" /\ IsNext("job", p)
                /\ p \in Existing /\ p \in Tracked'
                /\ todo'["job"] = todo["job"] \ {p}
                /\ pc'["job"] = "export"
           \/ Succeed
<1> DEFINE Recorded1 == \E p \in Paths :
                /\ pc["job"] = "record" /\ IsNext("job", p)
                /\ p \in Existing /\ p \in Tracked'
                /\ todo'["job"] = todo["job"] \ {p}
                /\ pc'["job"] = "export"
<1>1. TypeOK /\ ChainInv /\ CallsBelong
    BY DEF LedgerInv
<1>2. ~StepRaises("job") /\ ~Crash("job")
    BY <1>1, HealthyBefore, TheCallers
<1>3. ~LaunchdStarts /\ ~StartDaily /\ ~StartManual
    BY DEF LaunchdStarts, StartDaily, StartManual, Begin
<1>4. ASSUME NEW p \in Paths, RecordKnown("job", p) PROVE Recorded1
  <2>1. /\ IsNext("job", p) /\ pc["job"] = "record" /\ AfterRecord("job")
        /\ p \in Tracked /\ p \in Existing
    BY <1>4 DEF RecordKnown, InRecord, AlreadyRecorded, Existing
  <2>2. todo'["job"] = todo["job"] \ {p}
    BY <1>1, <2>1, TickOff, TheCallers DEF TypeOK
  <2>3. p \in Tracked' /\ pc'["job"] = "export"
    BY <1>1, <2>1, TrackedGrows, TheCallers DEF AfterRecord, Goto, TypeOK
  <2>4. QED
    BY <2>1, <2>2, <2>3
<1>5. CASE RecordEnds("job")
  <2>1. /\ call["job"].at = "appended" /\ call["job"].records = chain
        /\ Len(chain) = Len(head) + 1
    BY <1>1, <1>5, TheCallers DEF RecordEnds, WriteHead, ChainInv, AppendedCall
  <2>2. chain \in Seq(Record) /\ Len(head) \in Nat
    BY <1>1 DEF TypeOK, ChainTypeOK
  <2>3. Len(chain) \in DOMAIN chain /\ Pending("job") = chain[Len(chain)]
    BY <2>1, <2>2 DEF Pending
  <2>4. PICK p : p = Pending("job").path
    OBVIOUS
  <2>5. p \in Tracked'
    BY <1>1, <2>3, <2>4, TrackedGrows DEF Tracked
  <2>6. pc["job"] = "record" /\ p \in Paths /\ IsNext("job", p)
    BY <1>1, <2>1, <2>4, TheCallers DEF CallsBelong, Belongs
  <2>7. p \in Existing
    BY <2>1, <2>4, TheCallers DEF HealthParts, NothingGone
  <2>8. AfterRecord("job")
    BY <1>5 DEF RecordEnds
  <2>9. todo'["job"] = todo["job"] \ {p}
    BY <1>1, <2>6, <2>8, TickOff, TheCallers DEF TypeOK
  <2>10. pc'["job"] = "export"
    BY <1>1, <2>8, TheCallers DEF AfterRecord, Goto, TypeOK
  <2>11. QED
    BY <2>5, <2>6, <2>7, <2>9, <2>10
<1>6. ASSUME NEW p \in Paths, RecordBegins("job", p) \/ RecordAppends("job")
      PROVE  UNCHANGED <<pc["job"], todo["job"]>>
    BY <1>6 DEF RecordBegins, RecordAppends, ledgerVars
<1>7. CASE RecordNext("job")
  <2>1. \A p \in Paths : ~RecordRefused("job", p)
    BY NothingRefused, TheCallers
  <2>2. RecordAppends("job") => UNCHANGED <<pc["job"], todo["job"]>>
    BY DEF RecordAppends, ledgerVars
  <2>3. QED
    BY <1>4, <1>5, <1>6, <1>7, <2>1, <2>2 DEF RecordNext
<1>8. CASE JobNext
  <2>1. \A p \in Paths : ~ExportDiffers(p)
    BY NothingRefused
  <2>2. QED
    BY <1>7, <1>8, <2>1
    DEF JobNext, ChainAccepted, ChainRefused, AlreadyFrozen, ExportModified, RepairExports,
        NothingFrozen, Persist, PersistConflict, ReportFailure
<1>9. QED
    BY <1>1, <1>2, <1>3, <1>8, JobFrame

LEMMA RowsCopiedStep ==
    ASSUME LedgerInv, HealthParts, [Next]_vars, Healthy'
    PROVE  RowsCopied'
<1> SUFFICES ASSUME NEW p \in Paths, ledger'[p] # Absent, files'[p] = Absent
             PROVE  pc'["job"] \in {"export", "record"} /\ p \in todo'["job"]
    BY DEF RowsCopied
<1>1. TypeOK /\ files[p] = Absent /\ p \notin Existing /\ p \notin Existing'
    BY FilesAppear DEF LedgerInv, Existing
<1>2. CASE ledger[p] # Absent
  <2>1. pc["job"] \in {"export", "record"} /\ p \in todo["job"]
    BY <1>1, <1>2 DEF HealthParts, RowsCopied
  <2>2. ASSUME NEW q \in Paths, Export(q)
        PROVE  pc'["job"] \in {"export", "record"} /\ p \in todo'["job"]
    BY <1>1, <2>1, <2>2, TheCallers DEF Export, Goto, TypeOK
  <2>3. ~Succeed
    BY <2>1 DEF Succeed
  <2>4. QED
    BY <1>1, <2>1, <2>2, <2>3, JobWritesOn
<1>3. CASE ledger[p] = Absent
  <2>1. PICK r \in Results : Persist(r)
    BY <1>1, <1>3, LedgerFrame
  <2>2. p \in PairOf(attempt.day)
    BY <1>3, <2>1 DEF Persist
  <2>3. todo'["job"] = PairOf(attempt.day) /\ pc'["job"] = "export"
    BY <1>1, <2>1, TheCallers DEF Persist, Goto, TypeOK
  <2>4. QED
    BY <2>2, <2>3
<1>4. QED
    BY <1>2, <1>3

LEMMA NextCopyStep ==
    ASSUME LedgerInv, HealthParts, [Next]_vars, Healthy'
    PROVE  NextCopyWritten'
<1> SUFFICES ASSUME pc'["job"] = "record", NEW p \in Paths, IsNext("job", p)'
             PROVE  p \in Existing'
    BY DEF NextCopyWritten, Existing
<1>1. TypeOK
    BY DEF LedgerInv
<1>2. CASE UNCHANGED <<pc["job"], todo["job"]>>
  <2>1. IsNext("job", p) /\ pc["job"] = "record"
    BY <1>2 DEF IsNext
  <2>2. p \in Existing
    BY <2>1 DEF HealthParts, NextCopyWritten, Existing
  <2>3. QED
    BY <2>2, FilesAppear
<1>3. ASSUME NEW q \in Paths, Export(q) PROVE p \in Existing'
  <2>1. IsNext("job", q) /\ UNCHANGED todo
    BY <1>3 DEF Export
  <2>2. IsNext("job", p)
    BY <2>1 DEF IsNext
  <2>3. p = q
    BY <1>1, <2>1, <2>2, NextIsUnique, TheCallers
  <2>4. QED
    BY <1>3, <2>3, FilesAppear
<1>4. CASE pc["job"] \in {"export", "record"}
  <2>1. ~Succeed
    BY <1>1, TheCallers DEF Succeed, Leave, Goto, TypeOK
  <2>2. QED
    BY <1>2, <1>3, <1>4, <2>1, JobWritesOn
<1>5. CASE pc["job"] \notin {"export", "record"}
  <2>1. FALSE
    BY <1>1, <1>5, JobFrame, TheCallers, HealthyBefore
    DEF LaunchdStarts, StartDaily, StartManual, Begin, JobNext, ChainAccepted,
        ChainRefused, AlreadyFrozen, ExportModified, RepairExports, NothingFrozen, Persist,
        PersistConflict, Export, ExportDiffers, RecordNext, RecordKnown, RecordBegins,
        RecordRefused, InRecord, RecordAppends, AppendRecord, RecordEnds, WriteHead,
        AfterRecord, Abort, Succeed, ReportFailure, Leave, Goto, ledgerVars, TypeOK,
        LedgerInv, CallsBelong, Belongs
  <2>2. QED
    BY <2>1
<1>6. QED
    BY <1>4, <1>5

LEMMA CopiesTrackedStep ==
    ASSUME LedgerInv, HealthParts, [Next]_vars, Healthy'
    PROVE  CopiesTracked'
<1> SUFFICES ASSUME NEW p \in Paths, p \in Existing'
             PROVE  p \in Tracked' \/ (pc'["job"] = "record" /\ IsNext("job", p)')
    BY DEF CopiesTracked, Existing
<1>1. TypeOK /\ Tracked \subseteq Tracked'
    BY TrackedGrows DEF LedgerInv
<1>2. CASE p \in Existing
  <2>1. CASE p \in Tracked
    BY <1>1, <2>1
  <2>2. CASE p \notin Tracked
    <3>1. pc["job"] = "record" /\ IsNext("job", p)
      BY <1>2, <2>2 DEF HealthParts, CopiesTracked
    <3>2. CASE UNCHANGED <<pc["job"], todo["job"]>>
      BY <3>1, <3>2 DEF IsNext
    <3>3. ASSUME NEW q \in Paths, IsNext("job", q), q \in Tracked' PROVE p \in Tracked'
      BY <1>1, <3>1, <3>3, NextIsUnique, TheCallers
    <3>4. ~Succeed /\ \A q \in Paths : ~Export(q)
      BY <3>1 DEF Succeed, Export
    <3>5. QED
      BY <3>1, <3>2, <3>3, <3>4, JobWritesOn
  <2>3. QED
    BY <2>1, <2>2
<1>3. CASE p \notin Existing
  <2>1. PICK q \in Paths : Export(q)
    BY <1>3, FilesAppear DEF Existing
  <2>2. p = q
    BY <1>3, <2>1, FilesAppear
  <2>3. pc'["job"] = "record" /\ IsNext("job", p)'
    BY <1>1, <2>1, <2>2, TheCallers DEF Export, Goto, IsNext, TypeOK
  <2>4. QED
    BY <2>3
<1>4. QED
    BY <1>2, <1>3

LEMMA NothingGoneStep ==
    ASSUME LedgerInv, HealthParts, [Next]_vars, Healthy'
    PROVE  NothingGone'
<1>1. TypeOK /\ NothingGone /\ Existing \subseteq Existing'
    BY FilesAppear DEF LedgerInv, HealthParts
<1>2. Tracked' \subseteq Existing'
  <2>1. ASSUME NEW c \in Callers, RecordAppends(c) PROVE Tracked' \subseteq Existing'
    <3>1. chain' = Append(chain, Pending(c)) /\ call[c].at # "none"
      BY <2>1 DEF RecordAppends, AppendRecord, Pending
    <3>2. \A i \in DOMAIN chain' :
            chain'[i] = Pending(c) \/ (i \in DOMAIN chain /\ chain'[i] = chain[i])
      BY <1>1, <3>1 DEF TypeOK, ChainTypeOK
    <3>3. Pending(c).path \in Existing
      BY <1>1, <3>1 DEF NothingGone
    <3>4. QED
      BY <1>1, <3>2, <3>3 DEF NothingGone, Tracked
  <2>2. CASE chain' = chain
    BY <1>1, <2>2 DEF NothingGone, Tracked
  <2>3. QED
    BY <2>1, <2>2, ChainFrame
<1>3. todo'["operator"] \subseteq Existing'
  <2>1. CASE todo'["operator"] \subseteq todo["operator"]
    BY <1>1, <2>1 DEF NothingGone
  <2>2. CASE OperatorStart
    BY <1>1, <2>2, TheCallers DEF OperatorStart, TypeOK
  <2>3. ASSUME NEW c \in Callers, RecordNext(c)
        PROVE  todo'["operator"] \subseteq todo["operator"]
    BY <1>1, <2>3, TheCallers DEF RecordNext, RecordKnown, RecordBegins, RecordRefused,
                                  RecordAppends, RecordEnds, AfterRecord, Abort,
                                  ledgerVars, TypeOK
  <2>4. \/ OperatorStart \/ todo'["operator"] \subseteq todo["operator"]
    BY <1>1, <2>3, HealthyBefore, CallersAssumption
    DEF Next, vars, JobNext, OperatorNext, StartTime, NobodyStarts, StartLost,
        LaunchdStarts, NextDay, StartDaily, StartManual, Begin, ChainAccepted,
        ChainRefused, AlreadyFrozen, ExportModified, RepairExports, NothingFrozen, Persist,
        PersistConflict, Export, ExportDiffers, Succeed, ReportFailure, Leave, OperatorEnd,
        TypeOK
  <2>5. QED
    BY <2>1, <2>2, <2>4
<1>4. ASSUME NEW c \in Callers, call'[c].at # "none" PROVE Pending(c)'.path \in Existing'
  <2>1. ASSUME NEW p \in Paths, RecordBegins(c, p) PROVE Pending(c)'.path \in Existing'
    <3> DEFINE r == [sequence |-> Len(chain) + 1, path |-> p, content |-> files[p]]
    <3>1. call'[c].records = Append(chain, r) /\ files[p] # Absent
      BY <1>1, <2>1 DEF RecordBegins, BeginRecord, TypeOK, ChainTypeOK
    <3>2. Append(chain, r)[Len(Append(chain, r))] = r
      BY <1>1 DEF TypeOK, ChainTypeOK
    <3>3. Pending(c)' = r
      BY <3>1, <3>2 DEF Pending
    <3>4. p \in Existing
      BY <3>1 DEF Existing
    <3>5. QED
      BY <1>1, <3>3, <3>4
  <2>2. CASE call[c].at # "none" /\ call'[c].records = call[c].records
    BY <1>1, <2>2 DEF Pending, NothingGone
  <2>3. QED
    BY <1>4, <2>1, <2>2, CallerFrame
<1>5. QED
    BY <1>2, <1>3, <1>4 DEF NothingGone

LEMMA HeadFollowsStep ==
    ASSUME LedgerInv, HealthParts, [Next]_vars, Healthy'
    PROVE  HeadFollows'
<1>1. TypeOK /\ ChainInv /\ HeadFollows
    BY DEF LedgerInv, HealthParts
<1>2. CASE UNCHANGED <<chain, torn, head, call>>
    BY <1>1, <1>2 DEF HeadFollows
<1>3. ASSUME NEW c \in Callers, NEW p \in Paths, RecordBegins(c, p) PROVE HeadFollows'
  <2>1. head = chain /\ UNCHANGED <<chain, torn, head>>
    BY <1>3 DEF RecordBegins, BeginRecord, Verified
  <2>2. QED
    BY <1>1, <2>1 DEF HeadFollows
<1>4. ASSUME NEW c \in Callers, RecordAppends(c) PROVE HeadFollows'
    BY <1>1, <1>4 DEF RecordAppends, AppendRecord, HeadFollows, TypeOK, ChainTypeOK
<1>5. ASSUME NEW c \in Callers, RecordEnds(c) PROVE HeadFollows'
    BY <1>1, <1>5 DEF RecordEnds, WriteHead, HeadFollows, ChainInv, AppendedCall
<1>6. QED
    BY <1>1, <1>2, <1>3, <1>4, <1>5, CallsFrame

LEMMA HealthStep == LedgerInv /\ HealthInv /\ [Next]_vars => HealthInv'
<1> SUFFICES ASSUME LedgerInv, HealthInv, [Next]_vars, Healthy' PROVE HealthParts'
    BY DEF HealthInv
<1>1. HealthParts /\ \A p \in Paths : ~Damage(p)
    BY HealthyBefore DEF LedgerInv, HealthInv
<1>2. Untouched'
    BY <1>1, UntouchedStep DEF HealthParts
<1>3. QED
    BY <1>1, <1>2, RowsCopiedStep, NextCopyStep, CopiesTrackedStep, NothingGoneStep,
       HeadFollowsStep
    DEF HealthParts

\* At rest and in health there is a copy for every row, a record for every copy
\* and a head for the chain.
LEMMA HealthIsQuiet == LedgerInv /\ HealthInv => QuietWhileHealthy
<1> SUFFICES ASSUME LedgerInv, HealthParts, \A c \in Callers : pc[c] = "idle"
             PROVE  ExportProblems = {} /\ Verified(TRUE)
    BY DEF HealthInv, Healthy, QuietWhileHealthy, Shown, Warnings, ChainStatus
<1>1. LockFree
    BY DEF LedgerInv, CallsBelong, Belongs, LockFree
<1>2. pc["job"] = "idle"
    BY TheCallers
<1>3. ExportProblems = {}
  <2>1. ASSUME NEW p \in Paths, ledger[p] # Absent PROVE ExportStatus(p) = "ok"
    <3>1. p \in Existing
      BY <1>2, <2>1 DEF HealthParts, RowsCopied, Existing
    <3>2. files[p] = ledger[p] /\ files[p] # Absent
      BY <3>1, HealthyCopies DEF Existing
    <3>3. QED
      BY <3>2 DEF ExportStatus
  <2>2. QED
    BY <2>1 DEF ExportProblems
<1>4. Existing \subseteq Tracked
    BY <1>2 DEF HealthParts, CopiesTracked
<1>5. Verified(FALSE)
    BY <1>1, HealthyCopies
<1>6. QED
    BY <1>3, <1>4, <1>5 DEF Verified

\* In health the monitor is silent about copies and chain, whatever attempts
\* and operator's commands were made in what order.
THEOREM HealthyIsQuiet == Spec => []QuietWhileHealthy
<1>1. Init => LedgerInv /\ HealthInv
    BY LedgerInitInv, InitHealthy
<1>2. LedgerInv /\ HealthInv /\ [Next]_vars => LedgerInv' /\ HealthInv'
    BY LedgerStep, HealthStep
<1>3. LedgerInv /\ HealthInv => QuietWhileHealthy
    BY HealthIsQuiet
<1>4. QED
    BY <1>1, <1>2, <1>3, PTL DEF Spec

=============================================================================
