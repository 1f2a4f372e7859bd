---------------------- MODULE SelectedForward_proofs -----------------------
(***************************************************************************)
(* The safety properties of SelectedForward for every number of users,     *)
(* requests, versions, days and calls, and whenever positions close.       *)
(***************************************************************************)
EXTENDS SelectedForward, TLAPS

\* A call that is to become an event names a version, and has its place in the
\* order of the requests; every number before one that was read is taken.
CallIsSound(u) ==
    /\ call[u].since <= phase
    /\ call[u].place \in {"requested", "logged", "checked"} =>
          /\ call[u].request \in Requests
          /\ call[u].version \in Versions
          /\ call[u].at \in 1..MaxCalls
    /\ call[u].place = "numbered" =>
          \A v \in Versions : v < call[u].version => v \in Saved

CallsAreSound == \A u \in Users : CallIsSound(u)

\* Nothing was requested, saved or run later than now.
NothingFromTheFuture ==
    /\ \A v \in Saved : selections[v].saved <= phase
    /\ \A i \in DOMAIN events :
          events[i].requested <= events[i].saved /\ events[i].saved <= phase
    /\ \A v \in Versions, d \in Days : rows[v][d] # NoRow => ~KnownOn(d, phase)
    /\ job.running => ~KnownOn(job.day, phase)

\* What RowsFollowActivation says of a row.
Activated(v, d) ==
    \E i \in EventsOf(v) :
        /\ events[i].enabled
        /\ KnownOn(d, events[i].requested)
        /\ \A k \in EventsOf(v) :
              ~events[k].enabled /\ events[i].at < events[k].at =>
                  ~KnownOn(d, events[k].saved)

JobFollowsActivation ==
    job.running => \A v \in Versions :
        v \in job.todo \/ job.results[v] # NoRow => Activated(v, job.day)

\* An account with rows has a latest one.
RowsHaveALast ==
    \A v \in Versions, d \in Days : rows[v][d] # NoRow => LastRow(v) # {}

\* A result of the run is behind no row, repeats the row of its day if there is
\* one, and carries the others on.
Continues(v) ==
    /\ job.results[v] \subseteq 1..job.day
    /\ rows[v][job.day] \in {NoRow, job.results[v]}
    /\ \A d \in Days : rows[v][d] # NoRow =>
          d <= job.day /\ rows[v][d] \subseteq job.results[v]

\* No signal of h was taken in spite of a later version.
NoneTooLate(v, h) ==
    \A e \in Days, w \in Saved : e \in h /\ v < w => ~KnownOn(e, selections[w].saved)

ResultsContinue ==
    job.running => \A v \in Versions : job.results[v] # NoRow =>
        Continues(v) /\ NoneTooLate(v, job.results[v])

IInv ==
    /\ TypeOK
    /\ CallsAreSound
    /\ NothingFromTheFuture
    /\ JobFollowsActivation
    /\ RowsHaveALast
    /\ ResultsContinue
    /\ VersionsAreInOrder
    /\ OneEventPerRequest
    /\ RowsFollowActivation
    /\ SupersededTakesNoSignals
    /\ HistoryIsCarried

USE VersionsAssumption, CalendarAssumption, ClosesAssumption, NoRequestAssumption

-----------------------------------------------------------------------------

LEMMA InitInv == Init => IInv
<1> SUFFICES ASSUME Init PROVE IInv
    OBVIOUS
<1>1. TypeOK
  <2>1. 1 \in Phases /\ 1 \in Days
    BY DEF Phases, Days
  <2>2. call \in [Users -> [place: Places, request: Requests \cup {NoRequest},
                            version: 0..(MaxVersion + 1), enabled: BOOLEAN,
                            at: 0..MaxCalls, since: Phases]]
    BY <2>1 DEF Init, NoCall, Places
  <2>3. job \in [running: BOOLEAN, day: Days, signals: BOOLEAN, todo: SUBSET Versions,
                 results: [Versions -> Histories \cup {NoRow}]]
    BY <2>1 DEF Init, NoJob
  <2>4. QED
    BY <2>1, <2>2, <2>3 DEF Init, TypeOK
<1>2. Saved = {} /\ DOMAIN events = {} /\ ~job.running
    BY DEF Init, Saved, NoJob
<1>3. \A v \in Versions, d \in Days : rows[v][d] = NoRow
    BY DEF Init
<1>4. \A u \in Users : call[u].since = 1 /\ call[u].place = "none"
    BY DEF Init, NoCall
<1>5. NothingFromTheFuture
    BY <1>2, <1>3, <1>4 DEF Init, NothingFromTheFuture
<1>6. \A v \in Versions, d, e \in Days : e \notin rows[v][d]
    BY <1>3 DEF NoRow, Days
<1>7. CallsAreSound
  <2>1. phase = 1
    BY DEF Init
  <2>2. \A u \in Users : call[u].since <= phase
    <3>1. 1 <= 1
      OBVIOUS
    <3>2. QED
      BY <1>4, <2>1, <3>1, Zenon
  <2>3. \A u \in Users : call[u].place = "none"
    BY <1>4
  <2>4. QED
    BY <2>2, <2>3 DEF CallsAreSound, CallIsSound
<1>8. QED
    BY <1>1, <1>2, <1>3, <1>5, <1>6, <1>7
    DEF IInv, JobFollowsActivation, RowsHaveALast, ResultsContinue,
        VersionsAreInOrder, OneEventPerRequest, RowsFollowActivation,
        SupersededTakesNoSignals, HistoryIsCarried

LEMMA BeginType ==
    ASSUME TypeOK, NEW u \in Users, NEW r, Begin(u, r),
           r \in [place: Places, request: Requests \cup {NoRequest},
                  version: 0..(MaxVersion + 1), enabled: BOOLEAN,
                  at: 0..MaxCalls, since: Phases]
    PROVE  TypeOK'
BY DEF TypeOK, Begin

\* The checks of a request read, one after the other, and change nothing.
LEMMA CheckReads ==
    ASSUME NEW u, CheckRequest(u)
    PROVE  \E place \in {"logged", "checked"} :
              /\ Read(u, place, call[u].version)
              /\ call[u].place \in {"requested", "logged"}
BY DEF CheckRequest, CheckLog, CheckExposure


LEMMA ReadType ==
    ASSUME TypeOK, NEW u \in Users, NEW place \in Places,
           NEW n \in 0..(MaxVersion + 1), Read(u, place, n)
    PROVE  TypeOK'
<1> DEFINE Call == [place: Places, request: Requests \cup {NoRequest},
                    version: 0..(MaxVersion + 1), enabled: BOOLEAN,
                    at: 0..MaxCalls, since: Phases]
<1>1. call \in [Users -> Call]
    BY DEF TypeOK
<1>2. [call[u] EXCEPT !.place = place, !.version = n] \in Call
  <2>1. call[u] \in Call
    BY <1>1
  <2>2. QED
    BY <2>1
<1>3. call' \in [Users -> Call]
  BY <1>1, <1>2 DEF Read
<1>4. QED
  BY <1>3 DEF Read, TypeOK

LEMMA EventType ==
    ASSUME TypeOK, NEW i \in DOMAIN events
    PROVE  /\ events[i] \in Event
           /\ events[i].at \in Nat
           /\ events[i].requested \in Nat
           /\ events[i].saved \in Nat
<1>1. events[i] \in Event
  <2>1. events \in Seq(Event)
    BY DEF TypeOK
  <2>2. QED
    BY <2>1
<1>2. events[i].at \in 1..MaxCalls
  BY <1>1 DEF Event
<1>3. events[i].requested \in Phases /\ events[i].saved \in Phases
  BY <1>1 DEF Event
<1>4. QED
  BY <1>1, <1>2, <1>3 DEF Phases

LEMMA SavedType ==
    ASSUME TypeOK, NEW v \in Saved
    PROVE  selections[v] \in Selection /\ selections[v].saved \in Nat
<1>1. selections[v] \in Selection
  BY DEF TypeOK, Saved
<1>2. selections[v].saved \in Phases
  BY <1>1 DEF Selection
<1>3. QED
  BY <1>1, <1>2 DEF Phases

LEMMA CarriedType ==
    ASSUME TypeOK, NEW v \in Versions
    PROVE  Carried(v) \in SUBSET Days
<1>1. \A d \in LastRow(v) : rows[v][d] \in Histories
    BY DEF LastRow, TypeOK
<1>2. QED
    BY <1>1 DEF Carried, Histories

LEMMA TypeStep == TypeOK /\ CallsAreSound /\ [Next]_vars => TypeOK'
<1> SUFFICES ASSUME TypeOK, CallsAreSound, [Next]_vars PROVE TypeOK'
    OBVIOUS
<1> DEFINE Call == [place: Places, request: Requests \cup {NoRequest},
                    version: 0..(MaxVersion + 1), enabled: BOOLEAN,
                    at: 0..MaxCalls, since: Phases]
           Job == [running: BOOLEAN, day: Days, signals: BOOLEAN, todo: SUBSET Versions,
                   results: [Versions -> Histories \cup {NoRow}]]
<1>1. NoCall \in Call /\ NoJob \in Job
  <2>1. 1 \in Phases /\ 1 \in Days
    BY DEF Phases, Days
  <2>2. QED
    BY <2>1 DEF NoCall, NoJob, Places
<1>2. call \in [Users -> Call] /\ job \in Job
    BY DEF TypeOK
<1>0. Versions \subseteq 0..(MaxVersion + 1)
    OBVIOUS
<1>3. CASE Tick
    BY <1>3 DEF Tick, TypeOK, Phases
<1>4. ASSUME NEW u \in Users, BeginCreate(u) PROVE TypeOK'
  <2>1. [NoCall EXCEPT !.place = "create", !.enabled = TRUE, !.since = phase] \in Call
    BY <1>1 DEF TypeOK, Places
  <2>2. QED
    BY <1>4, <2>1, BeginType DEF BeginCreate
<1>5. ASSUME NEW u \in Users, NEW v \in Versions, BeginDeactivate(u, v) PROVE TypeOK'
  <2>1. [NoCall EXCEPT !.place = "create", !.version = v, !.since = phase] \in Call
    BY <1>1, <1>0 DEF TypeOK, Places
  <2>2. QED
    BY <1>5, <2>1, BeginType DEF BeginDeactivate
<1>6. ASSUME NEW u \in Users, ReadNumber(u) PROVE TypeOK'
  <2>1. PICK n \in 0..MaxVersion : Read(u, "numbered", n + 1)
    BY <1>6 DEF ReadNumber
  <2>2. n + 1 \in 0..(MaxVersion + 1)
    OBVIOUS
  <2>3. QED
    BY <2>1, <2>2, ReadType DEF Places
<1>7. ASSUME NEW u \in Users, InsertVersion(u) PROVE TypeOK'
  <2>1. [status |-> IF call[u].enabled THEN "active" ELSE "inactive",
         effective |-> call[u].since, saved |-> phase] \in Selection
    BY <1>2 DEF Selection, TypeOK
  <2>2. selections' \in [Versions -> Selection \cup {Absent}]
    BY <1>7, <2>1 DEF InsertVersion, TypeOK
  <2>3. call' \in [Users -> Call]
    BY <1>1, <1>2, <1>7 DEF InsertVersion
  <2>4. QED
    BY <1>7, <2>2, <2>3 DEF InsertVersion, TypeOK
<1>8. ASSUME NEW u \in Users, NEW r \in Requests, NEW v \in Versions,
             NEW enabled \in BOOLEAN, Request(u, r, v, enabled)
      PROVE TypeOK'
  <2>1. calls + 1 \in 0..MaxCalls
    BY <1>8 DEF Request, Begin, TypeOK
  <2>2. [NoCall EXCEPT !.place = "requested", !.request = r, !.version = v,
                       !.enabled = enabled, !.at = calls + 1, !.since = phase] \in Call
    BY <1>1, <1>0, <2>1 DEF TypeOK, Places
  <2>3. QED
    BY <1>8, <2>2, BeginType DEF Request
<1>9. ASSUME NEW u \in Users, CheckRequest(u) PROVE TypeOK'
  <2>1. PICK place \in {"logged", "checked"} : Read(u, place, call[u].version)
    BY <1>9, CheckReads
  <2>2. QED
    BY <1>2, <2>1, ReadType DEF Places
<1>10. ASSUME NEW u \in Users, InsertEvent(u) PROVE TypeOK'
  <2>1. [request |-> call[u].request, version |-> call[u].version,
         enabled |-> call[u].enabled, at |-> call[u].at,
         requested |-> call[u].since, saved |-> phase] \in Event
    BY <1>2, <1>10 DEF Event, TypeOK, CallsAreSound, CallIsSound, InsertEvent
  <2>2. events' \in Seq(Event)
    BY <1>10, <2>1 DEF InsertEvent, TypeOK
  <2>3. call' \in [Users -> Call]
    BY <1>1, <1>2, <1>10 DEF InsertEvent
  <2>4. QED
    BY <1>10, <2>2, <2>3 DEF InsertEvent, TypeOK
<1>11. ASSUME NEW u \in Users, Return(u) PROVE TypeOK'
  <2>1. call' \in [Users -> Call]
    BY <1>1, <1>2, <1>11 DEF Return
  <2>2. QED
    BY <1>11, <2>1 DEF Return, TypeOK
<1>12. ASSUME NEW d \in Days, SkipRun(d) PROVE TypeOK'
  BY <1>12 DEF SkipRun, vars, TypeOK
<1>13. ASSUME NEW d \in Days, NEW signals \in BOOLEAN, StartRun(d, signals) PROVE TypeOK'
  <2>1. EnabledOn(d) \subseteq Versions
    BY DEF EnabledOn, Saved
  <2>2. job' \in Job
    BY <1>1, <1>13, <2>1 DEF StartRun
  <2>3. QED
    BY <1>13, <2>2 DEF StartRun, TypeOK
<1>14. ASSUME NEW v \in Versions, Advance(v) PROVE TypeOK'
  <2>1. Advanced(v) \in Histories
    BY <1>2, CarriedType DEF Advanced, Merged, Histories
  <2>2. [job.results EXCEPT ![v] = Advanced(v)] \in [Versions -> Histories \cup {NoRow}]
    BY <1>2, <2>1
  <2>3. job' \in Job
    BY <1>2, <1>14, <2>2 DEF Advance
  <2>4. QED
    BY <1>14, <2>3 DEF Advance, TypeOK
<1>15. CASE CommitRun
  <2>1. rows' \in [Versions -> [Days -> Histories \cup {NoRow}]]
    BY <1>2, <1>15 DEF CommitRun, TypeOK
  <2>2. QED
    BY <1>1, <1>15, <2>1 DEF CommitRun, TypeOK
<1>16. CASE GiveUpRun
  BY <1>1, <1>16 DEF GiveUpRun, TypeOK
<1>17. CASE UNCHANGED vars
  BY <1>17 DEF vars, TypeOK
<1>18. QED
  BY <1>3, <1>4, <1>5, <1>6, <1>7, <1>8, <1>9, <1>10, <1>11, <1>12, <1>13, <1>14, <1>15,
     <1>16, <1>17 DEF Next

LEMMA TimeAndNumbersGrow ==
    ASSUME TypeOK, [Next]_vars
    PROVE  phase <= phase' /\ Saved \subseteq Saved'
<1>1. ASSUME NEW u \in Users, InsertVersion(u) PROVE Saved \subseteq Saved'
  <2>1. \A v \in Saved : selections'[v] = selections[v]
    BY <1>1 DEF InsertVersion, TypeOK, Saved
  <2>2. QED
    BY <2>1 DEF Saved
<1>2. phase \in Nat
  BY DEF TypeOK, Phases
<1>3. \/ \E u \in Users : InsertVersion(u)
      \/ selections' = selections
  BY DEF Next, vars, Tick, BeginCreate, BeginDeactivate, Begin, ReadNumber, Read, Request,
         CheckRequest, CheckLog, CheckExposure, InsertEvent, Return, SkipRun, StartRun, Advance, CommitRun, GiveUpRun
<1>4. phase' = phase \/ phase' = phase + 1
  BY DEF Next, vars, Tick, BeginCreate, BeginDeactivate, Begin, ReadNumber, Read, Request,
         InsertVersion, CheckRequest, CheckLog, CheckExposure, InsertEvent, Return, SkipRun, StartRun, Advance,
         CommitRun, GiveUpRun
<1>5. QED
  BY <1>1, <1>2, <1>3, <1>4 DEF Saved

LEMMA CallsStep ==
    TypeOK /\ VersionsAreInOrder /\ CallsAreSound /\ [Next]_vars => CallsAreSound'
<1> SUFFICES ASSUME TypeOK, VersionsAreInOrder, CallsAreSound, [Next]_vars, NEW w \in Users
             PROVE  CallIsSound(w)'
    BY DEF CallsAreSound
<1>1. phase <= phase' /\ Saved \subseteq Saved' /\ phase \in Nat /\ phase' \in Nat
  <2>1. phase \in Phases
    BY DEF TypeOK
  <2>2. phase' \in Phases
    BY TypeStep DEF TypeOK
  <2>3. QED
    BY <2>1, <2>2, TimeAndNumbersGrow DEF Phases
<1>2. /\ CallIsSound(w)
      /\ call[w].since \in Nat
      /\ DOMAIN call = Users
  BY DEF CallsAreSound, TypeOK, Phases
<1>3. ASSUME call'[w] = call[w] PROVE CallIsSound(w)'
  BY <1>1, <1>2, <1>3 DEF CallIsSound
<1>4. ASSUME call'[w] = NoCall PROVE CallIsSound(w)'
  BY <1>1, <1>4, TypeStep DEF CallIsSound, NoCall, TypeOK, Phases
<1>5. ASSUME call'[w].since = phase, phase' = phase, call'[w].place = "create"
      PROVE  CallIsSound(w)'
  BY <1>1, <1>5 DEF CallIsSound
<1>6. ASSUME NEW u \in Users, BeginCreate(u) PROVE CallIsSound(w)'
  BY <1>2, <1>3, <1>5, <1>6 DEF BeginCreate, Begin, NoCall
<1>7. ASSUME NEW u \in Users, NEW v \in Versions, BeginDeactivate(u, v) PROVE CallIsSound(w)'
  BY <1>2, <1>3, <1>5, <1>7 DEF BeginDeactivate, Begin, NoCall
<1>8. ASSUME NEW u \in Users, ReadNumber(u), w = u PROVE CallIsSound(w)'
  <2>1. PICK n \in 0..MaxVersion : IsLatestVersion(n) /\ Read(u, "numbered", n + 1)
    BY <1>8 DEF ReadNumber
  <2>2. \A v \in Versions : v < n + 1 => v \in Saved
    BY <2>1 DEF IsLatestVersion, VersionsAreInOrder, Saved
  <2>3. call'[u] = [call[u] EXCEPT !.place = "numbered", !.version = n + 1]
    BY <1>2, <2>1 DEF Read
  <2>4. /\ call'[u].place = "numbered" /\ call'[u].version = n + 1
        /\ call'[u].since = call[u].since
    BY <2>3 DEF TypeOK
  <2>5. QED
    BY <1>1, <1>2, <1>8, <2>2, <2>4 DEF CallIsSound
<1>9. ASSUME NEW u \in Users, InsertVersion(u) PROVE CallIsSound(w)'
  BY <1>2, <1>3, <1>4, <1>9 DEF InsertVersion
<1>10. ASSUME NEW u \in Users, NEW r \in Requests, NEW v \in Versions,
              NEW enabled \in BOOLEAN, Request(u, r, v, enabled)
       PROVE CallIsSound(w)'
  <2>1. calls + 1 \in 1..MaxCalls
    BY <1>10 DEF Request, Begin, TypeOK
  <2>2. CASE w = u
    <3>1. /\ call'[u].place = "requested" /\ call'[u].since = phase
          /\ call'[u].request = r /\ call'[u].version = v /\ call'[u].at = calls + 1
      BY <1>2, <1>10 DEF Request, Begin, NoCall
    <3>2. QED
      BY <1>1, <1>10, <2>1, <2>2, <3>1 DEF CallIsSound, Request, Begin
  <2>3. QED
    BY <1>2, <1>3, <1>10, <2>2 DEF Request, Begin
<1>11. ASSUME NEW u \in Users, CheckRequest(u) PROVE CallIsSound(w)'
  <2>1. PICK place \in {"logged", "checked"} :
          /\ Read(u, place, call[u].version)
          /\ call[u].place \in {"requested", "logged"}
    BY <1>11, CheckReads
  <2>2. CASE w = u
    <3>1. call'[u] = [call[u] EXCEPT !.place = place, !.version = call[u].version]
      BY <1>2, <2>1 DEF Read
    <3>2. /\ call'[u].place = place /\ call'[u].since = call[u].since
          /\ call'[u].request = call[u].request /\ call'[u].version = call[u].version
          /\ call'[u].at = call[u].at
      BY <3>1 DEF TypeOK
    <3>3. QED
      BY <1>1, <1>2, <2>1, <2>2, <3>2 DEF CallIsSound
  <2>3. QED
    BY <1>2, <1>3, <2>1, <2>2 DEF Read
<1>12. ASSUME NEW u \in Users, InsertEvent(u) PROVE CallIsSound(w)'
  BY <1>2, <1>3, <1>4, <1>12 DEF InsertEvent
<1>13. ASSUME NEW u \in Users, Return(u) PROVE CallIsSound(w)'
  BY <1>2, <1>3, <1>4, <1>13 DEF Return
<1>14. CASE UNCHANGED call
  BY <1>3, <1>14
<1>15. QED
  <2>1. ASSUME NEW u \in Users, ReadNumber(u), w # u PROVE CallIsSound(w)'
    BY <1>2, <1>3, <2>1 DEF ReadNumber, Read
  <2>2. QED
    BY <1>6, <1>7, <1>8, <1>9, <1>10, <1>11, <1>12, <1>13, <1>14, <2>1
    DEF Next, vars, Tick, SkipRun, StartRun, Advance, CommitRun, GiveUpRun

\* What a call reads, and the end of a run, disturb nothing but the calls.
LEMMA ReadStep ==
    ASSUME IInv, TypeOK', CallsAreSound', phase <= phase',
           UNCHANGED <<selections, events, rows>>, job' = job \/ ~job'.running
    PROVE  IInv'
<1> USE DEF IInv
<1>1. phase \in Nat /\ phase' \in Nat
  <2>1. phase \in Phases
    BY DEF TypeOK
  <2>2. phase' \in Phases
    BY DEF TypeOK
  <2>3. QED
    BY <2>1, <2>2 DEF Phases
<1>2. NothingFromTheFuture'
  <2>1. \A v \in Saved' : selections'[v].saved <= phase'
    BY <1>1, SavedType DEF NothingFromTheFuture, Saved
  <2>2. \A i \in DOMAIN events' :
          events'[i].requested <= events'[i].saved /\ events'[i].saved <= phase'
    BY <1>1, EventType DEF NothingFromTheFuture
  <2>3. \A d \in Days : ~KnownOn(d, phase) => ~KnownOn(d, phase')
    BY <1>1 DEF KnownOn, Days
  <2>4. job' = job => job.day \in Days
    BY DEF TypeOK
  <2>5. QED
    BY <2>1, <2>2, <2>3, <2>4 DEF NothingFromTheFuture, KnownOn
<1>3. /\ Saved' = Saved
      /\ \A v \in Versions : LastRow(v)' = LastRow(v) /\ EventsOf(v)' = EventsOf(v)
  BY DEF Saved, LastRow, EventsOf
<1>4. \A v \in Versions, d \in Days : Activated(v, d)' = Activated(v, d)
  BY <1>3 DEF Activated, KnownOn
<1>5. JobFollowsActivation'
  BY <1>4 DEF JobFollowsActivation, TypeOK
<1>6. ResultsContinue'
  BY <1>3 DEF ResultsContinue, Continues, NoneTooLate, KnownOn
<1>7. VersionsAreInOrder' /\ OneEventPerRequest' /\ SupersededTakesNoSignals'
  BY <1>3 DEF VersionsAreInOrder, OneEventPerRequest, SupersededTakesNoSignals, KnownOn
<1>8. RowsFollowActivation' /\ RowsHaveALast' /\ HistoryIsCarried'
  BY <1>3 DEF RowsFollowActivation, RowsHaveALast, HistoryIsCarried, KnownOn
<1>9. QED
  BY <1>2, <1>5, <1>6, <1>7, <1>8

LEMMA InsertVersionStep ==
    ASSUME IInv, TypeOK', CallsAreSound', NEW u \in Users, InsertVersion(u)
    PROVE  IInv'
<1> USE DEF IInv
<1> DEFINE n == call[u].version
<1>1. /\ n \in Versions /\ n \notin Saved /\ selections'[n].saved = phase
      /\ Saved' = Saved \cup {n}
      /\ \A v \in Saved : selections'[v] = selections[v]
      /\ UNCHANGED <<phase, events, rows, job>>
  <2>1. \A v \in Versions : v # n => selections'[v] = selections[v]
    BY DEF InsertVersion, TypeOK
  <2>2. n \in Versions /\ n \notin Saved /\ UNCHANGED <<phase, events, rows, job>>
    BY DEF InsertVersion
  <2>3. selections'[n].saved = phase /\ selections'[n].status # "absent"
    BY <2>2 DEF InsertVersion, TypeOK
  <2>4. QED
    BY <2>1, <2>2, <2>3 DEF Saved, Absent
<1>2. phase \in Nat
  BY DEF TypeOK, Phases
<1>3. \A v \in Versions : v < n => v \in Saved
  BY <1>1 DEF CallsAreSound, CallIsSound, InsertVersion
<1>4. \A v \in Saved : selections[v].saved <= phase /\ selections[v].saved \in Nat
  BY SavedType DEF NothingFromTheFuture
<1>5. NothingFromTheFuture'
  BY <1>1, <1>2, <1>4 DEF NothingFromTheFuture, KnownOn
<1>6. VersionsAreInOrder'
  <2> SUFFICES ASSUME NEW v \in Versions, NEW w \in Saved', v < w
               PROVE  v \in Saved' /\ selections'[v].saved <= selections'[w].saved
    BY DEF VersionsAreInOrder
  <2>1. CASE w = n
    BY <1>1, <1>3, <1>4, <2>1
  <2>2. CASE w \in Saved
    BY <1>1, <2>2 DEF VersionsAreInOrder, Saved
  <2>3. QED
    BY <1>1, <2>1, <2>2
<1>7. \A v \in Versions, d \in Days : Activated(v, d)' = Activated(v, d)
  BY <1>1 DEF Activated, EventsOf, KnownOn
<1>8. JobFollowsActivation' /\ RowsFollowActivation'
  <2>1. JobFollowsActivation'
    BY <1>1, <1>7 DEF JobFollowsActivation, TypeOK
  <2>2. RowsFollowActivation'
    BY <1>1 DEF RowsFollowActivation, EventsOf, KnownOn
  <2>3. QED
    BY <2>1, <2>2
<1>9. RowsHaveALast' /\ HistoryIsCarried' /\ OneEventPerRequest'
  BY <1>1 DEF RowsHaveALast, LastRow, HistoryIsCarried, OneEventPerRequest
<1>10. ASSUME NEW v \in Versions, NEW h, NoneTooLate(v, h),
              \A e \in Days : e \in h => ~KnownOn(e, phase)
       PROVE  NoneTooLate(v, h)'
  BY <1>1, <1>10 DEF NoneTooLate, KnownOn
<1>11. ResultsContinue'
  <2> SUFFICES ASSUME job.running, NEW v \in Versions, job.results[v] # NoRow
               PROVE  Continues(v)' /\ NoneTooLate(v, job.results[v])'
    BY <1>1 DEF ResultsContinue
  <2>1. Continues(v) /\ NoneTooLate(v, job.results[v])
    BY DEF ResultsContinue
  <2>2. ~KnownOn(job.day, phase) /\ job.day \in Days
    BY DEF NothingFromTheFuture, TypeOK
  <2>3. \A e \in Days : e \in job.results[v] => ~KnownOn(e, phase)
    BY <1>2, <2>1, <2>2 DEF Continues, KnownOn, Days
  <2>4. NoneTooLate(v, job.results[v])'
    BY <1>1, <1>10, <2>1, <2>3
  <2>5. QED
    BY <1>1, <2>1, <2>4 DEF Continues
<1>12. SupersededTakesNoSignals'
  <2> SUFFICES ASSUME NEW v \in Versions, NEW d \in Days, NEW e \in Days,
                      e \in rows[v][d], NEW w \in Saved', v < w
               PROVE  ~KnownOn(e, selections'[w].saved)
    BY <1>1 DEF SupersededTakesNoSignals, KnownOn
  <2>1. rows[v][d] # NoRow
    BY DEF NoRow, Days
  <2>2. ~KnownOn(d, phase) /\ e \in 1..d
    BY <2>1 DEF NothingFromTheFuture, HistoryIsCarried
  <2>3. ~KnownOn(e, phase)
    BY <1>2, <2>2 DEF KnownOn, Days
  <2>4. QED
    BY <1>1, <2>3 DEF SupersededTakesNoSignals
<1>13. QED
  BY <1>5, <1>6, <1>8, <1>9, <1>11, <1>12

LEMMA InsertEventStep ==
    ASSUME IInv, TypeOK', CallsAreSound', NEW u \in Users, InsertEvent(u)
    PROVE  IInv'
<1> USE DEF IInv
<1> DEFINE n == Len(events) + 1
           new == [request |-> call[u].request, version |-> call[u].version,
                   enabled |-> call[u].enabled, at |-> call[u].at,
                   requested |-> call[u].since, saved |-> phase]
<1>1. /\ DOMAIN events' = DOMAIN events \cup {n}
      /\ n \notin DOMAIN events
      /\ \A i \in DOMAIN events : events'[i] = events[i]
      /\ events'[n] = new
  <2>1. events' = Append(events, new) /\ events \in Seq(Event)
    BY DEF InsertEvent, TypeOK
  <2>2. QED
    BY <2>1
<1>2. /\ UNCHANGED <<phase, selections, rows, job>>
      /\ \A i \in DOMAIN events : events[i].request # new.request
  BY DEF InsertEvent
<1>3. phase \in Nat /\ call[u].since <= phase
  BY DEF TypeOK, Phases, CallsAreSound, CallIsSound
<1>4. NothingFromTheFuture'
  <2>1. \A i \in DOMAIN events' :
            events'[i].requested <= events'[i].saved /\ events'[i].saved <= phase
    BY <1>1, <1>3 DEF NothingFromTheFuture
  <2>2. QED
    BY <1>2, <2>1 DEF NothingFromTheFuture, Saved, KnownOn
<1>5. OneEventPerRequest'
  <2>1. \A i \in DOMAIN events : events'[i].request # events'[n].request
    BY <1>1, <1>2
  <2>2. QED
    BY <1>1, <2>1 DEF OneEventPerRequest
<1>6. ASSUME NEW v \in Versions, NEW d \in Days, Activated(v, d), ~KnownOn(d, phase)
      PROVE  Activated(v, d)'
  <2>1. PICK i \in EventsOf(v) :
            /\ events[i].enabled
            /\ KnownOn(d, events[i].requested)
            /\ \A k \in EventsOf(v) :
                  ~events[k].enabled /\ events[i].at < events[k].at =>
                      ~KnownOn(d, events[k].saved)
    BY <1>6 DEF Activated
  <2>2. EventsOf(v) \subseteq EventsOf(v)' /\ EventsOf(v)' \subseteq EventsOf(v) \cup {n}
    BY <1>1 DEF EventsOf
  <2>3. i \in EventsOf(v)' /\ events'[i] = events[i]
    BY <1>1, <2>1, <2>2 DEF EventsOf
  <2>4. ASSUME NEW k \in EventsOf(v)', ~events'[k].enabled, events'[i].at < events'[k].at
        PROVE  ~KnownOn(d, events'[k].saved)
    <3>1. CASE k = n
      BY <1>1, <1>6, <3>1 DEF KnownOn
    <3>2. CASE k \in EventsOf(v)
      <4>1. events'[k] = events[k]
        BY <1>1, <3>2 DEF EventsOf
      <4>2. QED
        BY <2>1, <2>3, <2>4, <3>2, <4>1
    <3>3. QED
      BY <2>2, <3>1, <3>2
  <2>5. QED
    BY <2>1, <2>3, <2>4 DEF Activated, KnownOn
<1>7. JobFollowsActivation'
  BY <1>2, <1>6 DEF JobFollowsActivation, NothingFromTheFuture, TypeOK
<1>8. RowsFollowActivation'
  <2>1. \A v \in Versions, d \in Days : rows[v][d] # NoRow => Activated(v, d)
    BY DEF RowsFollowActivation, Activated
  <2>2. \A v \in Versions, d \in Days : rows[v][d] # NoRow => Activated(v, d)'
    BY <1>6, <2>1 DEF NothingFromTheFuture
  <2>3. QED
    BY <1>2, <2>2 DEF RowsFollowActivation, Activated
<1>9. QED
  BY <1>2, <1>4, <1>5, <1>7, <1>8
  DEF VersionsAreInOrder, SupersededTakesNoSignals, HistoryIsCarried, RowsHaveALast,
      ResultsContinue, Continues, NoneTooLate, LastRow, Saved, KnownOn

\* What is enabled as of the 18:30 of d has its activation, since no event is
\* saved before it is requested.
LEMMA EnabledIsActivated ==
    ASSUME IInv, NEW d \in Days, NEW v \in EnabledOn(d)
    PROVE  Activated(v, d)
<1> USE DEF IInv
<1>1. PICK i \in Latest(KnownEvents(d, v)) : events[i].enabled
  BY DEF EnabledOn
<1>2. i \in EventsOf(v) /\ KnownOn(d, events[i].requested)
  BY DEF Latest, KnownEvents
<1>3. ASSUME NEW k \in EventsOf(v), events[i].at < events[k].at, KnownOn(d, events[k].saved)
      PROVE  FALSE
  <2>1. /\ k \in DOMAIN events /\ i \in DOMAIN events
        /\ events[k].requested <= events[k].saved
    BY <1>2 DEF EventsOf, NothingFromTheFuture
  <2>2. KnownOn(d, events[k].requested)
    BY <1>3, <2>1, EventType DEF KnownOn, Days
  <2>3. events[k].at <= events[i].at
    BY <2>2 DEF Latest, KnownEvents
  <2>4. QED
    BY <1>3, <2>1, <2>3, EventType
<1>4. QED
  BY <1>1, <1>2, <1>3 DEF Activated

LEMMA StartRunStep ==
    ASSUME IInv, TypeOK', CallsAreSound',
           NEW d \in Days, NEW signals \in BOOLEAN, StartRun(d, signals)
    PROVE  IInv'
<1> USE DEF IInv
<1>1. /\ UNCHANGED <<phase, selections, events, rows>>
      /\ job'.day = d /\ job'.todo = EnabledOn(d)
      /\ \A v \in Versions : job'.results[v] = NoRow
      /\ ~KnownOn(d, phase)
  BY DEF StartRun, NoJob
<1>2. NothingFromTheFuture'
  BY <1>1 DEF NothingFromTheFuture, Saved, KnownOn
<1>3. JobFollowsActivation'
  <2>1. \A v \in EnabledOn(d) : Activated(v, d)'
    BY <1>1, EnabledIsActivated DEF Activated, EventsOf, KnownOn
  <2>2. QED
    BY <1>1, <2>1 DEF JobFollowsActivation
<1>4. ResultsContinue'
  BY <1>1 DEF ResultsContinue
<1>5. QED
  BY <1>1, <1>2, <1>3, <1>4
  DEF VersionsAreInOrder, OneEventPerRequest, RowsFollowActivation, EventsOf,
      SupersededTakesNoSignals, HistoryIsCarried, RowsHaveALast, LastRow, Saved, KnownOn

\* The restored state and the signals of the day continue the rows.
LEMMA AdvancedContinues ==
    ASSUME IInv, NEW v \in Versions, Advance(v), job.running
    PROVE  /\ Advanced(v) \subseteq 1..job.day
           /\ rows[v][job.day] \in {NoRow, Advanced(v)}
           /\ \A d \in Days : rows[v][d] # NoRow =>
                  d <= job.day /\ rows[v][d] \subseteq Advanced(v)
           /\ NoneTooLate(v, Advanced(v))
<1> USE DEF IInv
<1>1. job.day \in Days
  BY DEF TypeOK
<1>2. \A d \in LastRow(v) :
         d \in Days /\ d <= job.day /\ rows[v][d] # NoRow /\ rows[v][d] \subseteq 1..d
  BY DEF Advance, InOrder, LastRow, HistoryIsCarried
<1>3. Advanced(v) \subseteq 1..job.day
  <2>1. Carried(v) \subseteq 1..job.day
    BY <1>1, <1>2 DEF Carried, Days
  <2>2. job.day \in 1..job.day
    BY <1>1 DEF Days
  <2>3. QED
    BY <2>1, <2>2 DEF Advanced, Merged
<1>4. rows[v][job.day] \in {NoRow, Advanced(v)}
  BY DEF Advance, Acceptable
<1>5. ASSUME NEW d \in Days, rows[v][d] # NoRow
      PROVE  d <= job.day /\ rows[v][d] \subseteq Advanced(v)
  <2>1. PICK e \in LastRow(v) : TRUE
    BY <1>5 DEF RowsHaveALast
  <2>2. e \in Days /\ e <= job.day /\ rows[v][e] # NoRow /\ d <= e
    BY <1>2, <1>5 DEF LastRow
  <2>3. rows[v][d] \subseteq rows[v][e]
    <3>1. CASE d = e
      BY <3>1
    <3>2. CASE d < e
      BY <1>5, <2>2, <3>2 DEF HistoryIsCarried
    <3>3. QED
      BY <2>2, <3>1, <3>2 DEF Days
  <2>4. rows[v][e] \subseteq Advanced(v)
    BY DEF Advanced, Merged, Carried
  <2>5. QED
    BY <1>1, <2>2, <2>3, <2>4 DEF Days
<1>6. NoneTooLate(v, Advanced(v))
  <2> SUFFICES ASSUME NEW e \in Days, NEW w \in Saved, e \in Advanced(v), v < w
               PROVE  ~KnownOn(e, selections[w].saved)
    BY DEF NoneTooLate
  <2>1. ~MayEnter(v)
    BY DEF MayEnter, IsLatestVersion, Saved
  <2>2. PICK d \in LastRow(v) : e \in rows[v][d]
    BY <2>1 DEF Advanced, Merged, Carried
  <2>3. QED
    BY <1>2, <2>2 DEF SupersededTakesNoSignals
<1>7. QED
  BY <1>3, <1>4, <1>5, <1>6

LEMMA AdvanceStep ==
    ASSUME IInv, TypeOK', CallsAreSound', NEW v \in Versions, Advance(v)
    PROVE  IInv'
<1> USE DEF IInv
<1>1. /\ UNCHANGED <<phase, selections, events, rows>>
      /\ job.running /\ job'.running /\ job'.day = job.day
      /\ v \in job.todo /\ job'.todo = job.todo \ {v}
      /\ job'.results[v] = Advanced(v)
      /\ \A w \in Versions : w # v => job'.results[w] = job.results[w]
  BY DEF Advance, TypeOK
<1>2. NothingFromTheFuture'
  BY <1>1 DEF NothingFromTheFuture, Saved, KnownOn
<1>3. JobFollowsActivation'
  <2>1. \A w \in Versions :
            w \in job'.todo \/ job'.results[w] # NoRow => Activated(w, job.day)
    BY <1>1 DEF JobFollowsActivation
  <2>2. \A w \in Versions : Activated(w, job.day)' = Activated(w, job.day)
    BY <1>1 DEF Activated, EventsOf, KnownOn
  <2>3. QED
    BY <1>1, <2>1, <2>2 DEF JobFollowsActivation
<1>4. ResultsContinue'
  <2> SUFFICES ASSUME NEW w \in Versions, job'.results[w] # NoRow
               PROVE  Continues(w)' /\ NoneTooLate(w, job.results[w])'
    BY DEF ResultsContinue
  <2>1. CASE w = v
    BY <1>1, <2>1, AdvancedContinues DEF Continues, NoneTooLate, Saved, KnownOn
  <2>2. CASE w # v
    BY <1>1, <2>2 DEF ResultsContinue, Continues, NoneTooLate, Saved, KnownOn
  <2>3. QED
    BY <2>1, <2>2
<1>5. QED
  BY <1>1, <1>2, <1>3, <1>4
  DEF VersionsAreInOrder, OneEventPerRequest, RowsFollowActivation, EventsOf,
      SupersededTakesNoSignals, HistoryIsCarried, RowsHaveALast, LastRow, Saved, KnownOn

\* A commit adds the row of the day to versions that have none and changes
\* nothing else.
LEMMA CommitAdds ==
    ASSUME IInv, CommitRun, NEW v \in Versions, NEW d \in Days
    PROVE  \/ rows'[v][d] = rows[v][d]
           \/ /\ d = job.day /\ rows[v][d] = NoRow
              /\ job.results[v] # NoRow /\ rows'[v][d] = job.results[v]
<1> USE DEF IInv
<1>1. rows \in [Versions -> [Days -> Histories \cup {NoRow}]] /\ job.day \in Days
  BY DEF TypeOK
<1>2. CASE job.results[v] = NoRow
  BY <1>2 DEF CommitRun
<1>3. CASE job.results[v] # NoRow
  <2>1. rows'[v] = [rows[v] EXCEPT ![job.day] = job.results[v]]
    BY <1>3 DEF CommitRun
  <2>2. rows[v][job.day] \in {NoRow, job.results[v]}
    BY <1>3 DEF CommitRun, ResultsContinue, Continues
  <2>3. QED
    BY <1>1, <1>3, <2>1, <2>2
<1>4. QED
  BY <1>2, <1>3

LEMMA CommitStep ==
    ASSUME IInv, TypeOK', CallsAreSound', CommitRun
    PROVE  IInv'
<1> USE DEF IInv
<1> DEFINE New(v, d) == /\ d = job.day /\ rows[v][d] = NoRow
                        /\ job.results[v] # NoRow /\ rows'[v][d] = job.results[v]
<1>1. /\ UNCHANGED <<phase, selections, events>>
      /\ job.running /\ ~job'.running
  BY DEF CommitRun, NoJob
<1>2. \A v \in Versions, d \in Days : rows'[v][d] = rows[v][d] \/ New(v, d)
  BY CommitAdds
<1>3. \A v \in Versions : job.results[v] # NoRow =>
          Continues(v) /\ NoneTooLate(v, job.results[v]) /\ Activated(v, job.day)
  BY <1>1 DEF ResultsContinue, JobFollowsActivation
<1>4. NothingFromTheFuture'
  <2>1. \A v \in Versions, d \in Days : rows'[v][d] # NoRow => ~KnownOn(d, phase)
    BY <1>1, <1>2 DEF NothingFromTheFuture
  <2>2. QED
    BY <1>1, <2>1 DEF NothingFromTheFuture, Saved, KnownOn
<1>5. RowsFollowActivation'
  <2>1. \A v \in Versions, d \in Days : rows'[v][d] # NoRow => Activated(v, d)
    BY <1>2, <1>3 DEF RowsFollowActivation, Activated
  <2>2. QED
    BY <1>1, <2>1 DEF RowsFollowActivation, Activated, EventsOf, KnownOn
<1>6. SupersededTakesNoSignals'
  <2>1. \A v \in Versions, d \in Days : NoneTooLate(v, rows'[v][d])
    BY <1>2, <1>3 DEF SupersededTakesNoSignals, NoneTooLate
  <2>2. QED
    BY <1>1, <2>1 DEF SupersededTakesNoSignals, NoneTooLate, Saved, KnownOn
<1>7. HistoryIsCarried'
  <2> SUFFICES ASSUME NEW v \in Versions, NEW d \in Days, NEW e \in Days,
                      rows'[v][d] # NoRow
               PROVE  /\ rows'[v][d] \subseteq 1..d
                      /\ d < e /\ rows'[v][e] # NoRow => rows'[v][d] \subseteq rows'[v][e]
    BY DEF HistoryIsCarried
  <2>1. rows'[v][d] \subseteq 1..d
    BY <1>2, <1>3 DEF HistoryIsCarried, Continues
  <2>2. ASSUME d < e, rows'[v][e] # NoRow
        PROVE  rows'[v][d] \subseteq rows'[v][e]
    <3>1. CASE rows'[v][d] = rows[v][d] /\ rows'[v][e] = rows[v][e]
      BY <2>2, <3>1 DEF HistoryIsCarried
    <3>2. CASE rows'[v][d] = rows[v][d] /\ New(v, e)
      BY <1>3, <3>2 DEF Continues
    <3>3. CASE New(v, d) /\ rows'[v][e] = rows[v][e]
      <4>1. e <= job.day
        BY <1>3, <2>2, <3>3 DEF Continues
      <4>2. QED
        BY <2>2, <3>3, <4>1 DEF Days
    <3>4. CASE New(v, d) /\ New(v, e)
      BY <2>2, <3>4 DEF Days
    <3>5. QED
      BY <1>2, <3>1, <3>2, <3>3, <3>4
  <2>3. QED
    BY <2>1, <2>2
<1>8. RowsHaveALast'
  <2> SUFFICES ASSUME NEW v \in Versions, NEW d \in Days, rows'[v][d] # NoRow
               PROVE  LastRow(v)' # {}
    BY DEF RowsHaveALast
  <2>1. CASE \A e \in Days : rows'[v][e] = rows[v][e]
    BY <2>1 DEF RowsHaveALast, LastRow
  <2>2. CASE \E e \in Days : New(v, e)
    <3>1. \A e \in Days : rows'[v][e] # NoRow => e <= job.day
      <4>1. \A e \in Days : rows[v][e] # NoRow => e <= job.day
        BY <1>3, <2>2 DEF Continues
      <4>2. \A e \in Days : e = job.day => e <= job.day
        BY DEF Days
      <4>3. QED
        BY <1>2, <4>1, <4>2
    <3>2. job.day \in Days /\ rows'[v][job.day] # NoRow
      BY <2>2
    <3>3. job.day \in LastRow(v)'
      BY <3>1, <3>2 DEF LastRow
    <3>4. QED
      BY <3>3
  <2>3. QED
    BY <1>2, <2>1, <2>2
<1>9. QED
  BY <1>1, <1>4, <1>5, <1>6, <1>7, <1>8
  DEF JobFollowsActivation, ResultsContinue, VersionsAreInOrder, OneEventPerRequest, Saved

LEMMA NextInv == IInv /\ [Next]_vars => IInv'
<1> SUFFICES ASSUME IInv, [Next]_vars PROVE IInv'
    OBVIOUS
<1>1. TypeOK' /\ CallsAreSound' /\ phase <= phase'
  BY TypeStep, CallsStep, TimeAndNumbersGrow DEF IInv
<1>2. CASE Tick
  BY <1>1, <1>2, ReadStep DEF Tick
<1>3. ASSUME NEW u \in Users, NEW r, Begin(u, r) PROVE IInv'
  BY <1>1, <1>3, ReadStep DEF Begin
<1>4. ASSUME NEW u \in Users, NEW place, NEW n, Read(u, place, n) PROVE IInv'
  BY <1>1, <1>4, ReadStep DEF Read
<1>5. ASSUME NEW u \in Users, BeginCreate(u) PROVE IInv'
  BY <1>3, <1>5 DEF BeginCreate
<1>6. ASSUME NEW u \in Users, NEW v \in Versions, BeginDeactivate(u, v) PROVE IInv'
  BY <1>3, <1>6 DEF BeginDeactivate
<1>7. ASSUME NEW u \in Users, ReadNumber(u) PROVE IInv'
  BY <1>4, <1>7 DEF ReadNumber
<1>8. ASSUME NEW u \in Users, InsertVersion(u) PROVE IInv'
  BY <1>1, <1>8, InsertVersionStep
<1>9. ASSUME NEW u \in Users, NEW r \in Requests, NEW v \in Versions,
             NEW enabled \in BOOLEAN, Request(u, r, v, enabled)
      PROVE IInv'
  BY <1>3, <1>9 DEF Request
<1>10. ASSUME NEW u \in Users, CheckRequest(u) PROVE IInv'
  BY <1>4, <1>10, CheckReads
<1>11. ASSUME NEW u \in Users, InsertEvent(u) PROVE IInv'
  BY <1>1, <1>11, InsertEventStep
<1>12. ASSUME NEW u \in Users, Return(u) PROVE IInv'
  BY <1>1, <1>12, ReadStep DEF Return
<1>13. ASSUME NEW d \in Days, SkipRun(d) PROVE IInv'
  BY <1>1, <1>13, ReadStep DEF SkipRun, vars
<1>14. ASSUME NEW d \in Days, NEW signals \in BOOLEAN, StartRun(d, signals) PROVE IInv'
  BY <1>1, <1>14, StartRunStep
<1>15. ASSUME NEW v \in Versions, Advance(v) PROVE IInv'
  BY <1>1, <1>15, AdvanceStep
<1>16. CASE CommitRun
  BY <1>1, <1>16, CommitStep
<1>17. CASE GiveUpRun
  BY <1>1, <1>17, ReadStep DEF GiveUpRun, NoJob
<1>18. CASE UNCHANGED vars
  BY <1>1, <1>18, ReadStep DEF vars
<1>19. QED
  BY <1>2, <1>5, <1>6, <1>7, <1>8, <1>9, <1>10, <1>11, <1>12, <1>13, <1>14, <1>15,
     <1>16, <1>17, <1>18 DEF Next

\* Every reachable state satisfies the inductive invariant.
THEOREM Invariance == Spec => []IInv
BY InitInv, NextInv, PTL DEF Spec

-----------------------------------------------------------------------------

\* The variables always have the values that TypeOK names.
THEOREM TypeCorrect == Spec => []TypeOK
<1>1. IInv => TypeOK
  BY DEF IInv
<1>2. QED
  BY <1>1, Invariance, PTL

\* However many users create and deactivate versions at once, the numbers are
\* without gaps and in the order of the commits.
THEOREM NumbersAreInOrder == Spec => []VersionsAreInOrder
<1>1. IInv => VersionsAreInOrder
  BY DEF IInv
<1>2. QED
  BY <1>1, Invariance, PTL

\* No interleaving of calls gives a request two events.
THEOREM RequestsAreIdempotent == Spec => []OneEventPerRequest
<1>1. IInv => OneEventPerRequest
  BY DEF IInv
<1>2. QED
  BY <1>1, Invariance, PTL

\* No row of an account without an activation by the 18:30 of its day, whenever
\* the day was run and whatever was requested meanwhile.
THEOREM NoRowWithoutActivation == Spec => []RowsFollowActivation
<1>1. IInv => RowsFollowActivation
  BY DEF IInv
<1>2. QED
  BY <1>1, Invariance, PTL

\* The account of a superseded version only closes positions.
THEOREM SupersededOnlyCloses == Spec => []SupersededTakesNoSignals
<1>1. IInv => SupersededTakesNoSignals
  BY DEF IInv
<1>2. QED
  BY <1>1, Invariance, PTL

\* Reruns and replays neither lose nor anticipate what an account took.
THEOREM HistoryIsKept == Spec => []HistoryIsCarried
<1>1. IInv => HistoryIsCarried
  BY DEF IInv
<1>2. QED
  BY <1>1, Invariance, PTL

\* No step changes or removes a row.
THEOREM RowsStay == Spec => RowsAreFrozen
<1>1. ASSUME IInv, [Next]_vars, NEW v \in Versions, NEW d \in Days, rows[v][d] # NoRow
      PROVE  rows'[v][d] = rows[v][d]
  <2>1. CASE CommitRun
    BY <1>1, <2>1, CommitAdds
  <2>2. CASE UNCHANGED rows
    BY <2>2
  <2>3. QED
    BY <1>1, <2>1, <2>2
    DEF Next, vars, Tick, BeginCreate, BeginDeactivate, Begin, ReadNumber, Read, Request,
        InsertVersion, CheckRequest, CheckLog, CheckExposure, InsertEvent, Return, SkipRun, StartRun, Advance,
        GiveUpRun
<1>2. IInv /\ [Next]_vars =>
          [\A v \in Versions, d \in Days :
              rows[v][d] # NoRow => rows'[v][d] = rows[v][d]]_vars
  BY <1>1
<1>3. QED
  BY <1>2, Invariance, PTL DEF Spec, RowsAreFrozen

=============================================================================
