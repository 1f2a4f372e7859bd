----------------------- MODULE PriceCollector_proofs ------------------------
(***************************************************************************)
(* The safety properties of PriceCollector for every set of symbols, every *)
(* window, order and batch size, and whatever the provider knows.          *)
(***************************************************************************)
EXTENDS PriceCollector, TLAPS

\* Before its selection, and when it has ended, a run has done nothing.
NothingYet ==
    /\ pc \in {"asleep", "start", "refreshed"} => run.passed = {}
    /\ pc # "fetch" => run.batch = {} /\ run.answered = NoAnswers

\* The loop has left a session behind for one of two reasons.
Done(e) == Missing(e) = {} \/ (e = run.latest /\ target[e] = "unavailable")
PassedIsDone == \A e \in run.passed : Done(e)

\* A batch is fetched for a session that is not set aside.
FetchesActive ==
    pc = "fetch" => target[run.date] # "unavailable" /\ run.date \notin run.passed

\* What the collector stores, or is about to store, is what the provider has.
StoresAnswers ==
    /\ price \subseteq Traded
    /\ noData \cap Traded = {}
    /\ \A s \in run.answered["no_data"] : <<s, run.date>> \notin Traded

IInv ==
    /\ TypeOK
    /\ NothingYet
    /\ PassedIsDone
    /\ FetchesActive
    /\ StoresAnswers
    /\ FirstUnfinishedFirst
    /\ AsksOnlyForMissing
    /\ UnavailableHasNoPrice

USE SymbolsAssumption, SizesAssumption, ProviderAssumption, FaultBoundsAssumption

-----------------------------------------------------------------------------

LEMMA InitInv == Init => IInv
<1> SUFFICES ASSUME Init PROVE IInv
    OBVIOUS
<1>1. TypeOK
  <2>1. /\ NoRun \in [latest: Sessions, passed: SUBSET Sessions, date: Sessions,
                      batch: SUBSET Symbols, answered: [Answers -> SUBSET Symbols]]
        /\ 1 \in Sessions
    BY DEF NoRun, NoAnswers, Sessions
  <2>2. used \in [faults: 0..MaxFaults, expiries: 0..MaxExpiries]
    BY DEF Init
  <2>3. QED
    BY <2>1, <2>2 DEF Init, TypeOK
<1>2. QED
    BY <1>1 DEF Init, IInv, NothingYet, PassedIsDone, FetchesActive, StoresAnswers,
                FirstUnfinishedFirst, AsksOnlyForMissing, UnavailableHasNoPrice,
                NoRun, NoAnswers, Answers, Sessions

LEMMA TypeStep == TypeOK /\ [Next]_vars => TypeOK'
<1> SUFFICES ASSUME TypeOK, [Next]_vars PROVE TypeOK'
    OBVIOUS
<1> USE DEF TypeOK
<1>1. NoRun \in [latest: Sessions, passed: SUBSET Sessions, date: Sessions,
                 batch: SUBSET Symbols, answered: [Answers -> SUBSET Symbols]]
    BY DEF NoRun, NoAnswers, Sessions
<1>2. CASE NewSession
    BY <1>2 DEF NewSession, stored, Sessions
<1>3. CASE ProbeIntervalPasses
    BY <1>3 DEF ProbeIntervalPasses
<1>4. CASE MasterExpires
  <2>1. used' \in [faults: 0..MaxFaults, expiries: 0..MaxExpiries]
    BY <1>4 DEF MasterExpires, Spend
  <2>2. QED
    BY <1>4, <2>1 DEF MasterExpires
<1>5. CASE RefreshFails
    BY <1>1, <1>5 DEF RefreshFails, stored, Sleep, Spend, CanFail
<1>6. CASE Crash
  <2>1. used' \in [faults: 0..MaxFaults, expiries: 0..MaxExpiries]
    BY <1>6 DEF Crash, Spend, CanFail
  <2>2. etf' \subseteq etf
    BY <1>6 DEF Crash
  <2>3. QED
    BY <1>1, <1>6, <2>1, <2>2 DEF Crash, Sleep
<1>7. CASE Wake
    BY <1>1, <1>7 DEF Wake, stored
<1>8. CASE RefreshMaster
    BY <1>1, <1>8 DEF RefreshMaster
<1>9. CASE RecordRefresh
    BY <1>1, <1>9 DEF RecordRefresh, Sleep
<1>10. CASE StartSelection
    BY <1>10 DEF StartSelection, stored
<1>11. CASE NoWork
    BY <1>1, <1>11 DEF NoWork, stored, Sleep
<1>12. ASSUME NEW d \in Sessions, SkipLatest(d) PROVE TypeOK'
    BY <1>12 DEF SkipLatest, Pass, stored
<1>13. ASSUME NEW d \in Sessions, Reopen(d) PROVE TypeOK'
    BY <1>13 DEF Reopen
<1>14. ASSUME NEW d \in Sessions, Complete(d) PROVE TypeOK'
    BY <1>14 DEF Complete, Pass
<1>15. ASSUME NEW d \in Sessions, PickBatch(d) PROVE TypeOK'
  <2>1. FirstOf(Missing(d)) \subseteq Symbols
    BY DEF FirstOf, Missing
  <2>2. QED
    BY <1>15, <2>1 DEF PickBatch, stored
<1>16. ASSUME NEW s \in Symbols, NEW answer \in Answers, Fetch(s, answer) PROVE TypeOK'
  <2>1. <<s, run.date>> \in Pairs
    BY DEF Pairs
  <2>2. used' \in [faults: 0..MaxFaults, expiries: 0..MaxExpiries]
    BY <1>16 DEF Fetch, CanFail, Spend
  <2>3. run' \in [latest: Sessions, passed: SUBSET Sessions, date: Sessions,
                  batch: SUBSET Symbols, answered: [Answers -> SUBSET Symbols]]
    <3>1. run.answered[answer] \cup {s} \in SUBSET Symbols
      OBVIOUS
    <3>2. [run.answered EXCEPT ![answer] = @ \cup {s}] \in [Answers -> SUBSET Symbols]
      BY <3>1
    <3>3. run' = [run EXCEPT !.batch = @ \ {s},
                             !.answered = [run.answered EXCEPT ![answer] = @ \cup {s}]]
      BY <1>16 DEF Fetch
    <3>4. QED
      BY <3>2, <3>3
  <2>4. price' \subseteq Pairs /\ etf' \subseteq master'
    BY <1>16, <2>1 DEF Fetch
  <2>5. QED
    BY <1>16, <2>2, <2>3, <2>4 DEF Fetch
<1>17. CASE FinishBatch
  <2>1. Undelivered \X {run.date} \subseteq Pairs
    BY DEF Undelivered, Pairs, Answers
  <2>2. QED
    BY <1>1, <1>17, <2>1 DEF FinishBatch, Sleep
<1>18. CASE UNCHANGED vars
    BY <1>18 DEF vars
<1>19. QED
    BY <1>2, <1>3, <1>4, <1>5, <1>6, <1>7, <1>8, <1>9, <1>10, <1>11, <1>12, <1>13,
       <1>14, <1>15, <1>16, <1>17, <1>18 DEF Next, RunNext

\* Time, and the end of a run, disturb nothing that the invariant says.
LEMMA IdleStep ==
    ASSUME IInv, TypeOK',
           \/ NewSession \/ ProbeIntervalPasses \/ MasterExpires \/ UNCHANGED vars
           \/ Wake \/ RefreshFails \/ Crash \/ RecordRefresh \/ NoWork \/ StartSelection
    PROVE  IInv'
<1>1. /\ price' = price /\ noData' = noData /\ target' = target /\ master' = master
      /\ \/ run' = run /\ (pc' = pc \/ (pc = "start" /\ pc' = "select"))
         \/ pc' \in {"asleep", "start"} /\ \E l \in Sessions : run' = [NoRun EXCEPT !.latest = l]
  <2>1. NoRun = [NoRun EXCEPT !.latest = 1]
    BY DEF NoRun
  <2>2. 1 \in Sessions /\ latest \in Sessions
    BY DEF Sessions, IInv, TypeOK
  <2> DEFINE Framed == price' = price /\ noData' = noData /\ target' = target /\ master' = master
  <2>3. CASE NewSession \/ ProbeIntervalPasses \/ MasterExpires \/ UNCHANGED vars
    <3>1. Framed
      BY <2>3 DEF NewSession, ProbeIntervalPasses, MasterExpires, stored, vars
    <3>2. run' = run /\ pc' = pc
      BY <2>3 DEF NewSession, ProbeIntervalPasses, MasterExpires, stored, vars
    <3>3. QED
      BY <3>1, <3>2, Zenon
  <2>7. CASE StartSelection
    <3>1. Framed
      BY <2>7 DEF StartSelection, stored
    <3>2. run' = run /\ pc = "start" /\ pc' = "select"
      BY <2>7 DEF StartSelection
    <3>3. QED
      BY <3>1, <3>2, Zenon
  <2>4. CASE Wake
    BY <2>2, <2>4 DEF Wake, stored
  <2>5. CASE RefreshFails \/ Crash \/ RecordRefresh \/ NoWork
    BY <2>1, <2>2, <2>5 DEF RefreshFails, Crash, RecordRefresh, NoWork, stored, Sleep
  <2>6. QED
    BY <2>3, <2>4, <2>5, <2>7
<1>2. UnavailableHasNoPrice'
    BY <1>1 DEF IInv, UnavailableHasNoPrice
<1>3. CASE run' = run /\ (pc' = pc \/ (pc = "start" /\ pc' = "select"))
    BY <1>1, <1>2, <1>3 DEF IInv, NothingYet, PassedIsDone, Done, FetchesActive, StoresAnswers,
       FirstUnfinishedFirst, AsksOnlyForMissing, Missing, Covered
<1>4. ASSUME pc' \in {"asleep", "start"},
             NEW l \in Sessions, run' = [NoRun EXCEPT !.latest = l]
      PROVE  IInv'
  <2>1. run'.passed = {} /\ run'.batch = {} /\ run'.answered = NoAnswers
    BY <1>4 DEF NoRun
  <2>2. NoAnswers["no_data"] = {}
    BY DEF NoAnswers, Answers
  <2>3. NothingYet' /\ PassedIsDone' /\ FetchesActive'
    BY <1>4, <2>1 DEF NothingYet, PassedIsDone, FetchesActive
  <2>4. StoresAnswers'
    BY <1>1, <2>1, <2>2 DEF IInv, StoresAnswers
  <2>5. FirstUnfinishedFirst' /\ AsksOnlyForMissing'
    BY <1>4 DEF FirstUnfinishedFirst, AsksOnlyForMissing
  <2>6. QED
    BY <1>2, <2>3, <2>4, <2>5 DEF IInv
<1>5. QED
    BY <1>1, <1>3, <1>4

\* The walk of select_next_work through the window.
LEMMA SelectStep ==
    ASSUME IInv, TypeOK', NEW d \in Sessions,
           SkipLatest(d) \/ Reopen(d) \/ Complete(d)
    PROVE  IInv'
<1> USE DEF IInv
<1>1. /\ Current(d) /\ pc = "select" /\ pc' = "select"
      /\ d \in Window(run.latest) \ run.passed
    BY DEF SkipLatest, Reopen, Complete, Current
<1>2. /\ price' = price /\ noData' = noData /\ master' = master
      /\ \A e \in Sessions : Missing(e)' = Missing(e)
    BY DEF SkipLatest, Reopen, Complete, stored, Missing, Covered
<1>3. /\ run'.latest = run.latest /\ run'.batch = run.batch /\ run'.date = run.date
      /\ run'.answered = run.answered /\ run'.passed \in {run.passed, run.passed \cup {d}}
    BY DEF SkipLatest, Reopen, Complete, Pass, TypeOK
<1>4. \A e \in Sessions \ {d} : target'[e] = target[e]
    BY DEF SkipLatest, Reopen, Complete, stored, TypeOK
<1>5. run'.passed # run.passed => Done(d)'
  <2>1. ASSUME SkipLatest(d) PROVE Done(d)'
    BY <2>1, <1>3 DEF SkipLatest, TooSoon, Done, stored
  <2>2. ASSUME Complete(d) PROVE Done(d)'
    <3>1. Missing(d) = {}
      BY <2>2 DEF Complete
    <3>2. Missing(d)' = {}
      BY <3>1, <1>2, Zenon
    <3>3. QED
      BY <3>2, Zenon DEF Done
  <2>3. ASSUME Reopen(d) PROVE run' = run
    BY <2>3 DEF Reopen
  <2>4. QED
    BY <2>1, <2>2, <2>3
<1>6. \A e \in run.passed : Done(e)'
  <2> SUFFICES ASSUME NEW e \in run.passed PROVE Done(e)'
      OBVIOUS
  <2>1. e \in Sessions /\ e # d /\ Done(e)
    BY <1>1 DEF PassedIsDone, TypeOK
  <2>2. QED
    BY <1>2, <1>3, <1>4, <2>1 DEF Done
<1>7. PassedIsDone'
    BY <1>3, <1>5, <1>6 DEF PassedIsDone
<1>8. NothingYet' /\ FetchesActive' /\ FirstUnfinishedFirst' /\ AsksOnlyForMissing'
    BY <1>1, <1>3 DEF NothingYet, FetchesActive, FirstUnfinishedFirst, AsksOnlyForMissing
<1>9. StoresAnswers'
    BY <1>2, <1>3 DEF StoresAnswers
<1>10. UnavailableHasNoPrice'
  <2>1. target'[d] = "unavailable" => target[d] = "unavailable"
    BY DEF SkipLatest, Reopen, Complete, stored, TypeOK
  <2>2. QED
    BY <1>2, <1>4, <2>1 DEF UnavailableHasNoPrice
<1>11. QED
    BY <1>7, <1>8, <1>9, <1>10

\* The first session that is not done becomes the session of the run.
LEMMA PickStep ==
    ASSUME IInv, TypeOK', NEW d \in Sessions, PickBatch(d)
    PROVE  IInv'
<1> USE DEF IInv
<1>1. /\ pc = "select" /\ pc' = "fetch" /\ target[d] # "unavailable"
      /\ d \in Window(run.latest) \ run.passed
      /\ \A e \in Window(run.latest) \ run.passed : Place(run.latest, d) <= Place(run.latest, e)
    BY DEF PickBatch, Current
<1>2. /\ price' = price /\ noData' = noData /\ master' = master /\ target' = target
      /\ \A e \in Sessions : Missing(e)' = Missing(e)
    BY DEF PickBatch, stored, Missing, Covered
<1>3. /\ run'.latest = run.latest /\ run'.passed = run.passed /\ run'.date = d
      /\ run'.answered = NoAnswers /\ run'.batch \subseteq Missing(d)
    BY <1>1 DEF PickBatch, TypeOK, NothingYet, FirstOf
<1>4. NothingYet' /\ FetchesActive'
    BY <1>1, <1>2, <1>3 DEF NothingYet, FetchesActive
<1>5. PassedIsDone'
    BY <1>2, <1>3 DEF PassedIsDone, Done, TypeOK
<1>6. StoresAnswers'
    BY <1>2, <1>3 DEF StoresAnswers, NoAnswers, Answers
<1>7. FirstUnfinishedFirst'
  <2> SUFFICES ASSUME NEW e \in Window(run.latest), Place(run.latest, e) < Place(run.latest, d)
               PROVE  Done(e)
      BY <1>2, <1>3 DEF FirstUnfinishedFirst, Done, Window
  <2>1. /\ Place(run.latest, e) \in Int /\ Place(run.latest, d) \in Int
    <3>1. Recent \in Nat /\ run.latest \in Nat /\ e \in Nat /\ d \in Nat
      BY DEF Window, Sessions, TypeOK
    <3>2. QED
      BY <3>1 DEF Place
  <2>2. e \in run.passed
    BY <1>1, <2>1
  <2>3. QED
    BY <2>2 DEF PassedIsDone
<1>8. AsksOnlyForMissing'
    BY <1>2, <1>3 DEF AsksOnlyForMissing, Missing, Covered
<1>9. UnavailableHasNoPrice'
    BY <1>2 DEF UnavailableHasNoPrice
<1>10. QED
    BY <1>4, <1>5, <1>6, <1>7, <1>8, <1>9

\* One answer of the provider is stored.
LEMMA FetchStep ==
    ASSUME IInv, TypeOK', NEW s \in Symbols, NEW answer \in Answers, Fetch(s, answer)
    PROVE  IInv'
<1> USE DEF IInv
<1>1. /\ pc = "fetch" /\ pc' = "fetch" /\ s \in run.batch
      /\ noData' = noData /\ master' = master /\ target' = target
      /\ price' = IF answer = "success" THEN price \cup {<<s, run.date>>} ELSE price
      /\ answer \in {Provided(s, run.date), "failed"}
    BY DEF Fetch, NextAsked
<1>2. /\ run'.latest = run.latest /\ run'.passed = run.passed /\ run'.date = run.date
      /\ run'.batch = run.batch \ {s}
      /\ run'.answered = [run.answered EXCEPT ![answer] = @ \cup {s}]
    BY DEF Fetch, TypeOK
<1>3. \A e \in Sessions : Missing(e)' \subseteq Missing(e)
    BY <1>1 DEF Missing, Covered
<1>4. NothingYet' /\ FetchesActive'
    BY <1>1, <1>2 DEF NothingYet, FetchesActive
<1>5. PassedIsDone'
    BY <1>1, <1>2, <1>3 DEF PassedIsDone, Done, TypeOK
<1>6. StoresAnswers'
  <2>1. price' \subseteq Traded
    BY <1>1 DEF StoresAnswers, Provided
  <2>2. \A t \in run'.answered["no_data"] : <<t, run.date>> \notin Traded
    BY <1>1, <1>2 DEF StoresAnswers, Provided, TypeOK, Answers
  <2>3. QED
    BY <1>1, <1>2, <2>1, <2>2 DEF StoresAnswers
<1>7. FirstUnfinishedFirst'
    BY <1>1, <1>2, <1>3 DEF FirstUnfinishedFirst, Window
<1>8. AsksOnlyForMissing'
    BY <1>1, <1>2 DEF AsksOnlyForMissing, Covered
<1>9. UnavailableHasNoPrice'
    BY <1>1 DEF UnavailableHasNoPrice, FetchesActive, TypeOK
<1>10. QED
    BY <1>4, <1>5, <1>6, <1>7, <1>8, <1>9

\* The outcome of a batch is stored.
LEMMA FinishStep ==
    ASSUME IInv, TypeOK', FinishBatch
    PROVE  IInv'
<1> USE DEF IInv
<1>1. /\ pc = "fetch" /\ pc' = "asleep" /\ run' = NoRun /\ price' = price
      /\ noData' \subseteq noData \cup (run.answered["no_data"] \X {run.date})
      /\ \A d \in Sessions \ {run.date} : target'[d] = target[d]
      /\ target'[run.date] = "unavailable" => SessionLooksEmpty
    BY DEF FinishBatch, Sleep, Undelivered, TypeOK
<1>2. NothingYet' /\ PassedIsDone' /\ FetchesActive' /\ FirstUnfinishedFirst' /\ AsksOnlyForMissing'
    BY <1>1 DEF NothingYet, PassedIsDone, FetchesActive, FirstUnfinishedFirst,
       AsksOnlyForMissing, NoRun
<1>3. StoresAnswers'
    BY <1>1 DEF StoresAnswers, NoRun, NoAnswers, Answers
<1>4. UnavailableHasNoPrice'
    BY <1>1 DEF UnavailableHasNoPrice, SessionLooksEmpty, TypeOK
<1>5. QED
    BY <1>2, <1>3, <1>4

\* A refresh of the master happens before the run has looked at anything.
LEMMA RefreshStep ==
    ASSUME IInv, TypeOK', RefreshMaster
    PROVE  IInv'
<1> USE DEF IInv
<1>1. /\ pc = "start" /\ pc' \in {"asleep", "refreshed"}
      /\ price' = price /\ noData' = noData /\ target' = target
      /\ run' \in {run, NoRun}
    BY DEF RefreshMaster
<1>2. run'.passed = {} /\ run'.batch = {} /\ run'.answered = NoAnswers
    BY <1>1 DEF NothingYet, NoRun
<1>3. QED
    BY <1>1, <1>2 DEF NothingYet, PassedIsDone, FetchesActive, StoresAnswers, NoAnswers, Answers,
       FirstUnfinishedFirst, AsksOnlyForMissing, UnavailableHasNoPrice

THEOREM Invariance == Spec => []IInv
<1>1. IInv /\ [Next]_vars => IInv'
  <2> SUFFICES ASSUME IInv, [Next]_vars PROVE IInv'
      OBVIOUS
  <2>1. TypeOK'
    BY TypeStep DEF IInv
  <2>2. QED
    BY <2>1, IdleStep, SelectStep, PickStep, FetchStep, FinishStep, RefreshStep DEF Next, RunNext
<1>2. QED
    BY <1>1, InitInv, PTL DEF Spec

-----------------------------------------------------------------------------

\* Every variable keeps its type.
THEOREM TypeCorrect == Spec => []TypeOK
<1>1. IInv => TypeOK
    BY DEF IInv
<1>2. QED
    BY <1>1, Invariance, PTL

\* The order of collection survives crashes, refreshes and new listings.
THEOREM OrderIsKept == Spec => []FirstUnfinishedFirst
<1>1. IInv => FirstUnfinishedFirst
    BY DEF IInv
<1>2. QED
    BY <1>1, Invariance, PTL

\* A restart resumes with what is missing.
THEOREM NothingIsAskedTwice == Spec => []AsksOnlyForMissing
<1>1. IInv => AsksOnlyForMissing
    BY DEF IInv
<1>2. QED
    BY <1>1, Invariance, PTL

\* A failure is never stored as the absence of data.
THEOREM FailureIsNotNoData == Spec => []NoDataIsAnAnswer
<1>1. IInv => NoDataIsAnAnswer
    BY DEF IInv, StoresAnswers, NoDataIsAnAnswer
<1>2. QED
    BY <1>1, Invariance, PTL

\* No session with a price is set aside.
THEOREM PricedIsAvailable == Spec => []UnavailableHasNoPrice
<1>1. IInv => UnavailableHasNoPrice
    BY DEF IInv
<1>2. QED
    BY <1>1, Invariance, PTL

\* The provider is not asked for an unavailable latest session too early.
THEOREM ProbesWait == Spec => ProbesAreSpaced
<1>1. IInv /\ [Next]_vars =>
        [\A d \in Sessions :
            /\ target[d] = "unavailable" /\ d \in cooling
            /\ d = latest /\ (pc = "asleep" \/ d = run.latest)
            => target'[d] = "unavailable"]_vars
  <2> SUFFICES ASSUME IInv, Next, NEW d \in Sessions,
                      target[d] = "unavailable", d \in cooling,
                      pc = "asleep" \/ d = run.latest
               PROVE  target'[d] = "unavailable"
      OBVIOUS
  <2> USE DEF IInv, TypeOK
  <2>1. ASSUME NEW e \in Sessions, Reopen(e) PROVE target'[d] = "unavailable"
    BY <2>1 DEF Reopen, Current, TooSoon
  <2>2. ASSUME NEW e \in Sessions, Complete(e) PROVE target'[d] = "unavailable"
    BY <2>2 DEF Complete
  <2>3. CASE FinishBatch
    BY <2>3 DEF FinishBatch, FetchesActive
  <2>4. CASE target' = target
    BY <2>4
  <2>5. QED
    BY <2>1, <2>2, <2>3, <2>4 DEF Next, RunNext, NewSession, ProbeIntervalPasses, MasterExpires,
       Wake, RefreshMaster, RecordRefresh, StartSelection, SkipLatest, PickBatch, NoWork, Fetch,
       RefreshFails, Crash, stored
<1>2. QED
    BY <1>1, Invariance, PTL DEF Spec, ProbesAreSpaced

=============================================================================
