--------------------- MODULE ValidationWindows_proofs ----------------------
(***************************************************************************)
(* The safety properties of ValidationWindows for any processes, tracks,   *)
(* lengths of windows and calendar, and any number of changes.             *)
(***************************************************************************)
EXTENDS ValidationWindows, TLAPS, WellFoundedInduction

\* Only the holder of the job lock is at work.
LockIsHeld == \A r \in Runs : run[r].pc # "idle" => lock = r

\* What a run looks at lies inside the prices it has loaded.
RunIsSound(r) ==
    /\ run[r].validated <= run[r].market.to
    /\ \A s \in run[r].windows : s + TestSessions - 1 <= run[r].market.to
    /\ run[r].pc \in {"claim", "replace", "evaluate"} => run[r].windows # {}
    /\ run[r].pc \in {"claim", "replace", "evaluate", "activation", "freeze",
                      "replace_forward"} => run[r].k <= Len(TrackOrder)

\* A new registry is the present one and a claim that no entry decides on; a
\* window is simulated once its claim is in the registry.
WriteIsSound(r) ==
    /\ run[r].pc = "replace" =>
          /\ temporary = Append(registry, Claim(r))
          /\ Decisive(registry, Claim(r)) = {}
    /\ run[r].pc = "replace_forward" =>
          /\ temporary = Append(registry, ForwardClaim(r))
          /\ Decisive(registry, ForwardClaim(r)) = {}
    /\ run[r].pc = "evaluate" => Claim(r) \in Entries

RunsAreSound == \A r \in Runs : RunIsSound(r) /\ WriteIsSound(r)

\* OneRulePerWindow of what was claimed, simulated or not.
OneRulePerClaim ==
    \A i, j \in DOMAIN registry :
        /\ ~IsForward(registry[i]) /\ ~IsForward(registry[j])
        /\ registry[i].track = registry[j].track
        /\ Overlap(registry[i], registry[j])
        => registry[i].rule = registry[j].rule

RegistryIsSound ==
    /\ \A i \in DOMAIN registry :
          registry[i].from \in Int /\ registry[i].to \in Int
    /\ OneRulePerClaim
    /\ BoundaryHolds

EvaluatedIsSound == \A e \in evaluated : e \in Entries /\ ~IsForward(e)

IInv ==
    /\ TypeOK
    /\ LockIsHeld
    /\ RunsAreSound
    /\ RegistryIsSound
    /\ EvaluatedIsSound

USE NamesAssumption, TracksAssumption, BoundsAssumption DEF TrackRules

-----------------------------------------------------------------------------
(* Data. *)

\* A set of numbers has the least element that Min names.
LEMMA LeastElement ==
    ASSUME NEW T, T \subseteq Nat, T # {}
    PROVE  Min(T) \in T /\ \A n \in T : Min(T) <= n
<1> DEFINE Less == OpToRel(<, Nat)
<1>1. Less = {p \in Nat \X Nat : p[1] < p[2]}
  BY Zenon DEF OpToRel
<1>2. IsWellFoundedOn(Less, Nat)
  BY NatLessThanWellFounded, Zenon
<1> HIDE DEF Less
<1>3. PICK x \in T : \A y \in T : ~(<<y, x>> \in Less)
  BY <1>2, WFMin, Zenon
<1>4. ASSUME NEW y \in T PROVE x <= y
  <2>1. x \in Nat /\ y \in Nat /\ <<y, x>> \notin Less
    BY <1>3
  <2>2. ~(<<y, x>>[1] < <<y, x>>[2])
    BY <1>1, <2>1, Zenon
  <2> QED
    BY <2>1, <2>2
<1> QED
  BY <1>4 DEF Min

\* What a sequence with one more element has.
LEMMA AppendedElements ==
    ASSUME NEW S, NEW s \in Seq(S), NEW e
    PROVE  /\ DOMAIN Append(s, e) = DOMAIN s \cup {Len(s) + 1}
           /\ Len(s) + 1 \notin DOMAIN s
           /\ \A i \in DOMAIN s : i \in Nat /\ i < Len(s) + 1
           /\ \A i \in DOMAIN s : Append(s, e)[i] = s[i]
           /\ Append(s, e)[Len(s) + 1] = e
           /\ Append(s, e) \in Seq(S \cup {e})
  OBVIOUS

\* An entry that is known decides, so it is in the registry.
LEMMA KnownIsEntry ==
    ASSUME registry \in Seq(Entries), NEW c, Known(registry, c)
    PROVE  c \in Entries
<1>1. Decisive(registry, c) \subseteq Nat /\ Decisive(registry, c) # {}
  BY DEF Known, Decisive
<1>2. Min(Decisive(registry, c)) \in DOMAIN registry
  BY <1>1, LeastElement DEF Decisive
<1> QED
  BY <1>2 DEF Known, Entries

\* What the claims of a run at work are made of.
LEMMA ClaimsAreWellFormed ==
    ASSUME TypeOK, NEW r \in Runs, RunIsSound(r), run[r].windows # {}
    PROVE  /\ Min(run[r].windows) \in run[r].windows
           /\ Claim(r).from \in Nat /\ Claim(r).to \in Nat
           /\ Claim(r).to <= run[r].market.to
           /\ ~IsForward(Claim(r))
<1>1. run[r].windows \subseteq Nat
  BY DEF TypeOK, Sessions
<1>2. Min(run[r].windows) \in run[r].windows
  BY <1>1, LeastElement
<1> QED
  BY <1>1, <1>2 DEF RunIsSound, Claim, WindowClaim, IsForward

LEMMA ForwardClaimsAreWellFormed ==
    ASSUME TypeOK, NEW r \in Runs, RunIsSound(r)
    PROVE  /\ ForwardClaim(r).from \in Nat /\ ForwardClaim(r).to \in Nat
           /\ ForwardClaim(r).to <= ForwardClaim(r).observed
           /\ ForwardClaim(r).observed < ForwardClaim(r).from
           /\ IsForward(ForwardClaim(r))
<1>1. run[r].market \in Stretch /\ run[r].validated \in Nat
  BY DEF TypeOK
<1>2. run[r].market.to \in Nat
  BY <1>1 DEF Stretch, Sessions
<1> QED
  BY <1>1, <1>2 DEF RunIsSound, ForwardClaim, IsForward

\* A claim that no entry decides on extends the registry soundly.
LEMMA RegistryGrows ==
    ASSUME registry \in Seq(Entries), RegistryIsSound, NEW e,
           Decisive(registry, e) = {}, e.from \in Nat, e.to \in Nat,
           IsForward(e) => e.to <= e.observed /\ e.observed < e.from,
           registry' = Append(registry, e)
    PROVE  /\ Entries' = Entries \cup {e}
           /\ registry' \in Seq(Entries')
           /\ RegistryIsSound'
<1> DEFINE n == Len(registry) + 1
<1>1. /\ DOMAIN registry' = DOMAIN registry \cup {n}
      /\ n \notin DOMAIN registry
      /\ \A i \in DOMAIN registry : i \in Nat /\ i < n /\ registry'[i] = registry[i]
      /\ registry'[n] = e
      /\ n \in Nat
      /\ registry' \in Seq(Entries \cup {e})
  BY AppendedElements
<1>2. \A i \in DOMAIN registry : ~Refuses(registry[i], e)
  BY DEF Decisive
<1> HIDE DEF n
<1>3. Entries' = Entries \cup {e}
  BY <1>1 DEF Entries
<1>4. \A i \in DOMAIN registry' :
         registry'[i].from \in Int /\ registry'[i].to \in Int
  BY <1>1 DEF RegistryIsSound
<1>5. OneRulePerClaim'
  <2> SUFFICES ASSUME NEW i \in DOMAIN registry', NEW j \in DOMAIN registry',
                      ~IsForward(registry'[i]), ~IsForward(registry'[j]),
                      registry'[i].track = registry'[j].track,
                      Overlap(registry'[i], registry'[j])
               PROVE  registry'[i].rule = registry'[j].rule
    BY DEF OneRulePerClaim, IsForward, Overlap
  <2>1. CASE i \in DOMAIN registry /\ j \in DOMAIN registry
    BY <2>1, <1>1 DEF RegistryIsSound, OneRulePerClaim
  <2>2. CASE i \in DOMAIN registry /\ j = n
    BY <2>2, <1>1, <1>2 DEF Refuses
  <2>3. CASE i = n /\ j \in DOMAIN registry
    BY <2>3, <1>1, <1>2 DEF Refuses, Overlap
  <2>4. CASE i = n /\ j = n
    BY <2>4
  <2> QED
    BY <2>1, <2>2, <2>3, <2>4, <1>1
<1>6. BoundaryHolds'
  <2> SUFFICES ASSUME NEW j \in DOMAIN registry', IsForward(registry'[j])
               PROVE  /\ registry'[j].to <= registry'[j].observed
                      /\ registry'[j].observed < registry'[j].from
                      /\ \A i \in DOMAIN registry' :
                           i > j /\ registry'[i].track = registry'[j].track =>
                             ~IsForward(registry'[i]) /\ registry'[i].to < registry'[j].from
    BY DEF BoundaryHolds, IsForward
  <2>1. CASE j = n
    BY <2>1, <1>1
  <2>2. CASE j \in DOMAIN registry
    <3>1. ASSUME NEW i \in DOMAIN registry', i > j,
                 registry'[i].track = registry'[j].track
          PROVE  ~IsForward(registry'[i]) /\ registry'[i].to < registry'[j].from
      <4>1. CASE i \in DOMAIN registry
        BY <4>1, <3>1, <2>2, <1>1 DEF RegistryIsSound, BoundaryHolds
      <4>2. CASE i = n
        <5>1. ~IsForward(e) /\ ~(e.to >= registry[j].from)
          BY <4>2, <3>1, <2>2, <1>1, <1>2 DEF Refuses
        <5> QED
          BY <5>1, <4>2, <2>2, <1>1 DEF RegistryIsSound
      <4> QED
        BY <4>1, <4>2, <1>1
    <3> QED
      BY <3>1, <2>2, <1>1 DEF RegistryIsSound, BoundaryHolds
  <2> QED
    BY <2>1, <2>2, <1>1
<1> QED
  BY <1>1, <1>3, <1>4, <1>5, <1>6 DEF RegistryIsSound

-----------------------------------------------------------------------------
(* The processes. *)

\* The records of the processes.
RunRecords ==
    [pc: Waiting, k: 1..(Len(TrackOrder) + 1), market: Stretch,
     rules: [Tracks -> Nat \ {0}], windows: SUBSET Sessions, validated: Nat]

LEMMA IdleIsRecord == Idle \in RunRecords
<1>1. NoPrices \in Stretch
  BY DEF Stretch, Sessions, NoPrices
<1> QED
  BY <1>1 DEF Idle, Waiting, RunRecords

LEMMA InitInv == Init => IInv
<1> SUFFICES ASSUME Init PROVE IInv
  OBVIOUS
<1>1. PICK to \in Sessions :
         market = [from |-> 1, to |-> to, universe |-> 1, revised |-> {}]
  BY DEF Init
<1>2. market \in Stretch
  BY <1>1 DEF Stretch, Sessions
<1>4. TypeOK
  BY <1>2, IdleIsRecord DEF Init, TypeOK, Entries, RunRecords
<1>5. LockIsHeld /\ RunsAreSound
  BY DEF Init, Idle, NoPrices, LockIsHeld, RunsAreSound, RunIsSound, WriteIsSound
<1>6. RegistryIsSound /\ EvaluatedIsSound
  BY DEF Init, RegistryIsSound, OneRulePerClaim, BoundaryHolds, EvaluatedIsSound
<1> QED
  BY <1>4, <1>5, <1>6 DEF IInv

\* While one process is at work, the others wait for the lock.
LEMMA OthersWait ==
    ASSUME IInv, NEW r \in Runs, run[r].pc # "idle",
           NEW q \in Runs \ {r}
    PROVE  run[q].pc = "idle"
  BY DEF IInv, LockIsHeld

\* A step of one process while the others wait keeps the types, the lock and
\* what is said of the others.
LEMMA RunStep ==
    ASSUME IInv, NEW r \in Runs,
           \A q \in Runs \ {r} : run[q].pc = "idle",
           NEW new \in RunRecords, run' = [run EXCEPT ![r] = new],
           lock' \in Runs \cup {NoRun}, new.pc # "idle" => lock' = r,
           market' = market, rules' = rules, registry' \in Seq(Entries'),
           RunIsSound(r)', WriteIsSound(r)'
    PROVE  TypeOK' /\ LockIsHeld' /\ RunsAreSound'
<1>1. run \in [Runs -> RunRecords]
  BY DEF IInv, TypeOK, RunRecords
<1>2. run' \in [Runs -> RunRecords] /\ run'[r] = new
      /\ \A q \in Runs \ {r} : run'[q] = run[q]
  BY <1>1
<1>3. TypeOK'
  BY <1>2 DEF IInv, TypeOK, RunRecords
<1>4. LockIsHeld'
  BY <1>2 DEF LockIsHeld
<1>5. ASSUME NEW q \in Runs \ {r} PROVE RunIsSound(q)' /\ WriteIsSound(q)'
  BY <1>2 DEF IInv, RunsAreSound, RunIsSound, WriteIsSound
<1> QED
  BY <1>3, <1>4, <1>5 DEF RunsAreSound

\* The claims of a process depend on what it loaded and where it is.
LEMMA SameClaims ==
    ASSUME NEW r \in Runs, run'[r].k = run[r].k, run'[r].rules = run[r].rules,
           run'[r].market = run[r].market, run'[r].validated = run[r].validated
    PROVE  /\ ForwardClaim(r)' = ForwardClaim(r)
           /\ run'[r].windows = run[r].windows => Claim(r)' = Claim(r)
  BY DEF ForwardClaim, Claim, Track, Rule, WindowClaim, Training

LEMMA SameRegistry ==
    ASSUME IInv, registry' = registry
    PROVE  /\ Entries' = Entries /\ registry' \in Seq(Entries')
           /\ RegistryIsSound'
           /\ evaluated' = evaluated => EvaluatedIsSound'
  BY DEF IInv, TypeOK, Entries, RegistryIsSound, OneRulePerClaim, BoundaryHolds,
         EvaluatedIsSound, IsForward, Overlap

LEMMA BeginStep == ASSUME IInv, NEW r \in Runs, Begin(r) PROVE IInv'
<1> DEFINE new == [Idle EXCEPT !.pc = "track", !.market = market, !.rules = rules]
<1>1. new \in RunRecords
  <2>1. market \in Stretch /\ rules \in [Tracks -> Nat \ {0}]
    BY DEF IInv, TypeOK
  <2> QED
    BY <2>1, IdleIsRecord DEF RunRecords, Waiting
<1>2. \A q \in Runs \ {r} : run[q].pc = "idle"
  BY DEF Begin, IInv, LockIsHeld
<1>3. run' = [run EXCEPT ![r] = new] /\ run'[r] = new
  BY DEF Begin, IInv, TypeOK
<1>4. RunIsSound(r)' /\ WriteIsSound(r)'
  BY <1>3 DEF RunIsSound, WriteIsSound, Idle, IInv, TypeOK, Stretch, Sessions
<1>5. new.pc = "track"
  BY DEF Idle
<1> HIDE DEF new
<1>6. TypeOK' /\ LockIsHeld' /\ RunsAreSound'
  BY <1>1, <1>2, <1>3, <1>4, <1>5, RunStep, SameRegistry DEF Begin
<1> QED
  BY <1>6, SameRegistry DEF IInv, Begin

\* What is known of a process at work.
LEMMA AtWork ==
    ASSUME IInv, NEW r \in Runs, run[r].pc # "idle"
    PROVE  /\ run[r] \in RunRecords /\ RunIsSound(r) /\ WriteIsSound(r)
           /\ \A q \in Runs \ {r} : run[q].pc = "idle"
           /\ lock = r /\ run \in [Runs -> RunRecords]
           /\ TypeOK /\ registry \in Seq(Entries)
  BY OthersWait DEF IInv, RunsAreSound, LockIsHeld, TypeOK, RunRecords

\* A step that ends a process and leaves the files.
LEMMA StopStep ==
    ASSUME IInv, NEW r \in Runs, run[r].pc # "idle", Stop(r),
           UNCHANGED <<market, rules, registry, evaluated>>
    PROVE  IInv'
<1>1. run' = [run EXCEPT ![r] = Idle] /\ run'[r] = Idle
  BY AtWork DEF Stop
<1>2. RunIsSound(r)' /\ WriteIsSound(r)'
  BY <1>1 DEF Idle, NoPrices, RunIsSound, WriteIsSound
<1>3. Idle.pc = "idle"
  BY DEF Idle
<1>4. lock' \in Runs \cup {NoRun}
  BY AtWork DEF Stop
<1>5. TypeOK' /\ LockIsHeld' /\ RunsAreSound'
  BY <1>1, <1>2, <1>3, <1>4, AtWork, IdleIsRecord, RunStep, SameRegistry
<1> QED
  BY <1>5, SameRegistry DEF IInv

LEMMA EndStep == ASSUME IInv, NEW r \in Runs, End(r) \/ Crash(r) PROVE IInv'
  BY StopStep DEF End, Crash

LEMMA StartTrackStep == ASSUME IInv, NEW r \in Runs, StartTrack(r) PROVE IInv'
<1> DEFINE windows == Reserved(registry, Track(r), TestStarts(Track(r), run[r].market))
           claiming == [run[r] EXCEPT !.pc = "claim", !.windows = windows, !.validated = 0]
           skipping == [run[r] EXCEPT !.k = @ + 1]
<1>0. run[r].pc = "track" /\ ~Past(r)
  BY DEF StartTrack
<1>2. run[r] \in RunRecords /\ RunIsSound(r)
  BY <1>0, AtWork
<1>1. /\ run[r].pc = "track" /\ run[r].k \in Nat /\ Len(TrackOrder) \in Nat
      /\ run[r].k <= Len(TrackOrder)
  BY <1>0, <1>2 DEF Past, RunRecords
<1>3. run[r].market.from \in Sessions /\ run[r].market.to \in Sessions
  BY <1>2 DEF RunRecords, Stretch
<1>4. \A s \in windows : s \in Sessions /\ s + TestSessions - 1 <= run[r].market.to
  <2>1. \A s \in windows :
           /\ s \in run[r].market.from..run[r].market.to
           /\ s + TestSessions - 1 <= run[r].market.to
    BY DEF Reserved, TestStarts
  <2> QED
    BY <1>3, <2>1 DEF Sessions
<1> HIDE DEF windows
<1>5. claiming \in RunRecords /\ skipping \in RunRecords
  <2>1. claiming \in RunRecords
    BY <1>2, <1>4 DEF RunRecords, Waiting
  <2>2. run[r].k + 1 \in 1..(Len(TrackOrder) + 1)
    BY <1>1
  <2> QED
    BY <1>2, <2>1, <2>2 DEF RunRecords
<1>6. CASE windows # {} /\ run' = [run EXCEPT ![r] = claiming]
  <2>1. run'[r] = claiming
    BY <1>1, <1>6, AtWork
  <2>2. RunIsSound(r)' /\ WriteIsSound(r)'
    <3>1. /\ run'[r].pc = "claim" /\ run'[r].windows = windows /\ run'[r].validated = 0
          /\ run'[r].market = run[r].market /\ run'[r].k = run[r].k
      BY <1>2, <2>1 DEF RunRecords
    <3>2. windows # {} /\ 0 <= run[r].market.to
      BY <1>3, <1>6 DEF Sessions
    <3> QED
      BY <1>1, <1>4, <3>1, <3>2 DEF RunIsSound, WriteIsSound
  <2>3. claiming.pc = "claim"
    BY <1>2 DEF RunRecords
  <2> HIDE DEF claiming
  <2>4. TypeOK' /\ LockIsHeld' /\ RunsAreSound'
    BY <1>1, <1>5, <1>6, <2>2, AtWork, RunStep, SameRegistry DEF StartTrack
  <2> QED
    BY <2>4, SameRegistry DEF IInv, StartTrack
<1>7. CASE run' = [run EXCEPT ![r] = skipping]
  <2>1. run'[r] = skipping
    BY <1>1, <1>7, AtWork
  <2>2. RunIsSound(r)' /\ WriteIsSound(r)'
    BY <1>1, <1>2, <2>1 DEF RunIsSound, WriteIsSound, RunRecords
  <2> HIDE DEF skipping
  <2>3. TypeOK' /\ LockIsHeld' /\ RunsAreSound'
    BY <1>1, <1>5, <1>7, <2>2, AtWork, RunStep, SameRegistry DEF StartTrack
  <2> QED
    BY <2>3, SameRegistry DEF IInv, StartTrack
<1>8. \/ windows # {} /\ run' = [run EXCEPT ![r] = claiming]
      \/ run' = [run EXCEPT ![r] = skipping]
  BY <1>1, AtWork DEF StartTrack, windows
<1> QED
  BY <1>6, <1>7, <1>8

\* A process that goes on from one place to another with what it has.
LEMMA GotoStep ==
    ASSUME IInv, NEW r \in Runs, run[r].pc # "idle",
           NEW pc \in Waiting \ {"idle"}, Goto(r, pc), lock' = lock,
           UNCHANGED <<market, rules, registry, evaluated>>,
           pc \in {"claim", "replace", "evaluate"} => run[r].windows # {},
           run[r].k <= Len(TrackOrder), WriteIsSound(r)'
    PROVE  IInv'
<1> DEFINE new == [run[r] EXCEPT !.pc = pc]
<1>1. run[r] \in RunRecords /\ RunIsSound(r)
  BY AtWork
<1>2. new \in RunRecords /\ new.pc = pc
  BY <1>1 DEF RunRecords
<1>3. run' = [run EXCEPT ![r] = new] /\ run'[r] = new
  BY AtWork DEF Goto
<1>4. RunIsSound(r)'
  BY <1>1, <1>2, <1>3 DEF RunIsSound, RunRecords
<1> HIDE DEF new
<1>5. TypeOK' /\ LockIsHeld' /\ RunsAreSound'
  BY <1>2, <1>3, <1>4, AtWork, RunStep, SameRegistry
<1> QED
  BY <1>5, SameRegistry DEF IInv

\* The records after Goto differ in the place only.
LEMMA GotoRecord ==
    ASSUME IInv, NEW r \in Runs, run[r].pc # "idle", NEW pc, Goto(r, pc)
    PROVE  /\ run'[r].pc = pc /\ run'[r].k = run[r].k /\ run'[r].rules = run[r].rules
           /\ run'[r].market = run[r].market /\ run'[r].windows = run[r].windows
           /\ run'[r].validated = run[r].validated
           /\ ForwardClaim(r)' = ForwardClaim(r) /\ Claim(r)' = Claim(r)
<1>1. run[r] \in RunRecords /\ run \in [Runs -> RunRecords]
  BY AtWork
<1>2. /\ run'[r].pc = pc /\ run'[r].k = run[r].k /\ run'[r].rules = run[r].rules
      /\ run'[r].market = run[r].market /\ run'[r].windows = run[r].windows
      /\ run'[r].validated = run[r].validated
  BY <1>1 DEF Goto, RunRecords
<1> QED
  BY <1>2, SameClaims

LEMMA ClaimWindowStep == ASSUME IInv, NEW r \in Runs, ClaimWindow(r) PROVE IInv'
<1>1. run[r].pc = "claim"
  BY DEF ClaimWindow
<1>2. run[r].windows # {} /\ run[r].k <= Len(TrackOrder) /\ registry \in Seq(Entries)
  BY <1>1, AtWork DEF RunIsSound
<1>3. UNCHANGED <<market, rules, registry, evaluated>>
  BY DEF ClaimWindow
<1>4. CASE Known(registry, Claim(r)) /\ Goto(r, "evaluate") /\ lock' = lock
  <2>1. Claim(r)' \in Entries'
    BY <1>1, <1>2, <1>3, <1>4, KnownIsEntry, GotoRecord, SameRegistry
  <2>2. WriteIsSound(r)'
    BY <1>1, <1>4, <2>1, GotoRecord DEF WriteIsSound
  <2> QED
    BY <1>1, <1>2, <1>3, <1>4, <2>2, GotoStep DEF Waiting
<1>5. CASE Stop(r)
  BY <1>1, <1>3, <1>5, StopStep
<1>6. CASE /\ Decisive(registry, Claim(r)) = {}
           /\ temporary' = Append(registry, Claim(r))
           /\ Goto(r, "replace") /\ lock' = lock
  <2>1. Decisive(registry, Claim(r))' = {} /\ temporary' = Append(registry, Claim(r))'
    BY <1>1, <1>3, <1>6, GotoRecord DEF Decisive
  <2>2. WriteIsSound(r)'
    BY <1>1, <1>6, <2>1, GotoRecord DEF WriteIsSound
  <2> QED
    BY <1>1, <1>2, <1>3, <1>6, <2>2, GotoStep DEF Waiting
<1> QED
  BY <1>4, <1>5, <1>6 DEF ClaimWindow

\* The next track: the place and the number of the track change.
LEMMA NextTrackRecord ==
    ASSUME NEW r \in Runs, run \in [Runs -> RunRecords], run[r].k <= Len(TrackOrder),
           run' = [run EXCEPT ![r].pc = "track", ![r].k = @ + 1]
    PROVE  LET new == [run[r] EXCEPT !.pc = "track", !.k = @ + 1]
           IN  new \in RunRecords /\ run' = [run EXCEPT ![r] = new] /\ run'[r] = new
<1> DEFINE new == [run[r] EXCEPT !.pc = "track", !.k = @ + 1]
<1>1. run[r] \in RunRecords
  OBVIOUS
<1>2. Len(TrackOrder) \in Nat
  OBVIOUS
<1>3. run[r].k \in Nat /\ run[r].k + 1 \in 1..(Len(TrackOrder) + 1)
  BY <1>1, <1>2 DEF RunRecords
<1>4. new \in RunRecords
  BY <1>1, <1>3 DEF RunRecords, Waiting
<1>5. run' = [run EXCEPT ![r] = new] /\ run'[r] = new
  OBVIOUS
<1> QED
  BY <1>4, <1>5

LEMMA NextTrackStep ==
    ASSUME IInv, NEW r \in Runs, run[r].pc # "idle",
           run[r].k <= Len(TrackOrder), lock' = lock,
           run' = [run EXCEPT ![r].pc = "track", ![r].k = @ + 1],
           UNCHANGED <<market, rules, registry, evaluated>>
    PROVE  IInv'
<1> DEFINE new == [run[r] EXCEPT !.pc = "track", !.k = @ + 1]
<1>1. new \in RunRecords /\ run' = [run EXCEPT ![r] = new] /\ run'[r] = new
  BY AtWork, NextTrackRecord
<1>2. run[r] \in RunRecords /\ RunIsSound(r)
  BY AtWork
<1>3. /\ run'[r].pc = "track" /\ run'[r].windows = run[r].windows
      /\ run'[r].validated = run[r].validated /\ run'[r].market = run[r].market
  BY <1>1, <1>2 DEF RunRecords
<1>4. RunIsSound(r)' /\ WriteIsSound(r)'
  BY <1>2, <1>3 DEF RunIsSound, WriteIsSound
<1> HIDE DEF new
<1>5. TypeOK' /\ LockIsHeld' /\ RunsAreSound'
  BY <1>1, <1>4, AtWork, RunStep, SameRegistry
<1> QED
  BY <1>5, SameRegistry DEF IInv

LEMMA ClaimForwardStep == ASSUME IInv, NEW r \in Runs, ClaimForward(r) PROVE IInv'
<1>1. run[r].pc = "freeze"
  BY DEF ClaimForward
<1>2. run[r].k <= Len(TrackOrder) /\ registry \in Seq(Entries)
  BY <1>1, AtWork DEF RunIsSound
<1>3. UNCHANGED <<market, rules, registry, evaluated>>
  BY DEF ClaimForward
<1>4. CASE run' = [run EXCEPT ![r].pc = "track", ![r].k = @ + 1] /\ lock' = lock
  BY <1>1, <1>2, <1>3, <1>4, NextTrackStep
<1>5. CASE Stop(r)
  BY <1>1, <1>3, <1>5, StopStep
<1>6. CASE /\ Decisive(registry, ForwardClaim(r)) = {}
           /\ temporary' = Append(registry, ForwardClaim(r))
           /\ Goto(r, "replace_forward") /\ lock' = lock
  <2>1. /\ Decisive(registry, ForwardClaim(r))' = {}
        /\ temporary' = Append(registry, ForwardClaim(r))'
    BY <1>1, <1>3, <1>6, GotoRecord DEF Decisive
  <2>2. WriteIsSound(r)'
    BY <1>1, <1>6, <2>1, GotoRecord DEF WriteIsSound
  <2> QED
    BY <1>1, <1>2, <1>3, <1>6, <2>2, GotoStep DEF Waiting
<1> QED
  BY <1>4, <1>5, <1>6 DEF ClaimForward

LEMMA ReadActivationStep == ASSUME IInv, NEW r \in Runs, ReadActivation(r) PROVE IInv'
<1>1. run[r].pc = "activation" /\ lock' = lock
      /\ UNCHANGED <<market, rules, registry, evaluated>>
  BY DEF ReadActivation
<1>2. run[r].k <= Len(TrackOrder)
  BY <1>1, AtWork DEF RunIsSound
<1>3. CASE run' = [run EXCEPT ![r].pc = "track", ![r].k = @ + 1]
  BY <1>1, <1>2, <1>3, NextTrackStep
<1>4. CASE Goto(r, "freeze")
  <2>1. WriteIsSound(r)'
    BY <1>1, <1>4, GotoRecord DEF WriteIsSound
  <2> QED
    BY <1>1, <1>2, <1>4, <2>1, GotoStep DEF Waiting
<1> QED
  BY <1>3, <1>4 DEF ReadActivation

\* The window that is simulated leaves the list, and its end is noted.
LEMMA EvaluateStep == ASSUME IInv, NEW r \in Runs, Evaluate(r) PROVE IInv'
<1> DEFINE rest == run[r].windows \ {Min(run[r].windows)}
           new == [run[r] EXCEPT !.windows = rest, !.validated = Claim(r).to,
                                 !.pc = IF rest = {} THEN "activation" ELSE "claim"]
<1>1. /\ run[r].pc = "evaluate" /\ evaluated' = evaluated \cup {Claim(r)}
      /\ run' = [run EXCEPT ![r].windows = rest, ![r].validated = Claim(r).to,
                            ![r].pc = IF rest = {} THEN "activation" ELSE "claim"]
      /\ UNCHANGED <<market, rules, registry, temporary, lock>>
  BY DEF Evaluate
<1>2. /\ run[r] \in RunRecords /\ RunIsSound(r) /\ run \in [Runs -> RunRecords] /\ TypeOK
      /\ Claim(r) \in Entries /\ run[r].windows # {} /\ run[r].k <= Len(TrackOrder)
  BY <1>1, AtWork DEF WriteIsSound, RunIsSound
<1>3. /\ Claim(r).to \in Nat /\ Claim(r).to <= run[r].market.to
      /\ ~IsForward(Claim(r)) /\ rest \subseteq run[r].windows
  BY <1>2, ClaimsAreWellFormed
<1> HIDE DEF rest
<1>4. new \in RunRecords
  BY <1>2, <1>3 DEF RunRecords, Waiting
<1>5. run' = [run EXCEPT ![r] = new] /\ run'[r] = new
  BY <1>1, <1>2
<1>6. /\ run'[r].windows = rest /\ run'[r].validated = Claim(r).to
      /\ run'[r].market = run[r].market /\ run'[r].k = run[r].k
      /\ run'[r].pc = IF rest = {} THEN "activation" ELSE "claim"
  BY <1>2, <1>5 DEF RunRecords
<1>7. RunIsSound(r)' /\ WriteIsSound(r)'
  BY <1>2, <1>3, <1>6 DEF RunIsSound, WriteIsSound
<1>8. lock = r
  BY <1>1, AtWork
<1> HIDE DEF new
<1>9. TypeOK' /\ LockIsHeld' /\ RunsAreSound'
  BY <1>1, <1>4, <1>5, <1>7, <1>8, AtWork, RunStep, SameRegistry
<1>10. EvaluatedIsSound'
  BY <1>1, <1>2, <1>3, SameRegistry DEF EvaluatedIsSound, IInv, IsForward
<1> QED
  BY <1>1, <1>9, <1>10, SameRegistry DEF IInv

LEMMA ReplaceStep == ASSUME IInv, NEW r \in Runs, Replace(r) PROVE IInv'
<1>1. /\ run[r].pc \in {"replace", "replace_forward"}
      /\ registry' = temporary
      /\ UNCHANGED <<market, rules, lock, evaluated>>
  BY DEF Replace
<1>2. /\ run[r] \in RunRecords /\ RunIsSound(r) /\ WriteIsSound(r)
      /\ run \in [Runs -> RunRecords] /\ TypeOK /\ registry \in Seq(Entries)
      /\ run[r].k <= Len(TrackOrder) /\ lock = r
      /\ \A q \in Runs \ {r} : run[q].pc = "idle"
      /\ RegistryIsSound /\ EvaluatedIsSound
  BY <1>1, AtWork DEF RunIsSound, IInv
<1>3. CASE run[r].pc = "replace" /\ Goto(r, "evaluate")
  <2> DEFINE new == [run[r] EXCEPT !.pc = "evaluate"]
  <2>1. /\ run[r].windows # {} /\ registry' = Append(registry, Claim(r))
        /\ Decisive(registry, Claim(r)) = {}
    BY <1>1, <1>2, <1>3 DEF RunIsSound, WriteIsSound
  <2>2. /\ Entries' = Entries \cup {Claim(r)} /\ registry' \in Seq(Entries')
        /\ RegistryIsSound'
    BY <1>2, <2>1, ClaimsAreWellFormed, RegistryGrows
  <2>3. /\ run'[r].pc = "evaluate" /\ Claim(r)' = Claim(r)
        /\ run'[r].windows = run[r].windows /\ run'[r].validated = run[r].validated
        /\ run'[r].market = run[r].market /\ run'[r].k = run[r].k
    BY <1>3, GotoRecord
  <2>4. RunIsSound(r)' /\ WriteIsSound(r)'
    BY <1>2, <2>1, <2>2, <2>3 DEF RunIsSound, WriteIsSound
  <2>5. new \in RunRecords /\ run' = [run EXCEPT ![r] = new]
    BY <1>2, <1>3 DEF RunRecords, Waiting, Goto
  <2> HIDE DEF new
  <2>6. TypeOK' /\ LockIsHeld' /\ RunsAreSound'
    BY <1>1, <1>2, <2>2, <2>4, <2>5, RunStep
  <2> QED
    BY <1>1, <1>2, <2>2, <2>6 DEF IInv, EvaluatedIsSound, IsForward
<1>4. CASE /\ run[r].pc = "replace_forward"
           /\ run' = [run EXCEPT ![r].pc = "track", ![r].k = @ + 1]
  <2> DEFINE new == [run[r] EXCEPT !.pc = "track", !.k = @ + 1]
  <2>1. /\ registry' = Append(registry, ForwardClaim(r))
        /\ Decisive(registry, ForwardClaim(r)) = {}
    BY <1>1, <1>2, <1>4 DEF WriteIsSound
  <2>2. /\ Entries' = Entries \cup {ForwardClaim(r)} /\ registry' \in Seq(Entries')
        /\ RegistryIsSound'
    BY <1>2, <2>1, ForwardClaimsAreWellFormed, RegistryGrows
  <2>3. new \in RunRecords /\ run' = [run EXCEPT ![r] = new] /\ run'[r] = new
    BY <1>2, <1>4, NextTrackRecord
  <2>4. /\ run'[r].pc = "track" /\ run'[r].windows = run[r].windows
        /\ run'[r].validated = run[r].validated /\ run'[r].market = run[r].market
    BY <1>2, <2>3 DEF RunRecords
  <2>5. RunIsSound(r)' /\ WriteIsSound(r)'
    BY <1>2, <2>4 DEF RunIsSound, WriteIsSound
  <2> HIDE DEF new
  <2>6. TypeOK' /\ LockIsHeld' /\ RunsAreSound'
    BY <1>1, <1>2, <2>2, <2>3, <2>5, RunStep
  <2> QED
    BY <1>1, <1>2, <2>2, <2>6 DEF IInv, EvaluatedIsSound, IsForward
<1> QED
  BY <1>3, <1>4 DEF Replace

\* The data and the code: a run keeps what it has loaded.
LEMMA ChangesStep ==
    ASSUME IInv,
           \/ NewSession
           \/ \E s \in Sessions : Revise(s)
           \/ \E from, to \in Sessions : Requalify(from, to)
           \/ \E track \in Tracks : ChangeRule(track)
    PROVE  IInv'
<1>1. UNCHANGED <<registry, temporary, lock, run, evaluated>>
  BY DEF NewSession, Revise, Requalify, ChangeRule
<1>2. market \in Stretch /\ rules \in [Tracks -> Nat \ {0}]
  BY DEF IInv, TypeOK
<1>3. market' \in Stretch /\ rules' \in [Tracks -> Nat \ {0}]
  <2>1. CASE NewSession
    <3>1. market' = [market EXCEPT !.to = @ + 1] /\ rules' = rules
          /\ market.to < LastSession
      BY <2>1 DEF NewSession
    <3>2. market.to + 1 \in Sessions /\ market.from <= market.to + 1
      BY <3>1, <1>2 DEF Stretch, Sessions
    <3> QED
      BY <3>1, <3>2, <1>2 DEF Stretch
  <2>2. ASSUME NEW s \in Sessions, Revise(s)
        PROVE  market' \in Stretch /\ rules' \in [Tracks -> Nat \ {0}]
    <3>1. market' = [market EXCEPT !.revised = @ \cup {s}] /\ rules' = rules
      BY <2>2 DEF Revise
    <3> QED
      BY <3>1, <1>2 DEF Stretch
  <2>3. ASSUME NEW from \in Sessions, NEW to \in Sessions, Requalify(from, to)
        PROVE  market' \in Stretch /\ rules' \in [Tracks -> Nat \ {0}]
    <3>1. /\ market' = [market EXCEPT !.from = from, !.to = to, !.universe = @ + 1]
          /\ rules' = rules /\ from <= to
      BY <2>3 DEF Requalify
    <3>2. market.universe + 1 \in Nat \ {0}
      BY <1>2 DEF Stretch
    <3> QED
      BY <3>1, <3>2, <1>2 DEF Stretch
  <2>4. ASSUME NEW track \in Tracks, ChangeRule(track)
        PROVE  market' \in Stretch /\ rules' \in [Tracks -> Nat \ {0}]
    <3>1. market' = market /\ rules' = [rules EXCEPT ![track] = @ + 1]
      BY <2>4 DEF ChangeRule
    <3> QED
      BY <3>1, <1>2
  <2> QED
    BY <2>1, <2>2, <2>3, <2>4
<1>5. TypeOK'
  BY <1>1, <1>3 DEF IInv, TypeOK, Entries
<1>6. LockIsHeld' /\ RunsAreSound'
  BY <1>1 DEF IInv, LockIsHeld, RunsAreSound, RunIsSound, WriteIsSound, Entries, Decisive,
             Claim, ForwardClaim, Track, Rule
<1> QED
  BY <1>1, <1>5, <1>6, SameRegistry DEF IInv

LEMMA InvStep == IInv /\ [Next]_vars => IInv'
<1> SUFFICES ASSUME IInv, [Next]_vars PROVE IInv'
  OBVIOUS
<1>1. ASSUME NEW r \in Runs,
             \/ Begin(r) \/ StartTrack(r) \/ ClaimWindow(r) \/ Replace(r)
             \/ Evaluate(r) \/ ReadActivation(r) \/ ClaimForward(r)
             \/ End(r) \/ Crash(r)
      PROVE  IInv'
  BY <1>1, BeginStep, StartTrackStep, ClaimWindowStep, ReplaceStep, EvaluateStep,
     ReadActivationStep, ClaimForwardStep, EndStep
<1>2. CASE UNCHANGED vars
  <2>1. UNCHANGED <<market, rules, registry, temporary, lock, run, evaluated>>
    BY <1>2 DEF vars
  <2>2. TypeOK'
    BY <2>1 DEF IInv, TypeOK, Entries
  <2>3. LockIsHeld' /\ RunsAreSound'
    BY <2>1 DEF IInv, LockIsHeld, RunsAreSound, RunIsSound, WriteIsSound, Entries, Decisive,
               Claim, ForwardClaim, Track, Rule
  <2> QED
    BY <2>1, <2>2, <2>3, SameRegistry DEF IInv
<1> QED
  BY <1>1, <1>2, ChangesStep DEF Next

THEOREM Invariance == Spec => []IInv
  BY InitInv, InvStep, PTL DEF Spec

-----------------------------------------------------------------------------
(* What the registry is for. *)

\* Every variable keeps its type (validation_registry, backtest_service).
THEOREM TypeCorrect == Spec => []TypeOK
<1>1. IInv => TypeOK
  BY DEF IInv
<1> QED
  BY <1>1, Invariance, PTL

\* No window is simulated without a claim that stays, whichever process dies
\* at whatever step (claim_validation_window before the simulator).
THEOREM NothingIsSeenUnclaimed == Spec => []EvaluatedIsRegistered
<1>1. IInv => EvaluatedIsRegistered
  BY DEF IInv, EvaluatedIsSound, EvaluatedIsRegistered
<1> QED
  BY <1>1, Invariance, PTL

\* Two rules of a track are never judged on a common session, for every length
\* of windows and every change of prices and symbols (claim_validation_window).
THEOREM RulesDoNotShareWindows == Spec => []OneRulePerWindow
<1>1. IInv => OneRulePerWindow
  BY DEF IInv, EvaluatedIsSound, RegistryIsSound, OneRulePerClaim, OneRulePerWindow, Entries
<1> QED
  BY <1>1, Invariance, PTL

\* A forward period begins behind all prices its run has loaded, once for a
\* track, and no later claim reaches it (claim_forward_period).
THEOREM ForwardPeriodIsUnseen == Spec => []ForwardStaysUnseen
<1>1. ASSUME IInv, NEW r \in Runs, run[r].pc = "replace_forward"
      PROVE  temporary[Len(temporary)].from > run[r].market.to
  <2>1. temporary = Append(registry, ForwardClaim(r)) /\ registry \in Seq(Entries)
    BY <1>1 DEF IInv, TypeOK, RunsAreSound, WriteIsSound
  <2>2. temporary[Len(temporary)] = ForwardClaim(r)
    BY <2>1
  <2>3. ForwardClaim(r).from = run[r].market.to + 1
    BY DEF ForwardClaim
  <2>4. run[r].market.to \in Int
    BY <1>1 DEF IInv, TypeOK, Stretch, Sessions
  <2> QED
    BY <2>2, <2>3, <2>4
<1>2. IInv => ForwardStaysUnseen
  BY <1>1 DEF IInv, RegistryIsSound, ForwardStaysUnseen
<1> QED
  BY <1>2, Invariance, PTL

=============================================================================
