------------------------------ MODULE MarginRisk ------------------------------
(***************************************************************************)
(* What the code says of a margin trade before it happens: whether the     *)
(* data of the provider are ready (src/app/analysis/trade_modes.py), what  *)
(* the analysis card finds (margin_risk.py) and which mode the comparison  *)
(* of the three selects (mode_selection.py).  A number that is not known   *)
(* is Unknown, and a mode whose facts are not known is never turned into   *)
(* one that may trade.                                                     *)
(***************************************************************************)
EXTENDS Integers, FiniteSets, Functions

CONSTANTS
    Policy,         \* thresholds of MarginRiskPolicy
    Selection       \* AutoSelectPolicy

\* A value the provider or the analysis does not give; no quantity takes it.
Unknown == -1

\* Thresholds are ordered as validate_threshold_order asks.
ValidRiskPolicy ==
    /\ Policy.atr.block > Policy.atr.warn /\ Policy.gap.block > Policy.gap.warn
    /\ Policy.event.block <= Policy.event.warn
    /\ Policy.headroom.block <= Policy.headroom.warn
    /\ Policy.crowding.block > Policy.crowding.warn
    /\ Policy.squeeze.block < Policy.squeeze.warn
    /\ Policy.growth.block > Policy.growth.warn
    /\ Policy.cost.block > Policy.cost.warn
    /\ Policy.age \in Nat \ {0}
    /\ {Policy.value, Policy.event.block} \subseteq Nat

\* AutoSelectPolicy: every mode has one place in the order of ties.
ValidSelection ==
    /\ Selection.risk \in {"low", "moderate", "high"}
    /\ {Selection.order[m] : m \in {"cash", "margin_long", "margin_short"}} = 1..3

ASSUME PoliciesAssumption == ValidRiskPolicy /\ ValidSelection

\* A record as the provider may publish it: fetched when it was available, and
\* with rates of margin that are parts of the whole.
IsSnapshot(s, whole) ==
    /\ s.market \in {"jp", "us"}
    /\ {s.longEligible, s.shortEligible} \subseteq {"yes", "no", "unknown"}
    /\ s.short \in {"available", "limited", "unavailable", "unknown",
                   "not_applicable"}
    /\ s.quality \in {"verified", "partial", "stale", "unavailable", "synthetic"}
    /\ {s.initial, s.maintenance} \subseteq {Unknown} \cup 0..whole
    /\ {s.minimum, s.interest, s.lending, s.borrow, s.reverse, s.ratio, s.balance}
         \subseteq {Unknown} \cup Nat
    /\ s.term = Unknown \/ s.term > 0
    /\ {s.available, s.fetched, s.from} \subseteq Nat
    /\ s.until \in {Unknown} \cup Nat
    /\ s.until # Unknown => s.until > s.from
    /\ s.fetched >= s.available

\* What the analysis is given: a margin mode, and data of its own time at most.
IsAnalysisInput(i, asOf) ==
    /\ i.mode \in {"margin_long", "margin_short"}
    /\ i.dataAt <= asOf
    /\ {i.volume, i.value, i.atr, i.gap, i.level, i.reward, i.event}
         \subseteq {Unknown} \cup Nat
    /\ i.holding > 0
    /\ i.profile \in {"not_applicable", "standard", "leveraged", "inverse"}

\* An option of the comparison is not approved unless it asks for a review.
IsOption(c) ==
    /\ c.mode \in {"cash", "margin_long", "margin_short"}
    /\ c.score \in 0..100 /\ c.reward > 0
    /\ c.approved => c.review

-----------------------------------------------------------------------------
(* Readiness of the data. *)

\* A faulty variant: an expired or stale snapshot still counts.
TimeReasonsAnyAge(s, asOf) ==
    {r \in {"not_available", "fetched_after"} :
        IF r = "not_available" THEN s.available > asOf ELSE s.fetched > asOf}

\* Why a record cannot be used at a decision.
TimeReasons(s, asOf) ==
    {r \in {"not_available", "fetched_after", "not_effective", "expired",
            "stale", "quality"} :
        CASE r = "not_available" -> s.available > asOf
          [] r = "fetched_after" -> s.fetched > asOf
          [] r = "not_effective" -> s.from > asOf
          [] r = "expired" -> s.until # Unknown /\ asOf >= s.until
          [] r = "stale" -> asOf - s.available > Policy.age
          [] r = "quality" -> s.quality \in {"stale", "unavailable", "synthetic"}}

\* The fields a mode cannot do without, and those the record lacks.
NeededFields(mode, s) ==
    {"initial", "maintenance", "term"}
      \cup IF mode = "margin_long" THEN {"interest"}
           ELSE {"lending"} \cup IF s.market = "us" THEN {"borrow"} ELSE {}

MissingFields(mode, s) == {f \in NeededFields(mode, s) : s[f] = Unknown}

EligibleFlag(mode, s) ==
    IF mode = "margin_long" THEN s.longEligible ELSE s.shortEligible

OtherReasons(mode, s) ==
    MissingFields(mode, s)
      \cup (IF EligibleFlag(mode, s) = "unknown" THEN {"eligibility"} ELSE {})
      \cup (IF mode = "margin_short" /\ s.short \notin {"available", "limited"}
            THEN {"inventory"} ELSE {})

\* assess_trade_mode_data for the margin modes; <<>> is no record at all.
Eligibility(mode, s, asOf) ==
    CASE s = <<>> -> "insufficient_data"
      [] s # <<>> /\ EligibleFlag(mode, s) = "no" /\ TimeReasons(s, asOf) = {} ->
            "not_eligible"
      [] OTHER -> IF TimeReasons(s, asOf) \cup OtherReasons(mode, s) = {}
                  THEN "eligible" ELSE "insufficient_data"

-----------------------------------------------------------------------------
(* The findings of a card. *)

Grades == {"pass", "warn", "block"}

\* The more the worse, the less the worse, and a floor.
Rising(v, limit) ==
    CASE v >= limit.block -> "block"
      [] v < limit.block /\ v >= limit.warn -> "warn"
      [] OTHER -> "pass"
Falling(v, limit) ==
    CASE v <= limit.block -> "block"
      [] v > limit.block /\ v <= limit.warn -> "warn"
      [] OTHER -> "pass"
Floor(v, least) == IF v < least THEN "block" ELSE "pass"

Known(v, grade, otherwise) == IF v = Unknown THEN otherwise ELSE grade

\* What the analysis must know of the market, and of the risk ahead.
MarketGrades(i) ==
    [ volume   |-> Known(i.volume, IF i.volume < Policy.volume THEN "warn" ELSE "pass", "block"),
      value    |-> Known(i.value, Floor(i.value, Policy.value), "block"),
      reward   |-> Known(i.reward, Floor(i.reward, Policy.reward), "block") ]

RiskGrades(i) ==
    [ event    |-> Known(i.event, Falling(i.event, Policy.event), "block"),
      atr      |-> Known(i.atr, Rising(i.atr, Policy.atr), "block"),
      gap      |-> Known(i.gap, Rising(i.gap, Policy.gap), "block"),
      headroom |-> Known(i.headroom, Falling(i.headroom, Policy.headroom), "block") ]

\* What speaks for and against the direction.
DirectionGrades(i) ==
    LET long == i.mode = "margin_long"
    IN  [ trend  |-> IF i.trend = (IF long THEN "up" ELSE "down") THEN "pass" ELSE "block",
          regime |-> IF i.regime = (IF long THEN "bullish" ELSE "bearish")
                     THEN "pass" ELSE "warn",
          level  |-> Known(i.level, IF i.level <= Policy.level THEN "pass" ELSE "warn", "warn") ]

\* How many others hold the same position, and how fast they come.
CrowdGrade(i, s) ==
    Known(s.ratio, IF i.mode = "margin_long" THEN Rising(s.ratio, Policy.crowding)
                   ELSE Falling(s.ratio, Policy.squeeze), "warn")

BalanceGrades(i, s) ==
    [ balance |-> IF s.balance = Unknown THEN "warn" ELSE "pass",
      growth  |-> Known(i.growth, Rising(i.growth, Policy.growth), "warn") ]

\* The cost of a year; costs that are not known are left out of the sum.
AnnualCost(mode, s) ==
    IF mode = "margin_long" THEN s.interest
    ELSE (IF s.lending = Unknown THEN 0 ELSE s.lending)
           + (IF s.borrow = Unknown THEN 0 ELSE s.borrow)

\* Financing and the repayment term.
TermGrades(i, s) ==
    [ term    |-> CASE i.holding >= s.term -> "block"
                    [] i.holding < s.term /\ i.holding * 2 >= s.term -> "warn"
                    [] OTHER -> "pass",
      cost    |-> Rising(AnnualCost(i.mode, s), Policy.cost),
      reverse |-> IF i.mode = "margin_short" /\ s.reverse > 0 THEN "warn" ELSE "pass" ]

\* What the record and the analysis carry beside.
QualityGrades(i, s) ==
    [ partial |-> IF s.quality = "partial" THEN "warn" ELSE "pass",
      limited |-> IF i.mode = "margin_short" /\ s.short = "limited" THEN "warn" ELSE "pass",
      upstream |-> IF i.upstream THEN "warn" ELSE "pass" ]

\* The restrictions that prohibit a candidate of the mode; any other, mapped
\* or not, asks for a review.
HardRestrictions(mode) ==
    {"trading_halt", "new_margin_positions_suspended", "margin_trading_suspended"}
      \cup IF mode = "margin_long" THEN {"margin_long_suspended"}
           ELSE {"margin_short_suspended", "short_sale_prohibited"}

RestrictionGrade(mode, code) == IF code \in HardRestrictions(mode) THEN "block" ELSE "warn"

Leveraged(i) == i.profile \in {"leveraged", "inverse"}

\* The grades of a card other than those a leveraged fund adds.
CardGrades(i, s) ==
    Range(MarketGrades(i)) \cup Range(RiskGrades(i)) \cup Range(DirectionGrades(i))
      \cup {CrowdGrade(i, s)} \cup Range(BalanceGrades(i, s))
      \cup Range(TermGrades(i, s)) \cup Range(QualityGrades(i, s))
      \cup {RestrictionGrade(i.mode, r) : r \in s.restrictions}

\* build_margin_analysis_card: a record that is not ready is not analysed.
CardStatus(i, eligibility, grades) ==
    CASE eligibility # "eligible" -> eligibility
      [] eligibility = "eligible" /\ "block" \in grades -> "blocked"
      [] eligibility = "eligible" /\ "block" \notin grades
           /\ ("warn" \in grades \/ Leveraged(i)) -> "warning"
      [] OTHER -> "candidate"

\* _risk_level: moderate, high, very high, and 4 for blocked.
RiskLevel(i, eligibility, grades) ==
    IF eligibility # "eligible" \/ "block" \in grades THEN 4
    ELSE 1 + (IF "warn" \in grades THEN 1 ELSE 0) + (IF Leveraged(i) THEN 1 ELSE 0)

\* The card as the account sees it.
Card(i, s, asOf) ==
    LET eligibility == Eligibility(i.mode, s, asOf)
        grades == CardGrades(i, s)
        level == RiskLevel(i, eligibility, grades)
    IN  [status |-> CardStatus(i, eligibility, grades), level |-> level,
         hard |-> level = 4, late |-> i.dataAt > asOf]

-----------------------------------------------------------------------------
(* The comparison of the modes. *)

RiskRank == [low |-> 0, moderate |-> 1, high |-> 2, blocked |-> 3]

\* _candidate_rejections is empty.
Accepted(c, asOf) ==
    /\ c.reasons = {}
    /\ c.dataAt <= asOf
    /\ c.eligibility = "eligible"
    /\ c.status \in {"candidate", "warning"}
    /\ c.risk # "blocked" /\ RiskRank[c.risk] <= RiskRank[Selection.risk]
    /\ c.score >= Selection.score
    /\ c.reward >= Selection.reward
    /\ c.review => c.approved

\* The higher score, then the better reward, the lower risk, the order of ties.
Better(a, b) ==
    \/ a.score > b.score
    \/ a.score = b.score /\ a.reward > b.reward
    \/ a.score = b.score /\ a.reward = b.reward /\ RiskRank[a.risk] < RiskRank[b.risk]
    \/ /\ a.score = b.score /\ a.reward = b.reward /\ a.risk = b.risk
       /\ Selection.order[a.mode] < Selection.order[b.mode]

\* select_trade_mode over one candidate of each mode.
SelectedMode(candidates, asOf) ==
    LET accepted == {c \in candidates : Accepted(c, asOf)}
    IN  IF accepted = {} THEN "none"
        ELSE (CHOOSE c \in accepted : \A d \in accepted \ {c} : Better(c, d)).mode
===============================================================================
