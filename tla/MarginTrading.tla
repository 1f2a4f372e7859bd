---------------------------- MODULE MarginTrading ----------------------------
(***************************************************************************)
(* The decision and the account together: a candidate of the automatic     *)
(* series carries the three options that were compared, the analysis card  *)
(* and the terms of the selected mode, frozen when it was decided, and the *)
(* account of MarginAccount opens it at the next session or refuses it.    *)
(***************************************************************************)
EXTENDS MarginAccount, MarginRisk

\* margin_position_terms_from_snapshot refuses a record that lacks a field.
CanFormTerms(mode, s) ==
    /\ s # <<>>
    /\ \A f \in {"initial", "maintenance", "minimum", "term"} : s[f] # Unknown
    /\ s.rule
    /\ s.initial >= s.maintenance
    /\ mode = "margin_long" => s.interest # Unknown
    /\ mode = "margin_short" =>
          /\ s.lending # Unknown
          /\ IF s.market = "us" THEN s.borrow # Unknown ELSE s.reverse # Unknown

\* The terms it freezes are those of the record, from when to when it is in
\* force and when it was known included; a record without an end has the end 0.
\* Cash needs no record: its terms are made at the decision.
TermsOf(mode, s, asOf) ==
    IF mode = "cash"
    THEN [mode |-> mode, initial |-> Base, maintenance |-> 0, minimum |-> 0,
          rate |-> 0, reverse |-> 0, term |-> 0, from |-> asOf, until |-> 0,
          known |-> asOf]
    ELSE [mode |-> mode, initial |-> s.initial, maintenance |-> s.maintenance,
          minimum |-> s.minimum, rate |-> AnnualCost(mode, s),
          reverse |-> IF mode = "margin_short" /\ s.market = "jp" THEN s.reverse ELSE 0,
          term |-> s.term, from |-> s.from,
          until |-> IF s.until = Unknown THEN 0 ELSE s.until, known |-> s.fetched]

\* simulate_auto_select_portfolio: the candidate is the one that was selected
\* at the time of the decision, and its card is the one that was compared.
IsSelected(c, asOf) ==
    LET mode == c.terms.mode
    IN  /\ \A o \in c.options : IsOption(o)
        /\ Cardinality(c.options) = 3
        /\ mode = SelectedMode(c.options, asOf)
        /\ c.terms = TermsOf(mode, c.snapshot, asOf)
        /\ mode \in Margin =>
              /\ c.inputs.mode = mode
              /\ IsAnalysisInput(c.inputs, asOf)
              /\ IsSnapshot(c.snapshot, Base)
              /\ CanFormTerms(mode, c.snapshot)
              /\ c.card = Card(c.inputs, c.snapshot, asOf)

\* A candidate is decided lag days before the session that may open it.
ASSUME SelectedAssumption ==
    \A dates \in Calendars : \A n \in DOMAIN dates : \A d \in Days[dates][n] :
        \A i \in DOMAIN d.entries :
            IsSelected(d.entries[i], dates[n] - d.entries[i].lag)

-----------------------------------------------------------------------------
\* The record was known when the candidate was decided, in force and not old.
InForce(s, asOf) ==
    /\ s.fetched <= asOf /\ asOf - s.available <= Policy.age
    /\ s.from <= asOf
    /\ s.until # Unknown => asOf < s.until
    /\ s.quality \in {"verified", "partial"}

\* It says yes to the mode and knows its costs and its term, with a confirmed
\* inventory for a short.
SaysYes(mode, s) ==
    /\ EligibleFlag(mode, s) = "yes"
    /\ \A f \in NeededFields(mode, s) : s[f] # Unknown
    /\ mode = "margin_short" => s.short \in {"available", "limited"}

\* docs/23_margin_trading.md sections 2, 5 and 9, across the record, the card,
\* the comparison, the terms and the account: however many days after the
\* decision a margin position is opened, it is opened only on a record that was
\* known and in force at the decision and not too old then, that says yes, with
\* no prohibition, enough liquidity and no event ahead; and a fund with a
\* leverage of its own, or a short whose inventory is limited, only after a
\* review.
OpenedOnFacts ==
    [][Enter =>
        LET c == day.entries[at]
            s == c.snapshot
            mode == c.terms.mode
        IN  mode \in Margin =>
                /\ InForce(s, Decided(c))
                /\ SaysYes(mode, s)
                /\ s.restrictions \cap HardRestrictions(mode) = {}
                /\ c.inputs.value >= Policy.value
                /\ c.inputs.event > Policy.event.block
                /\ Leveraged(c.inputs) => c.approved
                /\ mode = "margin_short" /\ s.short = "limited" => c.approved]_vars

=============================================================================
