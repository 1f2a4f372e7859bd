--------------------------- MODULE MCMarginAccount ---------------------------
(* One asset bought with cash or on margin and one sold short, a few bars of *)
(* each and one thing out of the ordinary in a run; in a run of one session, *)
(* two days after the decision, records of the provider that are ready, that *)
(* are not, or that change in between.                                       *)
EXTENDS MarginTrading

CONSTANTS x, y

MCSymbols == {x, y}
MCModes == {"cash", "margin_long", "margin_short"}
MCCalendars == {<<12>>, <<11, 12, 15>>, <<11, 14, 15>>}

Limit(warn, block) == [warn |-> warn, block |-> block]
MCPolicy ==
    [age |-> 7, volume |-> 10, value |-> 50, reward |-> 15, event |-> Limit(5, 2),
     atr |-> Limit(6, 12), gap |-> Limit(4, 8), headroom |-> Limit(5, 0),
     crowding |-> Limit(50, 100), squeeze |-> Limit(5, 2), growth |-> Limit(25, 50),
     cost |-> Limit(3, 5), level |-> 3]
MCSelection ==
    [score |-> 60, reward |-> 15, risk |-> "high",
     order |-> [cash |-> 1, margin_long |-> 2, margin_short |-> 3]]

\* What the provider publishes of an asset and what the analysis knows of it.
Record ==
    [market |-> "jp", longEligible |-> "yes", shortEligible |-> "yes",
     short |-> "available", restrictions |-> {}, initial |-> 6, maintenance |-> 4,
     minimum |-> 0, rule |-> TRUE, term |-> 5, interest |-> 1, lending |-> 1,
     borrow |-> Unknown, reverse |-> 0, ratio |-> 20, balance |-> 1,
     available |-> 9, fetched |-> 9, from |-> 9, until |-> Unknown,
     quality |-> "verified"]
ShortRecord == [Record EXCEPT !.term = 4, !.minimum = 60, !.reverse = 40]

Inputs(mode, profile) ==
    [mode |-> mode, dataAt |-> 10, trend |-> IF mode = "margin_long" THEN "up" ELSE "down",
     regime |-> IF mode = "margin_long" THEN "bullish" ELSE "bearish",
     volume |-> 12, value |-> 50, reward |-> 20, event |-> 9, atr |-> 1, gap |-> 1,
     headroom |-> 9, level |-> 1, growth |-> 0, holding |-> 1, upstream |-> FALSE,
     profile |-> profile]

\* The three options of a decision; review is what the comparison was told.
Compared(mode, i, s, score, review, card, asOf) ==
    [mode |-> mode, dataAt |-> i.dataAt, eligibility |-> Eligibility(mode, s, asOf),
     status |-> card.status,
     risk |-> CASE card.level = 4 -> "blocked" [] card.level = 1 -> "moderate"
                [] OTHER -> "high",
     score |-> score, reward |-> 20, reasons |-> {},
     review |-> card.status = "warning",
     approved |-> review /\ card.status = "warning"]
Option(mode, i, s, score, review, asOf) ==
    Compared(mode, i, s, score, review, Card([i EXCEPT !.mode = mode], s, asOf), asOf)
CashOption(score) ==
    [mode |-> "cash", dataAt |-> 10, eligibility |-> "eligible", status |-> "candidate",
     risk |-> "low", score |-> score, reward |-> 20, reasons |-> {}, review |-> FALSE,
     approved |-> FALSE]
Options(i, s, cash, review, asOf) ==
    {CashOption(cash)}
    \cup {Option(mode, i, s, 80, review, asOf) : mode \in {"margin_long", "margin_short"}}

\* The candidate of a decision that selected a mode, lag days after it.
CashCard == [status |-> "candidate", hard |-> FALSE, late |-> FALSE, level |-> 1]
ForMode(s, i, record, approved, options, mode, asOf, lag) ==
    [symbol |-> s, terms |-> TermsOf(mode, record, asOf), lag |-> lag,
     stop |-> IF mode = "margin_short" THEN 12 ELSE 8,
     take |-> IF mode = "margin_short" THEN 7 ELSE 13,
     volume |-> 8, requested |-> 0, approved |-> approved,
     card |-> IF mode = "cash" THEN CashCard ELSE Card(i, record, asOf),
     sector |-> "sector", group |-> s, inputs |-> i, snapshot |-> record,
     options |-> options]
OfComparison(s, i, record, approved, options, asOf, lag) ==
    ForMode(s, i, record, approved, options, SelectedMode(options, asOf), asOf, lag)
Candidate(s, i, record, cash, approved, asOf, lag) ==
    OfComparison(s, i, record, approved, Options(i, record, cash, TRUE, asOf), asOf, lag)

Up == Inputs("margin_long", "not_applicable")
Down == Inputs("margin_short", "not_applicable")
\* What the session of a date may be asked to open, decided the day before.
Orders(date) ==
    LET asOf == date - 1
        BuyX == Candidate(x, Up, Record, 70, TRUE, asOf, 1)
        CashX == Candidate(x, Up, <<>>, 70, TRUE, asOf, 1)
        SellY == Candidate(y, Down, ShortRecord, 70, TRUE, asOf, 1)
    IN {<<>>, <<BuyX, SellY>>, <<SellY, BuyX>>, <<CashX, SellY>>}

\* Records and inputs that are not in order, each of which is a decision, and
\* records that end, begin or come to be known before the session.
OddRecords ==
    {[Record EXCEPT !.available = 2, !.fetched = 2, !.from = 2],
     [Record EXCEPT !.available = 3, !.fetched = 3, !.from = 3],
     [Record EXCEPT !.fetched = 11], [Record EXCEPT !.from = 11],
     [Record EXCEPT !.until = 10], [Record EXCEPT !.until = 11],
     [Record EXCEPT !.interest = Unknown], [Record EXCEPT !.longEligible = "unknown"],
     [Record EXCEPT !.longEligible = "no"], [Record EXCEPT !.quality = "synthetic"],
     [Record EXCEPT !.restrictions = {"trading_halt"}],
     [Record EXCEPT !.restrictions = {"increased_margin_requirement"}],
     [Record EXCEPT !.interest = 4], [Record EXCEPT !.ratio = 100]}
OddInputs ==
    {[Up EXCEPT !.value = 49], [Up EXCEPT !.event = 2], [Up EXCEPT !.event = Unknown],
     [Up EXCEPT !.atr = 12], [Up EXCEPT !.regime = "bearish"],
     Inputs("margin_long", "leveraged")}
OddShorts ==
    {[ShortRecord EXCEPT !.short = "unknown"], [ShortRecord EXCEPT !.short = "limited"],
     [ShortRecord EXCEPT !.lending = Unknown], [ShortRecord EXCEPT !.shortEligible = "no"]}
OddOrders(date) ==
    LET asOf == date - 2
        OddOne(s, i, r, approved) == Candidate(s, i, r, 50, approved, asOf, 2)
        Chosen(list) == SelectSeq(list, LAMBDA c : SelectedMode(c.options, asOf) # "none")
        BuyY == Candidate(y, Up, Record, 70, TRUE, asOf, 2)
    IN {Chosen(<<c, BuyY>>) :
          c \in {OddOne(x, Up, r, approved) : r \in OddRecords, approved \in BOOLEAN}
                \cup {OddOne(x, i, Record, approved) : i \in OddInputs, approved \in BOOLEAN}}
       \cup {Chosen(<<OddOne(y, Down, r, TRUE)>>) : r \in OddShorts}

Bar(open, high, low, close, trade) ==
    [open |-> open, high |-> high, low |-> low, close |-> close, fx |-> 1,
     trade |-> trade]
Flat == Bar(10, 10, 10, 10, "normal")
Quiet == [s \in MCSymbols |-> Flat]
Moves(s) ==
    IF s = x
    THEN {Bar(10, 10, 9, 9, "normal"), Bar(10, 13, 8, 12, "normal"),
          Bar(6, 6, 6, 6, "normal"), Bar(8, 8, 8, 8, "limit_down"), NoBar}
    ELSE {Bar(10, 11, 10, 11, "normal"), Bar(10, 12, 7, 8, "normal"),
          Bar(15, 15, 15, 15, "normal"), Bar(12, 12, 12, 12, "limit_up"), NoBar}
Bars == {Quiet} \cup UNION {{[Quiet EXCEPT ![s] = b] : b \in Moves(s)} : s \in MCSymbols}

Dearer == [TermsOf("margin_long", Record, 12) EXCEPT
              !.maintenance = 5, !.rate = 2, !.term = 4, !.from = 12, !.known = 12]
MCTerms ==
    {Dearer}
      \cup {TermsOf("cash", <<>>, asOf) : asOf \in 10..14}
      \cup {TermsOf("margin_long", r, 12) :
               r \in {q \in OddRecords \cup {Record} : CanFormTerms("margin_long", q)}}
      \cup {TermsOf("margin_short", r, 12) :
               r \in {q \in OddShorts \cup {ShortRecord} : CanFormTerms("margin_short", q)}}

NoUpdate == [s \in MCSymbols |-> NoTerms]
Day(bars, entries, updates) ==
    [bars |-> bars, entries |-> entries, updates |-> updates]
Regular(date) ==
    {d \in [bars : Bars, entries : Orders(date), updates : {NoUpdate}] :
        \A i \in DOMAIN d.entries : d.bars[d.entries[i].symbol] # NoBar}
    \cup {Day(b, <<>>, [NoUpdate EXCEPT ![x] = Dearer]) : b \in Bars}
MCDays ==
    [dates \in MCCalendars |->
        [n \in DOMAIN dates |->
            IF Len(dates) = 1 THEN {Day(Quiet, e, NoUpdate) : e \in OddOrders(dates[n])}
            ELSE Regular(dates[n])]]

Flow(s, opened, entitledAt, paidAt) ==
    [symbol |-> s, opened |-> opened, entitled |-> entitledAt, paid |-> paidAt,
     amount |-> 1]
MCFlows == {{}, {Flow(x, 1, 2, 3), Flow(y, 1, 2, 2)}}
==============================================================================
