------------------------- MODULE MCResearchRecords --------------------------
(***************************************************************************)
(* Two sessions with calls of every kind: reviews of long and short trades *)
(* over paths of two intervals and of skipped trades, with evidence and    *)
(* prices that are published in time or too late; two contents under one run_id and     *)
(* under one provider record; two versions of a selection that both exist  *)
(* before the period they are validated on; answers of the providers that  *)
(* overlap, are revised, fail or are about something else.                 *)
(***************************************************************************)
EXTENDS ResearchRecords, TLC

CONSTANTS u1, u2, c1, c2

-----------------------------------------------------------------------------
Decision(execution) ==
    [at |-> 2, dataAsOf |-> 1, available |-> 2, mode |-> "auto_select",
     execution |-> execution, reasons |-> {"momentum"},
     counterarguments |-> {"supply"}]

Bar(start, low, close, high) ==
    [start |-> start, end |-> start + 1, available |-> start + 1,
     low |-> low, close |-> close, high |-> high, fx |-> 1]

Trade(exit, path) ==
    [type |-> "trade", entryAt |-> 2, exitAt |-> 6, available |-> 6,
     entry |-> 2, entryFx |-> 2, exit |-> exit, exitFx |-> 1, quantity |-> 2,
     costs |-> 1, cashflow |-> 0, reported |-> None, path |-> path,
     complete |-> path # <<>>]

Skip(subject, seen) ==
    [type |-> "non_execution", subject |-> subject, at |-> 6, available |-> 6,
     reference |-> IF seen THEN [price |-> 2, fx |-> 2] ELSE None,
     observed |-> IF seen THEN [price |-> 3, fx |-> 1] ELSE None]

Benchmark(end, available) ==
    [start |-> 2, end |-> end, available |-> available, first |-> 2, last |-> 3]

Factor(code, available) ==
    [code |-> code, assessment |-> "supportive", observed |-> 4,
     available |-> available]

Input(d, out, b, f, at) ==
    [decision |-> d, outcome |-> out, benchmark |-> b, factors |-> f, at |-> at]

Falling == <<Bar(2, 5, 6, 9), Bar(4, 2, 2, 4)>>
\* The second price is published after the trade has ended.
Late(available) == <<Bar(2, 3, 4, 6), [Bar(4, 4, 5, 5) EXCEPT !.available = available]>>
Rising == <<Bar(2, 1, 3, 6), Bar(3, 2, 3, 4)>>
\* A short gains first and then owes more than it began with.
Squeezed == <<Bar(2, 1, 3, 3), Bar(4, 3, 5, 9)>>

Inputs ==
    {Input(Decision("cash"), Trade(1, Rising), None, {}, 6),
     Input(Decision("cash"), Trade(8, Falling), None, {}, 6)}
    \cup {Input(Decision("margin_short"), Trade(1, path), None, {}, 6) :
            path \in {Falling, Rising, Squeezed}}
    \cup {Input(Decision("cash"), Trade(5, <<>>), b, {Factor("momentum", 5)}, 6) :
            b \in {None, Benchmark(6, 6), Benchmark(6, 7), Benchmark(5, 6)}}
    \cup {Input(Decision("cash"), Trade(5, <<>>), None, {Factor("momentum", 7)}, 6)}
    \cup {Input(Decision(None), Skip("skipped", seen), Benchmark(6, 6), {}, 6) :
            seen \in BOOLEAN}
    \cup {Input(Decision("cash"), [Trade(5, <<>>) EXCEPT !.reported = r], None, {}, 6) :
            r \in {1, 7}}
    \cup {Input(Decision("cash"), [Trade(5, Late(7)) EXCEPT !.entryAt = from], None, {}, at) :
            from \in {1, 2}, at \in {6, 7}}

MCVersions ==
    <<[created |-> 1, effective |-> 1], [created |-> 2, effective |-> 2]>>
MCItems == <<{"A"}, {"A", "B"}>>
MCCovered == <<{}, {"A", "B"}>>
MCAnalysed == <<{"A"}, {"A"}>>

\* An asset of each market and an ETF.
MCMaster ==
    [s \in {"j", "s", "e"} |->
        CASE s = "j" -> [source |-> "jquants", type |-> "stock", currency |-> "JPY", cik |-> 0]
          [] s = "s" -> [source |-> "sec", type |-> "stock", currency |-> "USD", cik |-> 7]
          [] s = "e" -> [source |-> "jquants", type |-> "etf", currency |-> "JPY", cik |-> 0]]

Fact(symbol, disclosed, period, values) ==
    [symbol |-> symbol, disclosed |-> disclosed, period |-> period, values |-> values]
Answer(rs) == [kind |-> "answer", rows |-> rs]
Outcome(kind) == [kind |-> kind]

Collection(job, symbol, attempts) ==
    [kind |-> "collect", job |-> job, symbol |-> symbol, cik |-> 7, inOrder |-> TRUE,
     attempts |-> attempts]
Initially == <<Fact("j", 1, 1, c1), Fact("j", 2, 1, c1)>>
Revised == <<Fact("j", 2, 1, c2), Fact("j", 1, 1, c1), Fact("j", 3, Missing, c1)>>
Collections ==
    {Collection("jquants", "j", [k \in 1..3 |-> Answer(rs)]) : rs \in {Initially, Revised}}
    \cup {Collection("jquants", "j",
            <<Outcome("transport"), Answer(<<Fact("s", 1, 1, c1)>>), Answer(<<>>)>>),
          Collection("jquants", "e", <<Outcome("busy"), Answer(Initially), Answer(Initially)>>),
          Collection("jquants", "s", [k \in 1..3 |-> Answer(<<>>)]),
          Collection("sec", "s", <<Outcome("busy"), Outcome("transport"),
                                   Answer(<<Fact(Missing, 1, 1, c1)>>)>>),
          Collection("etf", Missing,
            [k \in 1..3 |-> Answer(<<Fact("e", 1, Missing, c1)>>)]),
          Collection("etf", Missing,
            [k \in 1..3 |-> Answer(<<Fact("e", 1, Missing, c2), Fact("j", 1, Missing, c1)>>)]),
          Collection("etf", Missing, [k \in 1..3 |-> Outcome("refused")]),
          Collection("jquants", "j", [k \in 1..3 |-> Answer(<<Fact("j", 4, Missing, c1)>>)])}

MarginContent(effective) ==
    [effective |-> effective, until |-> 9, available |-> 2]

\* The periods begin before and after the versions took effect.
ClaimRequests ==
    {[kind |-> "claim", version |-> c[1], start |-> c[2], end |-> 9,
      strategy |-> "s", data |-> c[3]] :
        c \in {<<1, 1, 1>>, <<1, 3, 1>>, <<1, 3, 2>>, <<2, 1, 1>>, <<2, 3, 1>>}}

MCRequests ==
    {[kind |-> "review", input |-> in, code |-> 1] : in \in Inputs}
    \cup {[kind |-> "review", code |-> 2,
           input |-> Input(Decision("cash"), Trade(5, <<>>), None, {}, 6)]}
    \cup {[kind |-> "series", run |-> "run", content |-> c] : c \in {c1, c2}}
    \cup ClaimRequests
    \cup {[kind |-> "analysis", version |-> v, source |-> 1] : v \in {1, 2}}
    \cup {[kind |-> "backtest", version |-> 1, source |-> 1,
           horizon |-> "short_term"]}
    \cup {[kind |-> "margin", record |-> [id |-> i, fetched |-> 2],
           content |-> MarginContent(e)] : i \in {1, 2}, e \in {1, 2}}
    \cup {[kind |-> "load", at |-> 4], [kind |-> "assets"]}
    \cup Collections

Symmetry == Permutations(Users)
=============================================================================
