-------------------------- MODULE MCPriceCollector --------------------------
(***************************************************************************)
(* Five symbols, of which the first is an ETF and the last always fails.   *)
(* Three of the others were not traded on session 2, so that a batch of    *)
(* three looks like a session without data.                                *)
(***************************************************************************)
EXTENDS PriceCollector

MCSymbols == 1..5
MCEtfs == {1}
MCTraded == (MCSymbols \X {1, 3}) \cup {<<4, 2>>}

FewSymbols == 1..2
FewTraded == (FewSymbols \X {1, 3}) \cup {<<2, 2>>}
NoSymbols == {}
FirstSymbol == {1}
LastSymbol == {5}

=============================================================================
