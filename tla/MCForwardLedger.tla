-------------------------- MODULE MCForwardLedger ---------------------------
(***************************************************************************)
(* The standard pair over one or two sessions.  The job exports short_term *)
(* before mid_term; discover_formal_exports sorts by path, so the operator *)
(* begins with mid_term.                                                   *)
(***************************************************************************)
EXTENDS ForwardMonitor, TLC

MCCallers == {"job", "operator"}
MCAccounts == {"short_term", "mid_term"}
MCDays == 1..LastDay
MCPaths == MCAccounts \X MCDays

First(c) == IF c = "job" THEN "short_term" ELSE "mid_term"
MCExportRank ==
    [c \in MCCallers |->
        [p \in MCPaths |-> p[2] + IF p[1] = First(c) THEN 0 ELSE LastDay]]

MondayFirst == [d \in MCDays |-> d]
TuesdayFirst == [d \in MCDays |-> d + 1]

CONSTANTS r1, r2
OneResult == {r1}
TwoResults == {r1, r2}
OneContent == OneResult \cup {Altered}
TwoContents == TwoResults \cup {Altered}

\* Nothing tells one result of an analysis from the other.
ResultSymmetry == Permutations(TwoResults)

=============================================================================
