----------------------------- MODULE DailyAudit -----------------------------
(***************************************************************************)
(* What the forward ledger and its audit chain promise together: the       *)
(* results of a day are frozen once, for both accounts at once and for     *)
(* good, and the log grows by one entry at a time, never names an export   *)
(* twice, and names it with the result that is frozen.                     *)
(***************************************************************************)
EXTENDS Naturals, Sequences

CONSTANTS Accounts, Days, Results, Absent

VARIABLES
    frozen,     \* frozen[<<account, day>>]: the result, or Absent
    log         \* the audited exports with their contents, in order

vars == <<frozen, log>>

Exports == Accounts \X Days

Freeze(d, r) ==
    /\ \A a \in Accounts : frozen[<<a, d>>] = Absent
    /\ frozen' = [p \in Exports |-> IF p[2] = d THEN r ELSE frozen[p]]
    /\ UNCHANGED log

Log(p) ==
    /\ frozen[p] # Absent
    /\ \A i \in DOMAIN log : log[i].path # p
    /\ log' = Append(log, [path |-> p, content |-> frozen[p]])
    /\ UNCHANGED frozen

Init ==
    /\ frozen = [p \in Exports |-> Absent]
    /\ log = <<>>

Next ==
    \/ \E d \in Days, r \in Results : Freeze(d, r)
    \/ \E p \in Exports : Log(p)

Spec == Init /\ [][Next]_vars

=============================================================================
