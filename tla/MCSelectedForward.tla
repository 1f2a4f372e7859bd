------------------------- MODULE MCSelectedForward --------------------------
(***************************************************************************)
(* Two users, two versions and two session days.  The position of the      *)
(* first day is closed on the second, the second's stays open.             *)
(***************************************************************************)
EXTENDS SelectedForward, TLC

CONSTANTS u1, u2, q1, q2

MCUsers == {u1, u2}
MCRequests == {q1, q2}
MCVersions == 1..MaxVersion
MCCloses == [d \in 1..LastDay |-> d + 1]

Symmetry == Permutations(MCUsers) \cup Permutations(MCRequests)

=============================================================================
