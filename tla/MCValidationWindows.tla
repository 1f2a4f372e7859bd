------------------------ MODULE MCValidationWindows -------------------------
(* Two processes, two tracks of which the second needs a session more, and *)
(* windows of two sessions in a calendar of five.                          *)
EXTENDS ValidationWindows, TLC

MCTrackOrder == <<"short_term", "mid_term">>
MCMinTrain == [t \in {"short_term", "mid_term"} |->
    IF t = "short_term" THEN 1 ELSE 2]

Processes == Permutations(Runs)
=============================================================================
