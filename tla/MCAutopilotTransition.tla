----------------------- MODULE MCAutopilotTransition -----------------------
(* Small instances of AutopilotTransition for TLC. *)
EXTENDS AutopilotTransition, TLC

\* How messages end: well, badly, and with a structured hard failure.
Well  == [success |-> TRUE,  hard |-> FALSE]
Badly == [success |-> FALSE, hard |-> FALSE]
Hard  == [success |-> FALSE, hard |-> TRUE]
WellOrHard  == {Well, Hard}
WellOrBadly == {Well, Badly}

NoMargin   == [num |-> 0, den |-> 1]
HalfMargin == [num |-> 1, den |-> 2]

\* The first message of each candidate's canary goes to the incumbent arm.
CONSTANTS FirstMessage
FirstIsControl == Candidate \X {FirstMessage}

\* Hooks run the same code, and messages of one arm are alike.
Symmetry == Permutations(Hook) \cup Permutations(Message \ {FirstMessage})
=============================================================================
