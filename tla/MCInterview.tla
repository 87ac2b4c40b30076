----------------------------- MODULE MCInterview -----------------------------
(* Values for the constants of Interview.                                   *)
EXTENDS InterviewInvariant

CONSTANTS t1, t2, silence, hello, bye

MCTranscriptOf ==
    [t \in Takes |-> IF t = silence THEN None ELSE IF t = t1 THEN hello ELSE bye]

OneQuestion == {<<"technical">>}
BothKinds == {<<"technical", "behavioral">>}
=============================================================================
