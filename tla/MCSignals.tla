------------------------------ MODULE MCSignals ------------------------------
EXTENDS Signals

W(token, start, end) == [token |-> token, start |-> start, end |-> end]
I(start, end) == [start |-> start, end |-> end]

\* Fluent, silent, hedging with an unheard burst, overlapping and out of order,
\* and too fast.
Fluent == [words |-> <<W("word", 0, 4), W("word", 4, 8), W("word", 8, 12), W("word", 15, 18)>>,
           islands |-> <<I(0, 12), I(15, 18)>>, length |-> 20]
Silent == [words |-> <<>>, islands |-> <<>>, length |-> 20]
Hedging == [words |-> <<W("you", 0, 1), W("mark", 1, 1), W("know", 4, 5), W("um", 8, 9)>>,
            islands |-> <<I(0, 1), I(2, 2), I(4, 5), I(6, 7), I(8, 9)>>, length |-> 30]
Overlapping == [words |-> <<W("word", 0, 9), W("um", 1, 2), W("word", 9, 10), W("word", 3, 3)>>,
                islands |-> <<I(7, 10), I(0, 5)>>, length |-> 10]

Rushed == [words |-> <<W("um", 0, 1), W("word", 1, 5), W("word", 5, 9)>>,
           islands |-> <<I(0, 9)>>, length |-> 9]

SomeTakes == {Fluent, Rushed, Silent, Hedging, Overlapping}

SomePlans == {<<"technical", "behavioral">>, <<"technical", "technical">>}

DefaultWeights == [resume |-> 20, technical |-> 30, communication |-> 25, behavioral |-> 15]
=============================================================================
