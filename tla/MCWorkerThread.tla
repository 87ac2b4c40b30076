---------------------------- MODULE MCWorkerThread ----------------------------
EXTENDS WorkerThread

\* Every list of up to one question more than the schema takes.
ListsOf(n) == [1 .. n -> Stated]
AllReplies == UNION {ListsOf(n) : n \in 0 .. MaxQuestions + 1}
=============================================================================
