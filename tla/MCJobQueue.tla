------------------------------ MODULE MCJobQueue ------------------------------
(***************************************************************************)
(* Small instances of JobQueue.  One request is routed to two agents (and, *)
(* through a registry entry that lists the topic twice, to the first of    *)
(* them again); the other is routed to a single agent.                     *)
(***************************************************************************)
EXTENDS JobQueue, TLC

CONSTANTS t1, t2, keyA, keyB, none, noError, empty, found, crash

OneThread == {t1}
TwoThreads == {t1, t2}
FanOut == [fan |-> <<keyA, keyB, keyA>>]
Single == [one |-> <<keyA>>]
TwoKeys == {keyA, keyB}
OneKey == {keyA}
FanOutRequests == DOMAIN FanOut
SingleRequests == DOMAIN Single
\* The job of keyA goes through more transitions than the one of keyB.
SixAndTwo == [k \in Keys |-> IF k = keyA THEN 6 ELSE 2]
Five == [k \in Keys |-> 5]
Seven == [k \in Keys |-> 7]
ResultObjects == {empty, found}
ErrorType == {crash}
Symmetry == Permutations(Threads)
=============================================================================
