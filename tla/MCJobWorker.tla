------------------------------ MODULE MCJobWorker ------------------------------
(***************************************************************************)
(* Small instances of JobWorker: jobs with and without a handler, with and *)
(* without confirmation.  A confirmed job runs the model, b is not         *)
(* confirmed, and for c no handler is registered.                          *)
(***************************************************************************)
EXTENDS JobWorker, TLC

CONSTANTS t1, t2, keyA, keyB, keyC, ocr, none, noEngine, noError,
          empty, unconfirmed, text, crash

OneThread == {t1}
TwoThreads == {t1, t2}
OneKey == {keyA}
AnyKey == {keyA, keyB, keyC}
OneRequest == {"a"}
AnyRequest == {"a", "b", "c"}
OneRoute == [r \in OneRequest |-> <<keyA>>]
AnyRoute == [a |-> <<keyA>>, b |-> <<keyB>>, c |-> <<keyC>>]
OcrOnly == {ocr}
AllOcr == [k \in Keys |-> ocr]
NoHandlerForC == [k \in Keys |-> IF k = keyC THEN noEngine ELSE ocr]
ConfirmedA == {keyA}
NoEventLimit == [k \in Keys |-> 100]
ResultObjects == {empty, unconfirmed, text}
ErrorType == {crash}
OperatorActions == {"cancel", "requeue"}
Symmetry == Permutations(Threads)
=============================================================================
