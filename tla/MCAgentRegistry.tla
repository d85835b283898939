---------------------------- MODULE MCAgentRegistry ----------------------------
(***************************************************************************)
(* Small instances of AgentRegistry: two valid registries that route the   *)
(* topic to different agents, each with a disabled subscriber, and one     *)
(* file that does not load.                                                *)
(***************************************************************************)
EXTENDS AgentRegistry, TLC

CONSTANTS t1, t2, ocr, depth, morning, evening, torn, none, status

OneThread == {t1}
TwoThreads == {t1, t2}
BothAgents == {ocr, depth}
Valid == {morning, evening}
Torn == {torn}
EverySubscriber == [c \in Valid |-> {ocr, depth}]
OneEnabled == (morning :> {ocr}) @@ (evening :> {depth})
Symmetry == Permutations(Threads)
=============================================================================
