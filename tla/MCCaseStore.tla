------------------------------ MODULE MCCaseStore ------------------------------
(***************************************************************************)
(* Small instances of CaseStore: two handles, items that name one or both, *)
(* a malformed one and an unsafe one; the tool beside the server, or not.  *)
(***************************************************************************)
EXTENDS CaseStore, TLC

CONSTANTS tool, t1, t2, ada, bob, byAda, byBob, bad, risky

NoTool == {}
OneTool == {tool}
OneThread == {t1}
TwoThreads == {t1, t2}
TwoHandles == {ada, bob}
TwoItems == {byAda, byBob}
AllItems == {byAda, byBob, bad, risky}
AuthorOf == (byAda :> ada) @@ (byBob :> bob) @@ (bad :> ada) @@ (risky :> ada)
Authors == [i \in Items |-> AuthorOf[i]]
BobNamesAda == [i \in Items |-> IF i = byBob THEN {ada} ELSE {}]
NoItem == {}
Risky == {risky}
Bad == {bad}
Pair == {<<byAda, byBob>>}
MixedPayloads == {<<byAda, bad, byBob>>, <<risky, byBob>>}
DemoData == <<byAda, byBob>>
NoDemoData == << >>
OldOrNewStore == {<< >>, <<ada>>}
NewStore == {<< >>}

\* Bound: a third command begins only while no tool runs and before a start-up
\* has given an observation to a second case.
ThirdCommandEarly ==
  \/ commands <= 2
  \/ /\ \A p \in Clis : phase[p] = "off"
     /\ \A o \in DOMAIN observations :
          Cardinality({c \in CaseIds : <<c, o>> \in links}) = 1

Symmetry == Permutations(Threads)
=============================================================================
