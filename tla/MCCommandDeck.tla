--------------------------- MODULE MCCommandDeck ---------------------------
\* Instances of CommandDeck for TLC.
EXTENDS CommandDeck

CONSTANTS none, free, c1, c2, c3

ThreeClients == {c1, c2, c3}

Typed(op, active, value) ==
  [via |-> "console", op |-> op, active |-> active, option |-> none,
   prefix |-> op = "create", odd |-> FALSE, value |-> value]
Called(op, case, value) ==
  [via |-> "api", op |-> op, active |-> case, option |-> none, prefix |-> FALSE,
   odd |-> FALSE, value |-> value]
Odd(r) == [r EXCEPT !.odd = TRUE]

\* Case 2 is one that may not have been created yet.
MixedRequests ==
  {Typed("find", 2, ""), Typed("create", none, ""),
   [Typed("create", 1, "") EXCEPT !.prefix = FALSE],
   [Typed("create", 2, "") EXCEPT !.prefix = FALSE],
   [Typed("unknown", 1, "") EXCEPT !.prefix = TRUE],
   Typed("note", 1, ""), Typed("note", 2, ""),
   [Typed("note", 2, "") EXCEPT !.option = 1],
   Typed("tag", 1, "urgent"),
   Typed("judge", 1, "reviewed"), Typed("weigh", 1, "lowered"),
   Called("screenshot", 1, ""), Called("claim", 1, ""), Called("report", none, ""),
   Odd(Typed("note", 1, "")), Odd(Typed("judge", 1, "rejected")),
   Odd(Called("report", none, ""))}
=============================================================================
