--------------------------- MODULE MCGraphViewer ---------------------------
\* Instances of GraphViewer for TLC.
EXTENDS GraphViewer

CONSTANTS ann, ben, cal, dan, reader1, blank

FourActors == {ann, ben, cal, dan}
TwoCases == {1, 2}
Bio == {"bio"}
OneReader == {reader1}
\* ben and dan are accounts of one handle on two platforms.
Handle == [x \in FourActors |-> IF x \in {ben, dan} THEN "@b" ELSE IF x = ann THEN "@a" ELSE "@c"]

Seen(names, case, bio, captured_at) ==
  [names |-> names, case |-> case, profile |-> [f \in Bio |-> bio],
   captured_at |-> captured_at, switch |-> FALSE]

MixedPayloads ==
  {Seen(<<ann>>, 1, "x", 2), Seen(<<ann, ben>>, 1, "y", 2), Seen(<<ann, cal>>, 1, blank, 3),
   Seen(<<ann, ben, cal>>, 1, "x", 1), Seen(<<ann, dan>>, 2, "z", 1),
   Seen(<<ben, dan, cal>>, 1, blank, 1), Seen(<<cal, dan>>, 1, blank, 1),
   [Seen(<<dan, cal>>, 1, blank, 1) EXCEPT !.switch = TRUE]}

Path(source, target, max_hops) ==
  [command |-> "path", case |-> 1, source |-> source, target |-> target, max_hops |-> max_hops]
GraphQuestions ==
  {Path("@a", "@b", 1), Path("@a", "@b", 2), Path("@a", "@b", 4), Path("@b", "@c", 4),
   Path("@a", "@a", 4), [command |-> "communities", case |-> 1]}
=============================================================================
