---------------------------- MODULE MCSessionLine ----------------------------
(* The instance of SessionLine for TLC. *)
EXTENDS SessionLine

CONSTANTS a, b, c, r

\* Two stories: snapshots beside commits, with a backend call off the line; and watches.
\* The jobs are alike, so they are called in one order.  This cuts calls and reads off
\* the line only, which no fairness forces.
Called  == {j \in Jobs : pc[j] # "idle"}
Kinded  == {kind[j] : j \in Called}
InOrder == (b \in Called => a \in Called) /\ (c \in Called => b \in Called)
OneMix  == InOrder /\ ("watch" \notin Kinded \/ ("snapshot" \notin Kinded /\ reading = {}))
=============================================================================
