----------------------------- MODULE MCBotCore -----------------------------
(* An instance of BotCore for TLC: which messages arrive where. *)
EXTENDS BotCore, TLC

CONSTANTS m1, m2, m3, n1, t1, t2, p1

\* A burst of three mentions on one thread, which differ only in their names, and a
\* plain message on another thread of the same platform.
BurstMentions == {m1, m2, m3}
BurstMessages == BurstMentions \cup {n1}
BurstThreadOf == [m \in BurstMessages |-> IF m = n1 THEN t2 ELSE t1]
BurstPlatformOf == [t \in {t1, t2} |-> p1]
BurstSymmetry == Permutations(BurstMentions)
============================================================================
