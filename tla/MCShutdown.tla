----------------------------- MODULE MCShutdown -----------------------------
(* An instance of Shutdown for TLC: two mentions on one thread, so that a worker
   is in flight with a message waiting behind it when main begins to shut down. *)
EXTENDS Shutdown, TLC

CONSTANTS m1, m2, t1, p1

MCMessages == {m1, m2}
MCThreadOf == [m \in MCMessages |-> t1]
MCPlatformOf == t1 :> p1
=============================================================================
