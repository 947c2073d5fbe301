------------------------- MODULE MCLeaderElection -------------------------
(* LeaderElection for TLC: the cfg gives its constants their values. The   *)
(* coordinators are not declared symmetric, since the run checks liveness. *)
EXTENDS LeaderElection, TLC
=============================================================================
