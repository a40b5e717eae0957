---------------------------- MODULE MCRoundRobin ----------------------------
(* Instances of RoundRobin for TLC, in stage 1: the shell boots alone.     *)
EXTENDS RoundRobin, TLC

StageOneBoot == {0}
StageOneEntry == [p \in {0} |-> "shell"]
NoValues == {}
=============================================================================
