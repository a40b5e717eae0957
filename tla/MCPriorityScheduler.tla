------------------------ MODULE MCPriorityScheduler ------------------------
(* Instances of PriorityScheduler for TLC.                                 *)
EXTENDS PriorityScheduler, TLC

ShellBoot == {0}
ShellEntry == [p \in {0} |-> "shell"]
=============================================================================
