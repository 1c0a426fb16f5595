------------------------- MODULE SingleProcessDemos -------------------------
(***************************************************************************)
(* The three programs that create neither processes nor threads,           *)
(* file_operations.c, resource_limits.c and memory_demo.c.  They have      *)
(* nothing in common, so a behaviour is that of the one that is run; the   *)
(* other two stay at a start.                                              *)
(***************************************************************************)
EXTENDS FileOperations, ResourceLimits, MemoryDemo

VARIABLE program        \* the one that is run

demosVars == <<program, vars, limitsVars, memoryVars>>

DemosInit ==
  /\ program \in {"file_operations", "resource_limits", "memory_demo"}
  /\ Init /\ LimitsInit /\ MemoryInit
  /\ program # "file_operations" => tty
  /\ program # "resource_limits" =>
       ~root /\ nofile = Unlimited /\ cpu = Unlimited /\ nice = 0

FileOperationsRuns ==
  /\ program = "file_operations" /\ Next
  /\ UNCHANGED <<program, limitsVars, memoryVars>>

ResourceLimitsRuns ==
  /\ program = "resource_limits" /\ LimitsNext
  /\ UNCHANGED <<program, vars, memoryVars>>

MemoryDemoRuns ==
  /\ program = "memory_demo" /\ MemoryNext
  /\ UNCHANGED <<program, vars, limitsVars>>

DemosNext == FileOperationsRuns \/ ResourceLimitsRuns \/ MemoryDemoRuns

DemosSpec == DemosInit /\ [][DemosNext]_demosVars

=============================================================================
