--------------------------- MODULE ResourceLimits ---------------------------
(***************************************************************************)
(* examples/resource_limits.c: the soft limit on open files is raised to   *)
(* the hard one, the CPU time is limited to two seconds and the limit      *)
(* taken back, the nice value is increased.  What the kernel allows        *)
(* depends on the limits the program was started with and on whether it    *)
(* is privileged.  The CPU time used so far counts against a new limit.    *)
(* (Names that FileOperations has too begin with Limits, so that one       *)
(* module can extend both.)                                                *)
(***************************************************************************)
EXTENDS Integers

CONSTANTS
  Infinity,     \* RLIM_INFINITY, the largest limit there is
  MaxCpu        \* seconds of CPU time used at most

ASSUME LimitsAssumption == Infinity \in Nat /\ Infinity > 2 /\ MaxCpu \in Nat

Limit(low) == {l \in [soft : low..Infinity, hard : low..Infinity] : l.soft <= l.hard}
Unlimited == [soft |-> Infinity, hard |-> Infinity]
TwoSeconds == [soft |-> 2, hard |-> 2]
NotShown == -100

VARIABLES
  at,
  root,         \* CAP_SYS_RESOURCE
  nofile, cpu,  \* the limits on open files and CPU time
  limit,        \* the program's struct rlimit
  raised,       \* what it said about the soft limit: "success", "failure", ""
  used,         \* CPU seconds used
  nice, shown,  \* nice value; "New nice value" as printed
  failed,       \* a call of demonstrate_priority has failed
  start         \* limits and nice value at the start

limitsVars == <<at, root, nofile, cpu, limit, raised, used, nice, shown, failed, start>>

LimitsInit ==
  /\ at = "nofile:get" /\ root \in BOOLEAN
  /\ nofile \in Limit(0) /\ cpu \in Limit(1) /\ nice \in -20..19
  /\ start = [nofile |-> nofile, cpu |-> cpu, nice |-> nice]
  /\ limit = Unlimited /\ raised = "" /\ used = 0 /\ shown = NotShown /\ failed = FALSE

\* setrlimit() accepts new in the place of old.
Permitted(old, new) == new.soft <= new.hard /\ (new.hard <= old.hard \/ root)

-----------------------------------------------------------------------------
(* CPU time                                                                *)

\* Work takes time; it may be used anywhere in the program.
Work ==
  /\ at \notin {"ended", "killed"} /\ used < MaxCpu
  /\ used' = used + 1
  /\ UNCHANGED <<at, root, nofile, cpu, limit, raised, nice, shown, failed, start>>

\* SIGXCPU at the soft limit, or SIGKILL at the hard one.
Expire ==
  /\ at \notin {"ended", "killed"} /\ cpu.soft # Infinity /\ used >= cpu.soft
  /\ at' = "killed"
  /\ UNCHANGED <<root, nofile, cpu, limit, raised, used, nice, shown, failed, start>>

-----------------------------------------------------------------------------
(* The demos                                                               *)

\* Mutant of GetNofile: the hard limit is set to the soft one.
GetNofileSwapped ==
  /\ at = "nofile:get"
  /\ limit' = [nofile EXCEPT !.hard = nofile.soft] /\ at' = "nofile:set"
  /\ UNCHANGED <<root, nofile, cpu, raised, used, nice, shown, failed, start>>

\* demonstrate_limits only prints.  getrlimit() fails, or its result is
\* prepared for setrlimit().
GetNofile ==
  /\ at = "nofile:get"
  /\ \/ limit' = [nofile EXCEPT !.soft = nofile.hard] /\ at' = "nofile:set"
     \/ at' = "cpu:set" /\ UNCHANGED limit
  /\ UNCHANGED <<root, nofile, cpu, raised, used, nice, shown, failed, start>>

\* May fail if the hard limit is above fs.nr_open.  demonstrate_rusage, which
\* follows, changes no limit.
SetNofile ==
  /\ at = "nofile:set" /\ at' = "cpu:set"
  /\ \/ Permitted(nofile, limit) /\ nofile' = limit /\ raised' = "success"
     \/ raised' = "failure" /\ UNCHANGED nofile
  /\ UNCHANGED <<root, cpu, limit, used, nice, shown, failed, start>>

SetCpu ==
  /\ at = "cpu:set"
  /\ limit' = TwoSeconds
  /\ IF Permitted(cpu, TwoSeconds) THEN cpu' = TwoSeconds /\ at' = "cpu:reset"
                                   ELSE at' = "getpriority" /\ UNCHANGED cpu
  /\ UNCHANGED <<root, nofile, raised, used, nice, shown, failed, start>>

\* The result of setrlimit() is not looked at.
ResetCpu ==
  /\ at = "cpu:reset" /\ at' = "getpriority"
  /\ limit' = Unlimited
  /\ cpu' = IF Permitted(cpu, Unlimited) THEN Unlimited ELSE cpu
  /\ UNCHANGED <<root, nofile, raised, used, nice, shown, failed, start>>

\* getpriority() returns -1 for an error as well as for the nice value -1:
\* only errno tells.
GetPriority ==
  /\ at = "getpriority"
  /\ \E errno \in {0, 1} : /\ failed' = (errno # 0)
                           /\ at' = IF errno # 0 THEN "complete" ELSE "nice"
  /\ UNCHANGED <<root, nofile, cpu, limit, raised, used, nice, shown, start>>

Increased(n) == IF n + 5 > 19 THEN 19 ELSE n + 5

\* Mutant of Nice: errno is not looked at.
NiceNoErrno ==
  /\ at = "nice"
  /\ \/ /\ nice' = Increased(nice) /\ UNCHANGED failed
        /\ at' = IF nice' = -1 THEN "complete" ELSE "show"
     \/ failed' = TRUE /\ at' = "complete" /\ UNCHANGED nice
  /\ UNCHANGED <<root, nofile, cpu, limit, raised, used, shown, start>>

\* nice(5) returns the new value, -1 included, or -1 with errno set.
Nice ==
  /\ at = "nice"
  /\ \/ nice' = Increased(nice) /\ at' = "show" /\ UNCHANGED failed
     \/ failed' = TRUE /\ at' = "complete" /\ UNCHANGED nice
  /\ UNCHANGED <<root, nofile, cpu, limit, raised, used, shown, start>>

\* The second getpriority().
ShowNice ==
  /\ at = "show" /\ at' = "complete"
  /\ shown' = nice
  /\ UNCHANGED <<root, nofile, cpu, limit, raised, used, nice, failed, start>>

LimitsComplete ==
  /\ at = "complete" /\ at' = "ended"
  /\ UNCHANGED <<root, nofile, cpu, limit, raised, used, nice, shown, failed, start>>

LimitsMain ==
  \/ GetNofile \/ SetNofile \/ SetCpu \/ ResetCpu
  \/ GetPriority \/ Nice \/ ShowNice \/ LimitsComplete

LimitsTerminated == at \in {"ended", "killed"} /\ UNCHANGED limitsVars

LimitsNext == LimitsMain \/ Work \/ Expire \/ LimitsTerminated

LimitsSpec == LimitsInit /\ [][LimitsNext]_limitsVars

-----------------------------------------------------------------------------
(* Properties                                                              *)

\* What the program says about the limit on open files is true, and it never
\* costs the process anything: the hard limit stays and the soft one is the
\* hard one or what it was.
NofileAsSaid ==
  /\ nofile.hard = start.nofile.hard
  /\ nofile.soft = IF raised = "success" THEN start.nofile.hard ELSE start.nofile.soft

\* "Reset CPU limit to unlimited": once it has been reset, the limit is none.
CpuLimitReset == at = "getpriority" /\ limit = Unlimited => cpu = Unlimited

\* How far the code is from that: the limit is reset in a privileged process
\* alone.  Any other runs the rest of the program under the limit of two seconds, having
\* given up the hard limit it was started with, or was refused even those.
CpuLimitAfterDemo ==
  at \in {"getpriority", "nice", "show", "complete", "ended"} =>
    cpu = IF root THEN Unlimited
          ELSE IF start.cpu.hard < 2 THEN start.cpu ELSE TwoSeconds

\* "New nice value" is five more than at the start, or 19, for every value at
\* the start, also for those with -1 among the results.
NiceReported == at = "ended" /\ ~failed => shown = Increased(start.nice)

\* What the program says of the limit on open files and of its nice value is so.
ReportsTrue == NofileAsSaid /\ NiceReported

=============================================================================
