-------------------------- MODULE SequentialProofs --------------------------
(***************************************************************************)
(* The two programs that run alone, resource_limits.c and                  *)
(* file_operations.c.                                                      *)
(*                                                                         *)
(* What the first leaves of the limits and the nice value it was started   *)
(* with, for every limit, every amount of CPU time and both kinds of       *)
(* process.  None of the three statements is inductive: each needs what    *)
(* the program's struct rlimit, the limit itself or the nice value is at   *)
(* the points before it speaks of them.                                    *)
(*                                                                         *)
(* Which descriptors the second leaves and which line goes to which file,  *)
(* for every length of its text that fits the read buffer.  Here the table *)
(* of descriptors has to be known at every point, and the lines printed as *)
(* three parts: those before the two redirected ones, these, and those     *)
(* after them.                                                             *)
(***************************************************************************)
EXTENDS ResourceLimits, FileOperations, SequenceTheorems, TLAPS

Limits == [soft : Nat, hard : Nat]

Types ==
  /\ root \in BOOLEAN /\ failed \in BOOLEAN
  /\ nofile \in Limits /\ cpu \in Limits /\ limit \in Limits
  /\ start \in [nofile : Limits, cpu : Limits, nice : Int]
  /\ nice \in Int
  /\ raised \in {"", "success", "failure"}

\* Until setrlimit() has answered, the limit is the first one and what is
\* about to be set differs from it in the soft limit only.
NofileInv ==
  /\ at \in {"nofile:get", "nofile:set"} => raised = ""
  /\ at = "nofile:set" => limit = [soft |-> start.nofile.hard, hard |-> start.nofile.hard]
  /\ NofileAsSaid

\* The limit of two seconds was accepted because the process is privileged or
\* had at least as much.
CpuInv ==
  /\ at \in {"nofile:get", "nofile:set", "cpu:set"} => cpu = start.cpu
  /\ at = "cpu:reset" => cpu = TwoSeconds /\ (root \/ ~(start.cpu.hard < 2))
  /\ CpuLimitAfterDemo

\* The nice value changes in nice() alone, and is shown unless a call failed.
NiceInv ==
  /\ at \in {"nofile:get", "nofile:set", "cpu:set", "cpu:reset", "getpriority", "nice"} =>
       ~failed /\ nice = start.nice
  /\ at = "show" => ~failed /\ nice = Increased(start.nice)
  /\ at \in {"complete", "ended"} => failed \/ shown = Increased(start.nice)

Inv == Types /\ NofileInv /\ CpuInv /\ NiceInv

\* Inv holds of every start, whatever limits were inherited.
LEMMA InitInv == LimitsInit => Inv
  <1> SUFFICES ASSUME LimitsInit PROVE Inv
    OBVIOUS
  <1>1. nofile \in Limits /\ cpu \in Limits /\ nice \in Int /\ Unlimited \in Limits
    <2>1. /\ nofile \in [soft : 0..Infinity, hard : 0..Infinity]
          /\ cpu \in [soft : 1..Infinity, hard : 1..Infinity]
      BY Zenon DEF LimitsInit, Limit
    <2>2. nofile \in Limits /\ cpu \in Limits
      BY <2>1, LimitsAssumption DEF Limits
    <2>3. nice \in Int
      <3>1. nice \in -20..19
        BY Zenon DEF LimitsInit
      <3> QED BY <3>1
    <2>4. Unlimited \in Limits
      BY LimitsAssumption DEF Unlimited, Limits
    <2> QED BY <2>2, <2>3, <2>4
  <1>2. start.nofile = nofile /\ start.cpu = cpu /\ start.nice = nice
    BY DEF LimitsInit
  <1>3. Types
    BY <1>1, <1>2 DEF LimitsInit, Types
  <1>4. NofileInv /\ CpuInv /\ NiceInv
    BY <1>2 DEF LimitsInit, NofileInv, NofileAsSaid, CpuInv, CpuLimitAfterDemo, NiceInv
  <1> QED BY <1>3, <1>4 DEF Inv

\* What setrlimit() is given is a limit.
LEMMA Constants == TwoSeconds \in Limits /\ Unlimited \in Limits
  BY LimitsAssumption DEF TwoSeconds, Unlimited, Limits

\* Two seconds are granted to a process that is privileged or has as much.
LEMMA TwoSecondsPermitted ==
  ASSUME NEW l \in Limits
  PROVE  Permitted(l, TwoSeconds) <=> (root \/ ~(l.hard < 2))
  <1>1. TwoSeconds.soft <= TwoSeconds.hard /\ (TwoSeconds.hard <= l.hard <=> ~(l.hard < 2))
    BY DEF TwoSeconds, Limits
  <1> QED BY <1>1, Zenon DEF Permitted

\* The way back is granted to a privileged process only: Infinity is more
\* than 2.
LEMMA ResetPermitted == Permitted(TwoSeconds, Unlimited) <=> root
  <1>1. Unlimited.soft <= Unlimited.hard /\ ~(Unlimited.hard <= TwoSeconds.hard)
    BY LimitsAssumption DEF TwoSeconds, Unlimited
  <1> QED BY <1>1, Zenon DEF Permitted

\* nice() yields a number.
LEMMA IncreasedInt == ASSUME NEW n \in Int PROVE Increased(n) \in Int
  BY DEF Increased

\* Steps that touch no limit on open files, or set the one Inv describes.
LEMMA NofileStep == Inv /\ [LimitsNext]_limitsVars => NofileInv'
  <1> SUFFICES ASSUME Inv, [LimitsNext]_limitsVars PROVE NofileInv'
    OBVIOUS
  <1> USE DEF Inv, Types, Limits, NofileInv, NofileAsSaid
  <1>1. CASE GetNofile BY <1>1 DEF GetNofile
  <1>2. CASE SetNofile
    <2>1. limit = [soft |-> start.nofile.hard, hard |-> start.nofile.hard]
      BY <1>2 DEF SetNofile
    <2>2. CASE nofile' = limit /\ raised' = "success"
      BY <1>2, <2>1, <2>2 DEF SetNofile
    <2>3. CASE raised' = "failure" /\ nofile' = nofile
      BY <1>2, <2>3 DEF SetNofile
    <2> QED BY <1>2, <2>2, <2>3 DEF SetNofile
  <1>3. CASE SetCpu BY <1>3 DEF SetCpu
  <1>4. CASE ResetCpu BY <1>4 DEF ResetCpu
  <1>5. CASE GetPriority BY <1>5 DEF GetPriority
  <1>6. CASE Nice BY <1>6 DEF Nice
  <1>7. CASE ShowNice BY <1>7 DEF ShowNice
  <1>8. CASE LimitsComplete BY <1>8 DEF LimitsComplete
  <1>9. CASE Work BY <1>9 DEF Work
  <1>10. CASE Expire BY <1>10 DEF Expire
  <1>11. CASE UNCHANGED limitsVars BY <1>11 DEF limitsVars
  <1> QED BY <1>1, <1>2, <1>3, <1>4, <1>5, <1>6, <1>7, <1>8, <1>9, <1>10, <1>11
          DEF LimitsNext, LimitsMain, LimitsTerminated

\* The CPU time limit: granted or refused, and reset or not.
LEMMA CpuStep == Inv /\ [LimitsNext]_limitsVars => CpuInv'
  <1> SUFFICES ASSUME Inv, [LimitsNext]_limitsVars PROVE CpuInv'
    OBVIOUS
  <1> USE LimitsAssumption DEF Inv, Types, Limits, CpuInv, CpuLimitAfterDemo
  <1>1. CASE GetNofile BY <1>1 DEF GetNofile
  <1>2. CASE SetNofile BY <1>2 DEF SetNofile
  <1>3. CASE SetCpu
    <2>1. cpu = start.cpu /\ start.cpu \in Limits
      BY <1>3 DEF SetCpu
    <2>2. Permitted(cpu, TwoSeconds) <=> (root \/ ~(start.cpu.hard < 2))
      BY <2>1, TwoSecondsPermitted
    <2>3. CASE Permitted(cpu, TwoSeconds)
      BY <1>3, <2>2, <2>3 DEF SetCpu
    <2>4. CASE ~Permitted(cpu, TwoSeconds)
      <3>1. ~root /\ start.cpu.hard < 2 /\ cpu' = start.cpu
        BY <1>3, <2>1, <2>2, <2>4, Zenon DEF SetCpu
      <3> QED BY <1>3, <2>4, <3>1 DEF SetCpu
    <2> QED BY <2>3, <2>4
  <1>4. CASE ResetCpu
    <2>1. cpu = TwoSeconds /\ (root \/ ~(start.cpu.hard < 2))
      BY <1>4 DEF ResetCpu
    <2>2. cpu' = IF root THEN Unlimited ELSE TwoSeconds
      BY <1>4, <2>1, ResetPermitted, Zenon DEF ResetCpu
    <2> QED BY <1>4, <2>1, <2>2 DEF ResetCpu
  <1>5. CASE GetPriority BY <1>5 DEF GetPriority
  <1>6. CASE Nice BY <1>6 DEF Nice
  <1>7. CASE ShowNice BY <1>7 DEF ShowNice
  <1>8. CASE LimitsComplete BY <1>8 DEF LimitsComplete
  <1>9. CASE Work BY <1>9 DEF Work
  <1>10. CASE Expire BY <1>10 DEF Expire
  <1>11. CASE UNCHANGED limitsVars BY <1>11 DEF limitsVars
  <1> QED BY <1>1, <1>2, <1>3, <1>4, <1>5, <1>6, <1>7, <1>8, <1>9, <1>10, <1>11
          DEF LimitsNext, LimitsMain, LimitsTerminated

\* The nice value and what is shown of it.
LEMMA NiceStep == Inv /\ [LimitsNext]_limitsVars => NiceInv'
  <1> SUFFICES ASSUME Inv, [LimitsNext]_limitsVars PROVE NiceInv'
    OBVIOUS
  <1> USE DEF Inv, Types, NiceInv
  <1>1. CASE GetNofile BY <1>1 DEF GetNofile
  <1>2. CASE SetNofile BY <1>2 DEF SetNofile
  <1>3. CASE SetCpu BY <1>3 DEF SetCpu
  <1>4. CASE ResetCpu BY <1>4 DEF ResetCpu
  <1>5. CASE GetPriority BY <1>5 DEF GetPriority
  <1>6. CASE Nice
    <2>1. CASE nice' = Increased(nice) /\ at' = "show" /\ UNCHANGED failed
      BY <1>6, <2>1 DEF Nice
    <2>2. CASE failed' = TRUE /\ at' = "complete"
      BY <2>2
    <2> QED BY <1>6, <2>1, <2>2 DEF Nice
  <1>7. CASE ShowNice BY <1>7 DEF ShowNice
  <1>8. CASE LimitsComplete BY <1>8 DEF LimitsComplete
  <1>9. CASE Work BY <1>9 DEF Work
  <1>10. CASE Expire BY <1>10 DEF Expire
  <1>11. CASE UNCHANGED limitsVars BY <1>11 DEF limitsVars
  <1> QED BY <1>1, <1>2, <1>3, <1>4, <1>5, <1>6, <1>7, <1>8, <1>9, <1>10, <1>11
          DEF LimitsNext, LimitsMain, LimitsTerminated

\* Every step keeps the limits limits.
LEMMA TypesStep == Inv /\ [LimitsNext]_limitsVars => Types'
  <1> SUFFICES ASSUME Inv, [LimitsNext]_limitsVars PROVE Types'
    OBVIOUS
  <1> USE Constants DEF Inv, Types
  <1>1. CASE GetNofile
    <2>1. [nofile EXCEPT !.soft = nofile.hard] \in Limits
      BY DEF Limits
    <2> QED BY <1>1, <2>1 DEF GetNofile
  <1>2. CASE SetNofile BY <1>2 DEF SetNofile
  <1>3. CASE SetCpu BY <1>3 DEF SetCpu
  <1>4. CASE ResetCpu BY <1>4 DEF ResetCpu
  <1>5. CASE GetPriority BY <1>5 DEF GetPriority
  <1>6. CASE Nice
    <2>1. nice' \in Int
      <3>1. Increased(nice) \in Int
        BY IncreasedInt
      <3> QED BY <1>6, <3>1 DEF Nice
    <2>2. failed' \in BOOLEAN
      BY <1>6, Zenon DEF Nice
    <2> QED BY <1>6, <2>1, <2>2 DEF Nice
  <1>7. CASE ShowNice BY <1>7 DEF ShowNice
  <1>8. CASE LimitsComplete BY <1>8 DEF LimitsComplete
  <1>9. CASE Work BY <1>9 DEF Work
  <1>10. CASE Expire BY <1>10 DEF Expire
  <1>11. CASE UNCHANGED limitsVars BY <1>11 DEF limitsVars
  <1> QED BY <1>1, <1>2, <1>3, <1>4, <1>5, <1>6, <1>7, <1>8, <1>9, <1>10, <1>11
          DEF LimitsNext, LimitsMain, LimitsTerminated

\* Inv holds in every state of every run of the program.
LEMMA Invariance == LimitsSpec => []Inv
  <1>1. Inv /\ [LimitsNext]_limitsVars => Inv'
    BY NofileStep, CpuStep, NiceStep, TypesStep DEF Inv
  <1> QED BY InitInv, <1>1, PTL DEF LimitsSpec

\* What the program says of the limit on open files is true, and the hard
\* limit is never given up, whatever limits it was started with.
THEOREM NofileAsSaidCorrect == LimitsSpec => []NofileAsSaid
  <1>1. Inv => NofileAsSaid
    BY DEF Inv, NofileInv
  <1> QED BY Invariance, <1>1, PTL

\* "Reset CPU limit to unlimited" is true of privileged processes and of no
\* other, whatever CPU time limit they were started with: the behaviour that
\* refutes CpuLimitReset is that of every unprivileged process.
THEOREM CpuLimitAfterDemoCorrect == LimitsSpec => []CpuLimitAfterDemo
  <1>1. Inv => CpuLimitAfterDemo
    BY DEF Inv, CpuInv
  <1> QED BY Invariance, <1>1, PTL

\* The nice value reported is five more than the first one, or 19, for every
\* first one.
THEOREM NiceReportedCorrect == LimitsSpec => []NiceReported
  <1>1. Inv => NiceReported
    BY DEF Inv, NiceInv, NiceReported
  <1> QED BY Invariance, <1>1, PTL

\* For every limit and every nice value at the start, what the program says of
\* them is so.
THEOREM ReportsTrueCorrect == LimitsSpec => []ReportsTrue
  <1>1. NofileAsSaid /\ NiceReported => ReportsTrue
    BY DEF ReportsTrue
  <1> QED BY <1>1, NofileAsSaidCorrect, NiceReportedCorrect, PTL

-----------------------------------------------------------------------------
(* file_operations.c                                                       *)

\* The points at which fd and stdout_copy are open and standard output is the
\* second file, and those before dup2().
FdOpen == {"write", "reopen", "read", "seek", "reread", "info", "dup", "open2",
           "redirect", "close2", "print", "restore", "close copy", "fcntl", "close"}
CopyOpen == {"open2", "redirect", "close2", "print", "restore", "close copy"}
Redirected == {"close2", "print", "restore"}
BeforeDup == {"open", "write", "reopen", "read", "seek", "reread", "info", "dup"}
BeforeDup2 == BeforeDup \cup {"open2", "redirect"}
BeforeReread == {"open", "write", "reopen", "read", "seek", "reread"}

\* What each descriptor refers to.
FileTable ==
  /\ pc \in FdOpen \cup {"open", "complete", "exit", "ended"}
  /\ file = [f \in Fds |-> file[f]]
  /\ \/ file["fd"] = IF pc \in FdOpen THEN "test" ELSE "closed"
     \/ file["fd"] = "lost" /\ pc \notin BeforeReread /\ got.part = -1
  /\ got = [all |-> got.all, part |-> got.part]
  /\ file["stdout_copy"] = IF saved /\ pc \in CopyOpen THEN "original" ELSE "closed"
  /\ file["fd_write"] = IF opened /\ pc \in {"redirect", "close2"} THEN "redirect"
                        ELSE "closed"
  /\ file["stdout"] = IF opened /\ (pc \in Redirected \/ (~saved /\ pc \notin BeforeDup2))
                      THEN "redirect" ELSE "original"
  /\ pc \in BeforeDup => ~saved /\ ~opened
  /\ pc = "open2" => ~opened

\* Each call that opens, copies or closes a descriptor keeps the table.
LEMMA TableStep == FileTable /\ [Next]_vars => FileTable'
  <1> SUFFICES ASSUME FileTable, [Next]_vars PROVE FileTable'
    OBVIOUS
  <1> USE DEF FileTable, FdOpen, CopyOpen, Redirected, BeforeDup, BeforeDup2, BeforeReread,
              Fds, okVars, dataVars
  <1>1. CASE Create BY <1>1 DEF Create
  <1>2. CASE Write BY <1>2 DEF Write
  <1>3. CASE Reopen BY <1>3 DEF Reopen
  <1>4. CASE ReadAll BY <1>4 DEF ReadAll
  <1>5. CASE Seek BY <1>5 DEF Seek
  <1>6. CASE Reread BY <1>6 DEF Reread
  <1>7. CASE PrintFileInfo BY <1>7 DEF PrintFileInfo
  <1>8. CASE SaveStdout BY <1>8 DEF SaveStdout
  <1>9. CASE OpenSecond BY <1>9 DEF OpenSecond
  <1>10. CASE Redirect BY <1>10 DEF Redirect, Dup2
  <1>11. CASE Close("fd_write", "close2", "print") BY <1>11 DEF Close
  <1>12. CASE PrintRedirected BY <1>12 DEF PrintRedirected
  <1>13. CASE RestoreStdout BY <1>13 DEF RestoreStdout, Dup2
  <1>14. CASE Close("stdout_copy", "close copy", "fcntl") BY <1>14 DEF Close
  <1>15. CASE Fcntl BY <1>15 DEF Fcntl
  <1>16. CASE Close("fd", "close", "complete") BY <1>16 DEF Close
  <1>17. CASE Complete BY <1>17 DEF Complete
  <1>18. CASE Exit BY <1>18 DEF Exit
  <1>19. CASE UNCHANGED vars BY <1>19 DEF vars
  <1> QED BY <1>1, <1>2, <1>3, <1>4, <1>5, <1>6, <1>7, <1>8, <1>9, <1>10, <1>11, <1>12, <1>13,
         <1>14, <1>15, <1>16, <1>17, <1>18, <1>19 DEF Next, Main, Terminated

\* Whichever call of file_operations.c fails, it ends with its own descriptors
\* closed and with standard output as it was, unless dup() had not saved it or a
\* failed read() had made it overwrite fd.
THEOREM DescriptorsRestoredCorrect == Spec => []DescriptorsRestored
  <1>1. Init => FileTable
    BY DEF Init, Fds, FileTable, FdOpen, CopyOpen, Redirected, BeforeDup,
           BeforeDup2, BeforeReread
  <1>2. FileTable => DescriptorsRestored
    BY DEF FileTable, FdOpen, BeforeReread, CopyOpen, Redirected, BeforeDup2, BeforeDup, Fds,
           DescriptorsRestored
  <1> QED BY <1>1, <1>2, TableStep, PTL DEF Spec

-----------------------------------------------------------------------------
(* Where the printed lines go                                              *)

Ordinary == {"creating", "writing", "reading", "content", "part", "info",
             "redirecting", "redirected", "flags", "complete"}
Line == Ordinary \cup InRedirection
TheTwo == <<"to the file", "this too">>
BeforePrint == BeforeDup2 \cup {"close2", "print"}

\* printed in three parts: before the two redirected lines, these, and after.
Split(b, c) ==
  /\ printed = (b \o TheTwo) \o c
  /\ out["original"] = IF saved THEN b \o c ELSE b
  /\ out["redirect"] = IF saved THEN TheTwo ELSE TheTwo \o c

\* The buffer, both files and what was printed, at every point.
Output ==
  /\ out = [original |-> out["original"], redirect |-> out["redirect"]]
  /\ printed \in Seq(Line)
  /\ pc \in BeforePrint => printed \in Seq(Ordinary)
  /\ tty => buf = <<>>
  /\ ~tty /\ pc # "ended" =>
       buf = printed /\ out["original"] = <<>> /\ out["redirect"] = <<>>
  /\ ~tty /\ pc = "ended" =>
       /\ out["original"] = IF opened /\ ~saved THEN <<>> ELSE printed
       /\ out["redirect"] = IF opened /\ ~saved THEN printed ELSE <<>>
  /\ tty /\ (~opened \/ pc \in BeforePrint) =>
       out["original"] = printed /\ out["redirect"] = <<>>
  /\ tty /\ opened /\ pc \notin BeforePrint => \E b, c \in Seq(Ordinary) : Split(b, c)

\* A step that prints nothing, and does not pass the two lines.
LEMMA SilentStep ==
  ASSUME Output, UNCHANGED <<ioVars, tty>>, pc # "ended", pc' # "ended",
         pc' \in BeforePrint <=> pc \in BeforePrint,
         pc \notin BeforePrint => UNCHANGED okVars
  PROVE  Output'
  <1>1. UNCHANGED <<buf, out, printed, tty>>
    BY DEF ioVars
  <1>2. CASE pc \in BeforePrint
    BY <1>1, <1>2 DEF Output
  <1>3. CASE pc \notin BeforePrint
    <2>1. ASSUME NEW b, NEW c, Split(b, c) PROVE Split(b, c)'
      BY <1>1, <1>3, <2>1 DEF Split, okVars
    <2>2. UNCHANGED <<saved, opened>> /\ pc' \notin BeforePrint
      BY <1>3 DEF okVars
    <2> QED BY <1>1, <1>3, <2>1, <2>2 DEF Output
  <1> QED BY <1>2, <1>3

\* It does not matter in which order lines are put together.
LEMMA LinesInARow ==
  \A s, t, u \in Seq(Line) : (s \o t) \o u = s \o (t \o u)
  <1>1. ASSUME NEW s \in Seq(Line), NEW t \in Seq(Line), NEW u \in Seq(Line)
        PROVE  (s \o t) \o u = s \o (t \o u)
    BY ConcatAssociative
  <1> QED BY <1>1, Zenon

\* More lines after the two, in both files.
LEMMA SplitAppend ==
  ASSUME NEW b \in Seq(Ordinary), NEW c \in Seq(Ordinary), NEW l \in Seq(Ordinary)
  PROVE  /\ c \o l \in Seq(Ordinary)
         /\ ((b \o TheTwo) \o c) \o l = (b \o TheTwo) \o (c \o l)
         /\ (b \o c) \o l = b \o (c \o l)
         /\ (TheTwo \o c) \o l = TheTwo \o (c \o l)
  <1>1. /\ b \in Seq(Line) /\ c \in Seq(Line) /\ l \in Seq(Line)
        /\ TheTwo \in Seq(Line)
    <2>1. \A t \in Seq(Ordinary) : t \in Seq(Line)
      BY DEF Line
    <2>2. TheTwo \in Seq(Line)
      BY DEF Line, TheTwo, InRedirection
    <2> QED BY <2>1, <2>2
  <1>2. b \o TheTwo \in Seq(Line) /\ c \o l \in Seq(Ordinary)
    BY <1>1, ConcatProperties, Zenon
  <1>3. ((b \o TheTwo) \o c) \o l = (b \o TheTwo) \o (c \o l)
    BY <1>1, <1>2, LinesInARow, ZenonT(60)
  <1>4. (b \o c) \o l = b \o (c \o l)
    BY <1>1, LinesInARow, Zenon
  <1>5. (TheTwo \o c) \o l = TheTwo \o (c \o l)
    BY <1>1, LinesInARow, Zenon
  <1> QED BY <1>2, <1>3, <1>4, <1>5, Zenon

\* Ordinary lines are lines, and so are they in a row.
LEMMA OrdinaryLines ==
  /\ \A t \in Seq(Ordinary) : t \in Seq(Line)
  /\ TheTwo \in Seq(Line)
  /\ \A t, u \in Seq(Ordinary) : t \o u \in Seq(Ordinary)
  /\ \A t, u \in Seq(Line) : t \o u \in Seq(Line)
  <1>1. \A t \in Seq(Ordinary) : t \in Seq(Line)
    BY DEF Line
  <1>2. TheTwo \in Seq(Line)
    BY DEF Line, TheTwo, InRedirection
  <1> QED BY <1>1, <1>2, ConcatProperties

\* printf() of ordinary lines at a point where standard output is what it was
\* at the start, or the second file for good.
LEMMA OrdinaryStep ==
  ASSUME Output, NEW l \in Seq(Ordinary), Printf(l), UNCHANGED <<tty, opened>>,
         pc # "ended", pc' # "ended",
         pc \in BeforePrint => pc' \in BeforePrint \/ ~opened,
         pc \in BeforePrint => file["stdout"] = "original",
         pc \notin BeforePrint => pc' \notin BeforePrint /\ UNCHANGED saved,
         pc \notin BeforePrint =>
           file["stdout"] = IF opened /\ ~saved THEN "redirect" ELSE "original"
  PROVE  Output'
  <1>1. printed' = printed \o l /\ printed \in Seq(Line) /\ l \in Seq(Line)
    BY OrdinaryLines DEF Printf, Output
  <1>2. printed' \in Seq(Line)
    BY <1>1, OrdinaryLines
  <1>3. pc' \in BeforePrint => printed' \in Seq(Ordinary)
    BY <1>1, OrdinaryLines DEF Output
  <1>4. CASE ~tty
    <2>1. buf' = buf \o l /\ out' = out /\ ~tty' /\ buf = printed
      BY <1>4 DEF Printf, Output
    <2>2. buf' = printed'
      BY <1>1, <2>1
    <2> QED BY <1>2, <1>3, <1>4, <2>1, <2>2 DEF Output
  <1>5. CASE tty
    <2>1. /\ out' = [out EXCEPT ![file["stdout"]] = @ \o l] /\ buf' = buf /\ tty'
          /\ buf = <<>>
          /\ out = [original |-> out["original"], redirect |-> out["redirect"]]
      BY <1>5 DEF Printf, Output
    <2>2. file["stdout"] \in {"original", "redirect"}
      OBVIOUS
    <2>3. out' = [original |-> out'["original"], redirect |-> out'["redirect"]]
      BY <2>1, <2>2
    <2>4. CASE ~opened \/ pc \in BeforePrint
      <3>1. file["stdout"] = "original"
        BY <2>4
      <3>2. out'["original"] = printed \o l /\ out'["redirect"] = <<>>
        BY <1>5, <2>1, <2>4, <3>1 DEF Output
      <3>3. ~opened' \/ pc' \in BeforePrint
        BY <2>4
      <3> QED BY <1>1, <1>2, <1>3, <2>1, <2>3, <3>2, <3>3 DEF Output
    <2>5. CASE opened /\ pc \notin BeforePrint
      <3>1. PICK b \in Seq(Ordinary), c \in Seq(Ordinary) : Split(b, c)
        BY <1>5, <2>5 DEF Output
      <3>2. Split(b, c \o l)'
        <4>1. saved' = saved
          BY <2>5
        <4>2. CASE saved
          <5>1. out'["original"] = (b \o c) \o l /\ out'["redirect"] = TheTwo
            BY <2>1, <2>5, <3>1, <4>2 DEF Split
          <5> QED BY <1>1, <3>1, <4>1, <4>2, <5>1, SplitAppend, ZenonT(60) DEF Split
        <4>3. CASE ~saved
          <5>1. out'["original"] = b /\ out'["redirect"] = (TheTwo \o c) \o l
            BY <2>1, <2>5, <3>1, <4>3 DEF Split
          <5>2. /\ printed' = (b \o TheTwo) \o (c \o l)
                /\ out'["redirect"] = TheTwo \o (c \o l)
            <6>1. printed = (b \o TheTwo) \o c
              BY <3>1 DEF Split
            <6>2. ((b \o TheTwo) \o c) \o l = (b \o TheTwo) \o (c \o l)
              BY <3>1, SplitAppend, Zenon
            <6>3. (TheTwo \o c) \o l = TheTwo \o (c \o l)
              BY OrdinaryLines, LinesInARow, ZenonT(60)
            <6> QED BY <1>1, <5>1, <6>1, <6>2, <6>3, Zenon
          <5> QED BY <4>1, <4>3, <5>1, <5>2 DEF Split
        <4> QED BY <4>2, <4>3
      <3>3. c \o l \in Seq(Ordinary)
        BY OrdinaryLines
      <3>4. opened' /\ pc' \notin BeforePrint
        BY <2>5
      <3> QED BY <1>2, <1>3, <2>1, <2>3, <3>2, <3>3, <3>4 DEF Output
    <2> QED BY <2>4, <2>5
  <1> QED BY <1>4, <1>5

\* Every line is one of Ordinary or one of the two.
LEMMA LineSets ==
  /\ <<"creating">> \in Seq(Ordinary) /\ <<"writing">> \in Seq(Ordinary)
  /\ <<"reading">> \in Seq(Ordinary) /\ <<"content">> \in Seq(Ordinary)
  /\ <<"part">> \in Seq(Ordinary) /\ <<"info">> \in Seq(Ordinary)
  /\ <<"redirecting">> \in Seq(Ordinary) /\ <<"redirected">> \in Seq(Ordinary)
  /\ <<"redirected", "flags">> \in Seq(Ordinary) /\ <<"complete">> \in Seq(Ordinary)
  BY DEF Ordinary

\* The two lines themselves.
LEMMA TheTwoStep == ASSUME Output, FileTable, PrintRedirected PROVE Output'
  <1>1. /\ pc = "print" /\ pc' = "restore" /\ UNCHANGED <<tty, saved, opened>>
        /\ Printf(TheTwo)
    BY DEF PrintRedirected, TheTwo, okVars
  <1>2. /\ pc \in BeforePrint /\ pc' \notin BeforePrint
        /\ file["stdout"] = IF opened THEN "redirect" ELSE "original"
    BY <1>1 DEF FileTable, BeforePrint, BeforeDup2, BeforeDup, Redirected
  <1>3. printed' = printed \o TheTwo /\ printed \in Seq(Ordinary) /\ printed \in Seq(Line)
    BY <1>1, <1>2 DEF Printf, Output
  <1>4. printed' \in Seq(Line)
    BY <1>3, OrdinaryLines
  <1>5. CASE ~tty
    <2>1. buf' = printed' /\ out' = out /\ ~tty'
      BY <1>1, <1>3, <1>5 DEF Printf, Output
    <2> QED BY <1>1, <1>2, <1>4, <1>5, <2>1 DEF Output
  <1>6. CASE tty
    <2>1. /\ out' = [out EXCEPT ![file["stdout"]] = @ \o TheTwo] /\ buf' = buf /\ tty'
          /\ buf = <<>> /\ out["original"] = printed /\ out["redirect"] = <<>>
          /\ out = [original |-> out["original"], redirect |-> out["redirect"]]
      BY <1>1, <1>2, <1>6 DEF Printf, Output
    <2>2. out' = [original |-> out'["original"], redirect |-> out'["redirect"]]
      BY <1>2, <2>1
    <2>3. CASE ~opened
      <3>1. out'["original"] = printed' /\ out'["redirect"] = <<>>
        BY <1>2, <1>3, <2>1, <2>3
      <3> QED BY <1>1, <1>2, <1>4, <2>1, <2>2, <2>3, <3>1 DEF Output
    <2>4. CASE opened
      <3>1. out'["original"] = printed /\ out'["redirect"] = <<>> \o TheTwo
        BY <1>2, <2>1, <2>4
      <3>2. /\ TheTwo \in Seq(Line) /\ printed \o TheTwo \in Seq(Line)
            /\ <<>> \in Seq(Ordinary)
        BY <1>3, OrdinaryLines
      <3>3. /\ <<>> \o TheTwo = TheTwo /\ TheTwo \o <<>> = TheTwo
            /\ printed \o <<>> = printed
            /\ (printed \o TheTwo) \o <<>> = printed \o TheTwo
        BY <1>3, <3>2, ConcatEmptySeq
      <3>4. /\ out'["original"] = IF saved' THEN printed \o <<>> ELSE printed
            /\ out'["redirect"] = IF saved' THEN TheTwo ELSE TheTwo \o <<>>
        BY <3>1, <3>3
      <3>5. printed' = (printed \o TheTwo) \o <<>>
        BY <1>3, <3>3
      <3>6. \E b, c \in Seq(Ordinary) :
              /\ printed' = (b \o TheTwo) \o c
              /\ out'["original"] = IF saved' THEN b \o c ELSE b
              /\ out'["redirect"] = IF saved' THEN TheTwo ELSE TheTwo \o c
        BY <1>3, <3>2, <3>4, <3>5, Zenon
      <3>7. (\E b, c \in Seq(Ordinary) : Split(b, c))'
        BY <3>6 DEF Split
      <3> QED BY <1>1, <1>2, <1>4, <2>1, <2>2, <2>4, <3>7 DEF Output
    <2> QED BY <2>3, <2>4
  <1> QED BY <1>5, <1>6

\* The end: the buffer goes where standard output is by then.
LEMMA ExitStep == ASSUME Output, FileTable, Exit PROVE Output'
  <1>1. /\ pc = "exit" /\ pc' = "ended" /\ UNCHANGED <<tty, printed, saved, opened>>
        /\ out' = [out EXCEPT ![file["stdout"]] = @ \o buf] /\ buf' = <<>>
    BY DEF Exit, okVars
  <1>2. /\ pc \notin BeforePrint /\ pc' \notin BeforePrint
        /\ file["stdout"] = IF opened /\ ~saved THEN "redirect" ELSE "original"
    BY <1>1 DEF FileTable, BeforePrint, BeforeDup2, BeforeDup, Redirected
  <1>3. out = [original |-> out["original"], redirect |-> out["redirect"]]
    BY DEF Output
  <1>4. /\ out' = [original |-> out'["original"], redirect |-> out'["redirect"]]
        /\ out'["original"] = IF opened /\ ~saved THEN out["original"]
                              ELSE out["original"] \o buf
        /\ out'["redirect"] = IF opened /\ ~saved THEN out["redirect"] \o buf
                              ELSE out["redirect"]
    BY <1>1, <1>2, <1>3
  <1>5. printed' \in Seq(Line)
    BY <1>1 DEF Output
  <1>6. CASE ~tty
    <2>1. <<>> \o buf = printed /\ out["original"] = <<>> /\ out["redirect"] = <<>>
      BY <1>1, <1>6, ConcatEmptySeq DEF Output
    <2>2. /\ out'["original"] = IF opened' /\ ~saved' THEN <<>> ELSE printed'
          /\ out'["redirect"] = IF opened' /\ ~saved' THEN printed' ELSE <<>>
      BY <1>1, <1>4, <2>1
    <2>3. ~tty' /\ pc' = "ended"
      BY <1>1, <1>6
    <2> QED BY <1>2, <1>4, <1>5, <2>2, <2>3 DEF Output
  <1>7. CASE tty
    <2>1. buf = <<>>
      BY <1>7 DEF Output
    <2>2. out["original"] \in Seq(Line) /\ out["redirect"] \in Seq(Line)
      <3>1. CASE ~opened
        BY <1>7, <3>1, EmptySeq DEF Output
      <3>2. CASE opened
        <4>1. PICK b \in Seq(Ordinary), c \in Seq(Ordinary) : Split(b, c)
          BY <1>2, <1>7, <3>2 DEF Output
        <4>2. b \o c \in Seq(Line) /\ TheTwo \o c \in Seq(Line)
          BY OrdinaryLines
        <4> QED BY <4>1, <4>2, OrdinaryLines DEF Split
      <3> QED BY <3>1, <3>2
    <2>3. out["original"] \o buf = out["original"] /\ out["redirect"] \o buf = out["redirect"]
      BY <2>1, <2>2, ConcatEmptySeq
    <2>4. out'["original"] = out["original"] /\ out'["redirect"] = out["redirect"]
      BY <1>4, <2>3
    <2>5. ASSUME NEW b, NEW c, Split(b, c) PROVE Split(b, c)'
      BY <1>1, <2>4, <2>5 DEF Split
    <2> QED BY <1>1, <1>2, <1>4, <1>5, <1>7, <2>4, <2>5 DEF Output
  <1> QED BY <1>6, <1>7

\* Each step prints ordinary lines, the two, or nothing.
LEMMA OutputStep == FileTable /\ Output /\ [Next]_vars => Output'
  <1> SUFFICES ASSUME FileTable, Output, [Next]_vars PROVE Output'
    OBVIOUS
  <1> USE LineSets DEF FileTable, BeforePrint, BeforeDup2, BeforeDup, Redirected, okVars
  <1>1. CASE Create BY <1>1, OrdinaryStep DEF Create
  <1>2. CASE Write BY <1>2, OrdinaryStep DEF Write
  <1>3. CASE Reopen BY <1>3, OrdinaryStep DEF Reopen
  <1>4. CASE ReadAll BY <1>4, OrdinaryStep, ZenonT(60) DEF ReadAll
  <1>5. CASE Seek BY <1>5, SilentStep DEF Seek
  <1>6. CASE Reread BY <1>6, OrdinaryStep DEF Reread
  <1>7. CASE PrintFileInfo BY <1>7, OrdinaryStep, SilentStep DEF PrintFileInfo
  <1>8. CASE SaveStdout BY <1>8, OrdinaryStep DEF SaveStdout
  <1>9. CASE OpenSecond BY <1>9, SilentStep DEF OpenSecond
  <1>10. CASE Redirect BY <1>10, SilentStep DEF Redirect
  <1>11. CASE Close("fd_write", "close2", "print") BY <1>11, SilentStep DEF Close
  <1>12. CASE PrintRedirected BY <1>12, TheTwoStep
  <1>13. CASE RestoreStdout BY <1>13, SilentStep DEF RestoreStdout
  <1>14. CASE Close("stdout_copy", "close copy", "fcntl") BY <1>14, SilentStep DEF Close
  <1>15. CASE Fcntl BY <1>15, OrdinaryStep DEF Fcntl
  <1>16. CASE Close("fd", "close", "complete") BY <1>16, SilentStep DEF Close
  <1>17. CASE Complete BY <1>17, OrdinaryStep DEF Complete
  <1>18. CASE Exit BY <1>18, ExitStep
  <1>19. CASE UNCHANGED vars
    <2>1. UNCHANGED <<pc, tty, buf, out, printed, saved, opened>>
      BY <1>19 DEF vars, ioVars
    <2>2. ASSUME NEW b, NEW c, Split(b, c) PROVE Split(b, c)'
      BY <2>1, <2>2 DEF Split
    <2> QED BY <2>1, <2>2 DEF Output
  <1> QED BY <1>1, <1>2, <1>3, <1>4, <1>5, <1>6, <1>7, <1>8, <1>9, <1>10, <1>11, <1>12,
         <1>13, <1>14, <1>15, <1>16, <1>17, <1>18, <1>19 DEF Next, Main, Terminated

\* The two parts of a sequence made of two, found by their places in it.
LEMMA TwoParts ==
  ASSUME NEW S, NEW p \in Seq(S), NEW q \in Seq(S)
  PROVE  /\ SubSeq(p \o q, 1, Len(p)) = p
         /\ SubSeq(p \o q, Len(p) + 1, Len(p) + Len(q)) = q
  <1> DEFINE s == p \o q
  <1>1. /\ s \in Seq(S) /\ Len(s) = Len(p) + Len(q)
        /\ \A i \in 1..Len(p) + Len(q) : s[i] = IF i <= Len(p) THEN p[i] ELSE q[i - Len(p)]
        /\ Len(p) \in Nat /\ Len(q) \in Nat
    BY ConcatProperties, LenProperties
  <1>2. \A i \in 1..Len(s) : s[i] \in S
    BY <1>1, ElementOfSeq
  <1> HIDE DEF s
  <1>3. SubSeq(s, 1, Len(p)) = p
    <2> DEFINE t == SubSeq(s, 1, Len(p))
    <2>1. \A i \in 1..Len(p) : s[i] \in S /\ s[i] = p[i]
      BY <1>1, <1>2
    <2>2. t \in Seq(S) /\ Len(t) = Len(p) /\ \A i \in 1..Len(p) : t[i] = s[i]
      BY <1>1, <2>1, SubSeqProperties
    <2> HIDE DEF t
    <2>3. t = p
      BY <2>1, <2>2, SeqEqual
    <2> QED BY <2>3 DEF t
  <1>4. SubSeq(s, Len(p) + 1, Len(p) + Len(q)) = q
    <2> DEFINE t == SubSeq(s, Len(p) + 1, Len(p) + Len(q))
    <2>1. \A i \in Len(p) + 1..Len(p) + Len(q) : s[i] \in S
      BY <1>1, <1>2
    <2>2. /\ t \in Seq(S) /\ Len(t) = Len(q)
          /\ \A i \in 1..Len(q) : t[i] = s[Len(p) + i]
      BY <1>1, <2>1, SubSeqProperties
    <2>3. \A i \in 1..Len(q) : s[Len(p) + i] = q[i]
      BY <1>1, SMTT(40)
    <2> HIDE DEF t
    <2>4. t = q
      BY <2>2, <2>3, SeqEqual
    <2> QED BY <2>4 DEF t
  <1> QED BY <1>3, <1>4 DEF s

\* The parts before, at and after the two lines.
LEMMA PartsOfSplit ==
  ASSUME NEW b \in Seq(Ordinary), NEW c \in Seq(Ordinary),
         printed = (b \o TheTwo) \o c
  PROVE  \E k \in 0..Len(printed) - 2 :
           /\ \A i \in 1..Len(printed) : printed[i] \in InRedirection <=> i \in {k + 1, k + 2}
           /\ SubSeq(printed, 1, k) = b /\ SubSeq(printed, k + 1, k + 2) = TheTwo
           /\ SubSeq(printed, k + 3, Len(printed)) = c
           /\ SubSeq(printed, k + 1, Len(printed)) = TheTwo \o c
  <1> DEFINE k == Len(b)
  <1> DEFINE d == b \o TheTwo
  <1> DEFINE e == TheTwo \o c
  <1>1. b \in Seq(Line) /\ c \in Seq(Line) /\ TheTwo \in Seq(Line)
    BY OrdinaryLines
  <1>2. Len(TheTwo) = 2 /\ TheTwo[1] = "to the file" /\ TheTwo[2] = "this too"
    BY DEF TheTwo
  <1>3. d \in Seq(Line) /\ e \in Seq(Line) /\ printed = d \o c /\ printed = b \o e
    <2>1. d \in Seq(Line) /\ e \in Seq(Line)
      BY <1>1, OrdinaryLines
    <2>2. (b \o TheTwo) \o c = b \o (TheTwo \o c)
      BY <1>1, OrdinaryLines, LinesInARow, Zenon
    <2> QED BY <2>1, <2>2
  <1>4. k \in Nat /\ Len(c) \in Nat
    BY <1>1, LenProperties
  <1>5. /\ Len(d) = k + 2 /\ Len(e) = 2 + Len(c)
        /\ \A i \in 1..k + 2 : d[i] = IF i <= k THEN b[i] ELSE TheTwo[i - k]
    <2>1. /\ Len(d) = k + Len(TheTwo)
          /\ \A i \in 1..k + Len(TheTwo) : d[i] = IF i <= k THEN b[i] ELSE TheTwo[i - k]
      BY <1>1, ConcatProperties, Zenon
    <2>2. Len(e) = Len(TheTwo) + Len(c)
      BY <1>1, ConcatProperties, Zenon
    <2> QED BY <1>2, <2>1, <2>2
  <1> HIDE DEF d, e, k
  <1>6. /\ Len(printed) = k + 2 + Len(c)
        /\ \A i \in 1..Len(printed) : printed[i] = IF i <= k + 2 THEN d[i] ELSE c[i - (k + 2)]
    <2>1. /\ Len(d \o c) = Len(d) + Len(c)
          /\ \A i \in 1..Len(d) + Len(c) :
               (d \o c)[i] = IF i <= Len(d) THEN d[i] ELSE c[i - Len(d)]
      BY <1>1, <1>3, ConcatProperties, Zenon
    <2> QED BY <1>3, <1>5, <2>1
  <1>7. /\ SubSeq(printed, 1, k) = b /\ SubSeq(printed, k + 1, k + Len(e)) = e
    BY <1>1, <1>3, TwoParts DEF k
  <1>8. SubSeq(printed, 1, k + 2) = d /\ SubSeq(printed, k + 3, Len(printed)) = c
    <2>1. SubSeq(printed, 1, Len(d)) = d /\ SubSeq(printed, Len(d) + 1, Len(d) + Len(c)) = c
      <3>1. /\ SubSeq(d \o c, 1, Len(d)) = d
            /\ SubSeq(d \o c, Len(d) + 1, Len(d) + Len(c)) = c
        BY <1>1, <1>3, TwoParts, ZenonT(60)
      <3> QED BY <1>3, <3>1
    <2>2. Len(d) + 1 = k + 3 /\ Len(d) + Len(c) = Len(printed) /\ Len(d) = k + 2
      BY <1>4, <1>5, <1>6
    <2> QED BY <2>1, <2>2, Zenon
  <1>9. SubSeq(printed, k + 1, Len(printed)) = e
    <2>1. k + Len(e) = Len(printed)
      BY <1>4, <1>5, <1>6
    <2> QED BY <1>7, <2>1, Zenon
  <1>10. SubSeq(printed, k + 1, k + 2) = TheTwo
    <2>1. SubSeq(e, 1, 2) = TheTwo
      BY <1>1, <1>2, TwoParts DEF e
    <2>2. /\ Len(b) = k /\ k + 1 \in k + 1..k + Len(e) /\ k + 2 \in k + 1..k + Len(e)
          /\ (k + 1) - k = 1 /\ (k + 2) - k = 2
      BY <1>4, <1>5 DEF k
    <2>3. SubSeq(b \o e, k + 1, k + 2) = SubSeq(e, (k + 1) - k, (k + 2) - k)
      <3>1. \A m, n \in k + 1..k + Len(e) : SubSeq(b \o e, m, n) = SubSeq(e, m - k, n - k)
        BY <1>1, <1>3, SubSeqOfConcat2 DEF k
      <3> QED BY <2>2, <3>1, Zenon
    <2> QED BY <1>3, <2>1, <2>2, <2>3
  <1>11. ASSUME NEW i \in 1..Len(printed)
         PROVE  printed[i] \in InRedirection <=> i \in {k + 1, k + 2}
    <2>1. CASE i \in 1..k
      <3>1. printed[i] = b[i] /\ b[i] \in Ordinary
        BY <1>4, <1>5, <1>6, <2>1, ElementOfSeq DEF k
      <3>2. printed[i] \notin InRedirection
        BY <3>1 DEF Ordinary, InRedirection
      <3>3. i \notin {k + 1, k + 2}
        BY <1>4, <2>1
      <3> QED BY <3>2, <3>3
    <2>2. CASE i = k + 1
      <3>1. printed[i] = TheTwo[1]
        BY <1>4, <1>5, <1>6, <2>2
      <3> QED BY <1>2, <2>2, <3>1 DEF InRedirection
    <2>3. CASE i = k + 2
      <3>1. printed[i] = TheTwo[2]
        BY <1>4, <1>5, <1>6, <2>3
      <3> QED BY <1>2, <2>3, <3>1 DEF InRedirection
    <2>4. CASE i > k + 2
      <3>1. i - (k + 2) \in 1..Len(c) /\ printed[i] = c[i - (k + 2)]
        BY <1>4, <1>6, <2>4
      <3>2. printed[i] \in Ordinary
        BY <3>1, ElementOfSeq
      <3>3. printed[i] \notin InRedirection
        BY <3>2 DEF Ordinary, InRedirection
      <3>4. i \notin {k + 1, k + 2}
        BY <1>4, <2>4
      <3> QED BY <3>3, <3>4
    <2> QED BY <1>4, <2>1, <2>2, <2>3, <2>4
  <1>12. k \in 0..Len(printed) - 2
    BY <1>4, <1>6
  <1> QED BY <1>7, <1>8, <1>9, <1>10, <1>11, <1>12 DEF e

\* The ends of a sequence of lines.
LEMMA WholeAndNone ==
  ASSUME NEW s \in Seq(Line)
  PROVE  /\ SubSeq(s, 1, Len(s)) = s
         /\ SubSeq(s, 1, 0) = <<>> /\ SubSeq(s, Len(s) + 1, Len(s)) = <<>>
         /\ s \o <<>> = s /\ <<>> \o s = s /\ Len(s) \in Nat
  <1>1. s \o <<>> = s /\ <<>> \o s = s /\ <<>> \in Seq(Line) /\ Len(s) \in Nat
    BY ConcatEmptySeq, EmptySeq, LenProperties
  <1>2. Len(<<>>) = 0
    OBVIOUS
  <1>3. /\ SubSeq(s \o <<>>, 1, Len(s)) = s
        /\ SubSeq(s \o <<>>, Len(s) + 1, Len(s) + Len(<<>>)) = <<>>
    BY <1>1, TwoParts, Zenon
  <1>4. SubSeq(<<>> \o s, 1, Len(<<>>)) = <<>>
    BY <1>1, TwoParts, Zenon
  <1>5. Len(s) + Len(<<>>) = Len(s)
    BY <1>1, <1>2
  <1> QED BY <1>1, <1>2, <1>3, <1>4, <1>5

\* The second file holds the lines from i + 1 to j, the first one the others.
Cut(i, j) ==
  /\ i <= j
  /\ out = [original |-> SubSeq(printed, 1, i) \o SubSeq(printed, j + 1, Len(printed)),
            redirect |-> SubSeq(printed, i + 1, j)]

\* Output says what the property asks for.
LEMMA OutputImplies == Output => LinesKept
  <1> SUFFICES ASSUME Output, pc = "ended" PROVE LinesKept
    BY DEF LinesKept
  <1>1. pc \notin BeforePrint
    BY DEF BeforePrint, BeforeDup2, BeforeDup
  <1>2. /\ out = [original |-> out["original"], redirect |-> out["redirect"]]
        /\ printed \in Seq(Line)
    BY DEF Output
  <1>3. /\ SubSeq(printed, 1, Len(printed)) = printed
        /\ SubSeq(printed, 1, 0) = <<>> /\ SubSeq(printed, Len(printed) + 1, Len(printed)) = <<>>
        /\ printed \o <<>> = printed /\ <<>> \o <<>> = <<>> /\ Len(printed) \in Nat
    BY <1>2, WholeAndNone
  <1>4. ASSUME ~opened \/ (saved /\ ~tty)
        PROVE  Cut(Len(printed), Len(printed))
    <2>1. out["original"] = printed /\ out["redirect"] = <<>>
      BY <1>1, <1>4 DEF Output
    <2>2. Len(printed) <= Len(printed)
      BY <1>3
    <2> QED BY <1>2, <1>3, <2>1, <2>2, Zenon DEF Cut
  <1>5. ASSUME opened, ~saved, ~tty
        PROVE  Cut(0, Len(printed))
    <2>1. out["original"] = <<>> /\ out["redirect"] = printed
      BY <1>1, <1>5 DEF Output
    <2>2. 0 <= Len(printed) /\ 0 + 1 = 1
      BY <1>3
    <2> QED BY <1>2, <1>3, <2>1, <2>2, Zenon DEF Cut
  <1>6. ASSUME opened, tty
        PROVE  \E i, j \in 0..Len(printed) :
                 /\ Cut(i, j) /\ j = IF saved THEN i + 2 ELSE Len(printed)
                 /\ \A n \in 1..Len(printed) :
                      printed[n] \in InRedirection <=> n \in {i + 1, i + 2}
    <2>1. PICK b \in Seq(Ordinary), c \in Seq(Ordinary) : Split(b, c)
      BY <1>1, <1>6 DEF Output
    <2>2. PICK k \in 0..Len(printed) - 2 :
            /\ \A i \in 1..Len(printed) :
                 printed[i] \in InRedirection <=> i \in {k + 1, k + 2}
            /\ SubSeq(printed, 1, k) = b /\ SubSeq(printed, k + 1, k + 2) = TheTwo
            /\ SubSeq(printed, k + 3, Len(printed)) = c
            /\ SubSeq(printed, k + 1, Len(printed)) = TheTwo \o c
      <3>1. printed = (b \o TheTwo) \o c
        BY <2>1 DEF Split
      <3> HIDE DEF Split
      <3> QED BY <2>1, <3>1, PartsOfSplit, Zenon
    <2>3. /\ out["original"] = IF saved THEN b \o c ELSE b
          /\ out["redirect"] = IF saved THEN TheTwo ELSE TheTwo \o c
      BY <2>1 DEF Split
    <2>4. /\ k \in 0..Len(printed) /\ k + 2 \in 0..Len(printed)
          /\ Len(printed) \in 0..Len(printed)
          /\ k <= k + 2 /\ k <= Len(printed) /\ (k + 2) + 1 = k + 3
      BY <1>3
    <2>5. CASE saved
      <3>1. Cut(k, k + 2)
        BY <1>2, <2>2, <2>3, <2>4, <2>5, Zenon DEF Cut
      <3> HIDE DEF Cut
      <3> QED BY <2>2, <2>4, <2>5, <3>1, Zenon
    <2>6. CASE ~saved
      <3>1. b \o <<>> = b
        BY OrdinaryLines, WholeAndNone, Zenon
      <3>2. Cut(k, Len(printed))
        BY <1>2, <1>3, <2>2, <2>3, <2>4, <2>6, <3>1, Zenon DEF Cut
      <3> HIDE DEF Cut
      <3> QED BY <2>2, <2>4, <2>6, <3>2, Zenon
    <2> QED BY <2>5, <2>6
  <1>7. SUFFICES \E i, j \in 0..Len(printed) :
          /\ Cut(i, j)
          /\ ~opened => i = j
          /\ opened /\ tty =>
               /\ j = IF saved THEN i + 2 ELSE Len(printed)
               /\ \A n \in 1..Len(printed) :
                    printed[n] \in InRedirection <=> n \in {i + 1, i + 2}
    BY <1>7, Zenon DEF LinesKept, Cut
  <1>8. 0 \in 0..Len(printed) /\ Len(printed) \in 0..Len(printed)
    BY <1>3
  <1> HIDE DEF Cut
  <1>9. CASE ~opened \/ (saved /\ ~tty)
    BY <1>4, <1>8, <1>9, Zenon
  <1>10. CASE opened /\ ~saved /\ ~tty
    BY <1>5, <1>8, <1>10, Zenon
  <1>11. CASE opened /\ tty
    BY <1>6, <1>11, Zenon
  <1> QED BY <1>9, <1>10, <1>11

\* On every path through file_operations.c no line is lost, written twice or moved,
\* and on a terminal the two lines between the dup2() calls go to the second file.
THEOREM LinesKeptCorrect == Spec => []LinesKept
  <1>1. Init => FileTable /\ Output
    BY EmptySeq DEF Init, Fds, FileTable, FdOpen, CopyOpen, Redirected, BeforeDup,
           BeforeDup2, BeforeReread, BeforePrint, Output
  <1>2. FileTable /\ Output /\ [Next]_vars => FileTable' /\ Output'
    BY TableStep, OutputStep
  <1> QED BY <1>1, <1>2, OutputImplies, PTL DEF Spec

=============================================================================
