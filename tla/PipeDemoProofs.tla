--------------------------- MODULE PipeDemoProofs ---------------------------
(***************************************************************************)
(* What pipe_demo.c promises, for any number of lines ls writes, any       *)
(* capacity of the pipe and any output of main that a failed execlp        *)
(* flushes into it.                                                        *)
(*                                                                         *)
(* PInv, the inductive invariant of the pipeline, ties the descriptors of  *)
(* each process to its program point: the end of file wc waits for comes   *)
(* only when parent, ls and wc have all closed the write end, and that is  *)
(* where the count of lines is complete.  For the same reason no three of  *)
(* them wait for one another.                                              *)
(*                                                                         *)
(* MInv, that of the message demos, does the same for their pipes and says *)
(* which messages are on the way: a read() that is not looked at is right  *)
(* because it can only return when the message is there.                   *)
(***************************************************************************)
EXTENDS PipeDemo, TLAPS

\* The program points of the parent and of its two children.
Gone == {"none", "zombie", "reaped"}
ParentPoints == {"pipe", "fork1", "fork2", "close0", "close1", "wait1", "wait2",
                 "returned"}
LsPoints == Gone \cup {"close0", "dup2", "close1", "exec", "run"}
WcPoints == Gone \cup {"close1", "dup2", "close0", "exec", "run"}

\* What each of a process's four descriptors refers to.
Table(in, out, p0, p1) ==
  [f \in Fds |-> CASE f = "in" -> in [] f = "out" -> out
                   [] f = "p0" -> p0 [] f = "p1" -> p1]

\* The descriptors of each process follow from where it is.
ParentTable(at) ==
  Table("std", "std",
        IF at \in {"fork1", "fork2", "close0"} THEN "r" ELSE "closed",
        IF at \in {"fork1", "fork2", "close0", "close1"} THEN "w" ELSE "closed")

LsTable(at) ==
  IF at \in Gone THEN NoFds
  ELSE Table("std", IF at \in {"close1", "exec", "run"} THEN "w" ELSE "std",
             IF at = "close0" THEN "r" ELSE "closed",
             IF at \in {"exec", "run"} THEN "closed" ELSE "w")

WcTable(at) ==
  IF at \in Gone THEN NoFds
  ELSE Table(IF at \in {"close0", "exec", "run"} THEN "r" ELSE "std", "std",
             IF at \in {"exec", "run"} THEN "closed" ELSE "r",
             IF at = "close1" THEN "w" ELSE "closed")

\* Where the processes may be, and how many lines there are where.
Types ==
  /\ DOMAIN pc = Processes /\ pc["parent"] \in ParentPoints
  /\ pc["ls"] \in LsPoints /\ pc["wc"] \in WcPoints
  /\ pipe \in Nat /\ left \in Nat /\ count \in Nat /\ shown \in Int
  /\ forked \subseteq {"ls", "wc"}

\* Each process has the descriptors of its program point and no others.
Descriptors ==
  /\ fd = [p \in Processes |-> fd[p]]
  /\ fd["parent"] = ParentTable(pc["parent"])
  /\ fd["ls"] = LsTable(pc["ls"]) /\ fd["wc"] = WcTable(pc["wc"])

\* A child exists from its fork() to its waitpid().
Forks ==
  /\ pc["ls"] = "none" <=> "ls" \notin forked
  /\ pc["wc"] = "none" <=> "wc" \notin forked
  /\ pc["parent"] \in {"pipe", "fork1"} => pc["ls"] = "none"
  /\ pc["parent"] \in {"pipe", "fork1", "fork2"} => pc["wc"] = "none"
  /\ pc["parent"] \in {"wait2", "returned"} => pc["ls"] \in {"none", "reaped"}
  /\ pc["parent"] = "returned" => pc["wc"] \in {"none", "reaped"}

\* Somebody may still read the pipe, or has read it to its end.
MayRead == pc["parent"] = "fork2" \/ pc["wc"] \notin Gone \/ shown # -1

\* No line is lost between ls and wc as long as somebody may read it.
Lines ==
  /\ pc["ls"] \in {"none", "close0", "dup2", "close1", "exec"}
       => left = LsLines /\ pipe = 0 /\ count = 0
  /\ pc["ls"] = "run" => pipe + count + left = LsLines
  /\ pc["ls"] \in {"zombie", "reaped"} /\ MayRead
       => \/ left = 0 /\ pipe + count = LsLines
          \/ left = LsLines /\ pipe + count = Unflushed
  /\ shown # -1 =>
       /\ shown = count /\ pipe = 0
       /\ pc["ls"] \in Gone /\ pc["wc"] \in {"zombie", "reaped"}

\* The inductive invariant.
PInv == Types /\ Descriptors /\ Forks /\ Lines

-----------------------------------------------------------------------------

\* A table is known by its four entries.
LEMMA TableEntries ==
  ASSUME NEW a, NEW b, NEW c, NEW d
  PROVE  /\ DOMAIN Table(a, b, c, d) = Fds
         /\ Table(a, b, c, d)["in"] = a /\ Table(a, b, c, d)["out"] = b
         /\ Table(a, b, c, d)["p0"] = c /\ Table(a, b, c, d)["p1"] = d
  BY DEF Table, Fds

\* What closing an end or making it another's copy does to a table.
LEMMA TableUpdate ==
  ASSUME NEW a, NEW b, NEW c, NEW d, NEW x
  PROVE  /\ [Table(a, b, c, d) EXCEPT !["in"] = x] = Table(x, b, c, d)
         /\ [Table(a, b, c, d) EXCEPT !["out"] = x] = Table(a, x, c, d)
         /\ [Table(a, b, c, d) EXCEPT !["p0"] = x] = Table(a, b, x, d)
         /\ [Table(a, b, c, d) EXCEPT !["p1"] = x] = Table(a, b, c, x)
  BY DEF Table, Fds

\* Who keeps the pipe open.
LEMMA Holders ==
  ASSUME Types, Descriptors
  PROVE  /\ Readers = {} <=> /\ pc["parent"] \notin {"fork1", "fork2", "close0"}
                             /\ pc["ls"] # "close0" /\ pc["wc"] \in Gone
         /\ Writers = {} <=> /\ pc["parent"] \notin {"fork1", "fork2", "close0", "close1"}
                             /\ pc["ls"] \in Gone /\ pc["wc"] # "close1"
  <1>1. \A f \in Fds : NoFds[f] = "closed" BY DEF NoFds
  <1>2. /\ "parent" \in Readers <=> pc["parent"] \in {"fork1", "fork2", "close0"}
        /\ "parent" \in Writers <=> pc["parent"] \in {"fork1", "fork2", "close0", "close1"}
    BY TableEntries DEF Readers, Writers, Descriptors, ParentTable, Types, Processes, Fds
  <1>3. /\ "ls" \in Readers <=> pc["ls"] = "close0"
        /\ "ls" \in Writers <=> pc["ls"] \notin Gone
    <2>1. CASE pc["ls"] \in Gone
      BY <1>1, <2>1 DEF Readers, Writers, Descriptors, LsTable, Gone
    <2>2. CASE pc["ls"] \notin Gone
      BY <2>2, TableEntries
      DEF Readers, Writers, Descriptors, LsTable, Types, Processes, Fds, LsPoints, Gone
    <2> QED BY <2>1, <2>2
  <1>4. /\ "wc" \in Readers <=> pc["wc"] \notin Gone
        /\ "wc" \in Writers <=> pc["wc"] = "close1"
    <2>1. CASE pc["wc"] \in Gone
      BY <1>1, <2>1 DEF Readers, Writers, Descriptors, WcTable, Gone
    <2>2. CASE pc["wc"] \notin Gone
      BY <2>2, TableEntries
      DEF Readers, Writers, Descriptors, WcTable, Types, Processes, Fds, WcPoints, Gone
    <2> QED BY <2>1, <2>2
  <1>5. Readers \subseteq {"parent", "ls", "wc"} /\ Writers \subseteq {"parent", "ls", "wc"}
    BY DEF Readers, Writers, Processes
  <1> QED BY <1>2, <1>3, <1>4, <1>5

USE DEF data

\* A step of one process that leaves the descriptors of the others alone.
LEMMA OwnDescriptors ==
  ASSUME Types, Descriptors, NEW p \in Processes, NEW next, NEW t,
         fd' = [fd EXCEPT ![p] = t], pc' = [pc EXCEPT ![p] = next],
         p = "parent" => t = ParentTable(next),
         p = "ls" => t = LsTable(next),
         p = "wc" => t = WcTable(next)
  PROVE  Descriptors'
  BY DEF Types, Descriptors, Processes

\* close() and dup2() of the first child.
LEMMA LsSetupStep == ASSUME PInv, LsSetup PROVE PInv'
  <1>1. PICK next \in {"dup2", "close1", "exec"} :
          /\ pc["ls"] = CASE next = "dup2" -> "close0" [] next = "close1" -> "dup2"
                          [] next = "exec" -> "close1"
          /\ pc' = [pc EXCEPT !["ls"] = next]
          /\ fd' = [fd EXCEPT !["ls"] = LsTable(next)]
    <2>1. CASE pc["ls"] = "close0" /\ Close("ls", "p0", "dup2")
      <3>1. [fd["ls"] EXCEPT !["p0"] = "closed"] = LsTable("dup2")
        BY <2>1 DEF PInv, Descriptors, LsTable, Gone, Table, Fds
      <3> QED BY <2>1, <3>1 DEF Close
    <2>2. CASE pc["ls"] = "dup2" /\ Dup2("ls", "p1", "out", "close1")
      <3>1. [fd["ls"] EXCEPT !["out"] = fd["ls"]["p1"]] = LsTable("close1")
        BY <2>2, TableUpdate, TableEntries DEF PInv, Descriptors, LsTable, Gone
      <3> QED BY <2>2, <3>1 DEF Dup2
    <2>3. CASE pc["ls"] = "close1" /\ Close("ls", "p1", "exec")
      <3>1. [fd["ls"] EXCEPT !["p1"] = "closed"] = LsTable("exec")
        BY <2>3 DEF PInv, Descriptors, LsTable, Gone, Table, Fds
      <3> QED BY <2>3, <3>1 DEF Close
    <2> QED BY <2>1, <2>2, <2>3 DEF LsSetup
  <1>2. UNCHANGED <<data, forked>> BY DEF LsSetup, Close, Dup2
  <1>3. Types' BY <1>1, <1>2 DEF PInv, Types, LsPoints, Processes
  <1>4. Descriptors' BY <1>1, OwnDescriptors DEF PInv, Processes
  <1>5. Forks' BY <1>1, <1>2 DEF PInv, Types, Forks, Processes
  <1>6. Lines' BY <1>1, <1>2 DEF PInv, Types, Lines, MayRead, Processes, Gone
  <1> QED BY <1>3, <1>4, <1>5, <1>6 DEF PInv

\* ls is started and writes.
LEMMA LsRunStep == ASSUME PInv, LsExec \/ LsWrite PROVE PInv'
  <1>1. CASE LsExec
    <2>1. Types' BY <1>1 DEF PInv, Types, LsExec, LsPoints, Processes
    <2>2. Descriptors'
      BY <1>1 DEF PInv, Types, Descriptors, LsExec, LsTable, Processes, Gone
    <2>3. Forks' BY <1>1 DEF PInv, Types, Forks, LsExec, Processes
    <2>4. Lines' BY <1>1, PipelineAssumption
                 DEF PInv, Types, Lines, MayRead, LsExec, Processes, Gone
    <2> QED BY <2>1, <2>2, <2>3, <2>4 DEF PInv
  <1>2. CASE LsWrite
    <2>1. Types' BY <1>2 DEF PInv, Types, LsWrite
    <2>2. Descriptors' /\ Forks' BY <1>2 DEF PInv, Descriptors, Forks, LsWrite
    <2>3. Lines' BY <1>2 DEF PInv, Types, Lines, MayRead, LsWrite, Gone
    <2> QED BY <2>1, <2>2, <2>3 DEF PInv
  <1> QED BY <1>1, <1>2

\* The end of ls, in three ways.  Nobody can read the pipe any more when it is
\* killed, so what it did not write is missed by nobody.
LEMMA LsEndStep ==
  ASSUME PInv, LsExecFails \/ LsSigpipe \/ LsDone
  PROVE  PInv'
  <1>1. /\ Exit("ls") /\ pc["ls"] \in {"exec", "run"}
        /\ UNCHANGED <<left, count, shown, forked>>
    BY DEF LsExecFails, LsSigpipe, LsDone
  <1>2. pipe' \in Nat BY PipelineAssumption DEF PInv, Types, LsExecFails, LsSigpipe, LsDone
  <1>3. Types' BY <1>1, <1>2 DEF PInv, Types, Exit, LsPoints, Processes, Gone
  <1>4. Descriptors'
    <2>1. LsTable("zombie") = NoFds BY DEF LsTable, Gone
    <2> QED BY <1>1, <2>1, OwnDescriptors DEF PInv, Exit, Processes
  <1>5. Forks' BY <1>1 DEF PInv, Types, Forks, Exit, Processes
  <1>6. shown = -1 BY <1>1 DEF PInv, Lines, Gone
  <1>7. /\ pc'["ls"] = "zombie" /\ pc'["wc"] = pc["wc"] /\ pc'["parent"] = pc["parent"]
    BY <1>1 DEF PInv, Types, Exit, Processes
  <1>8. Readers = {} => ~MayRead BY <1>6, Holders DEF PInv, MayRead
  <1>9. ASSUME MayRead
        PROVE  \/ left = 0 /\ pipe' + count = LsLines
               \/ left = LsLines /\ pipe' + count = Unflushed
    <2>1. CASE LsExecFails
      BY <1>8, <1>9, <2>1, PipelineAssumption DEF LsExecFails, PInv, Lines
    <2>2. CASE LsDone BY <2>2 DEF LsDone, PInv, Lines, Types
    <2>3. CASE LsSigpipe BY <1>8, <1>9, <2>3 DEF LsSigpipe
    <2> QED BY <2>1, <2>2, <2>3
  <1>10. MayRead' <=> MayRead BY <1>1, <1>7 DEF MayRead
  <1>11. Lines' BY <1>1, <1>6, <1>7, <1>9, <1>10 DEF Lines
  <1> QED BY <1>3, <1>4, <1>5, <1>11 DEF PInv

\* close() and dup2() of the second child.
LEMMA WcSetupStep == ASSUME PInv, WcSetup PROVE PInv'
  <1>1. PICK next \in {"dup2", "close0", "exec"} :
          /\ pc["wc"] = CASE next = "dup2" -> "close1" [] next = "close0" -> "dup2"
                          [] next = "exec" -> "close0"
          /\ pc' = [pc EXCEPT !["wc"] = next]
          /\ fd' = [fd EXCEPT !["wc"] = WcTable(next)]
    <2>1. CASE pc["wc"] = "close1" /\ Close("wc", "p1", "dup2")
      <3>1. [fd["wc"] EXCEPT !["p1"] = "closed"] = WcTable("dup2")
        BY <2>1 DEF PInv, Descriptors, WcTable, Gone, Table, Fds
      <3> QED BY <2>1, <3>1 DEF Close
    <2>2. CASE pc["wc"] = "dup2" /\ Dup2("wc", "p0", "in", "close0")
      <3>1. [fd["wc"] EXCEPT !["in"] = fd["wc"]["p0"]] = WcTable("close0")
        <4>1. fd["wc"] = Table("std", "std", "r", "closed")
          BY <2>2 DEF PInv, Descriptors, WcTable, Gone
        <4>2. WcTable("close0") = Table("r", "std", "r", "closed")
          BY DEF WcTable, Gone
        <4>3. fd["wc"]["p0"] = "r" BY <4>1, TableEntries
        <4>4. [Table("std", "std", "r", "closed") EXCEPT !["in"] = "r"]
                = Table("r", "std", "r", "closed")
          BY TableUpdate
        <4> QED BY <4>1, <4>2, <4>3, <4>4
      <3> QED BY <2>2, <3>1 DEF Dup2
    <2>3. CASE pc["wc"] = "close0" /\ Close("wc", "p0", "exec")
      <3>1. [fd["wc"] EXCEPT !["p0"] = "closed"] = WcTable("exec")
        BY <2>3 DEF PInv, Descriptors, WcTable, Gone, Table, Fds
      <3> QED BY <2>3, <3>1 DEF Close
    <2> QED BY <2>1, <2>2, <2>3 DEF WcSetup
  <1>2. UNCHANGED <<data, forked>> BY DEF WcSetup, Close, Dup2
  <1>3. Types' BY <1>1, <1>2 DEF PInv, Types, WcPoints, Processes
  <1>4. Descriptors' BY <1>1, OwnDescriptors DEF PInv, Processes
  <1>5. Forks' BY <1>1, <1>2 DEF PInv, Types, Forks, Processes
  <1>6. Lines' BY <1>1, <1>2 DEF PInv, Types, Lines, MayRead, Processes, Gone
  <1> QED BY <1>3, <1>4, <1>5, <1>6 DEF PInv

\* wc is started and reads.
LEMMA WcRunStep == ASSUME PInv, WcExec \/ WcRead PROVE PInv'
  <1>1. CASE WcExec
    <2>1. Types' BY <1>1 DEF PInv, Types, WcExec, WcPoints, Processes
    <2>2. Descriptors'
      BY <1>1 DEF PInv, Types, Descriptors, WcExec, WcTable, Processes, Gone
    <2>3. Forks' BY <1>1 DEF PInv, Types, Forks, WcExec, Processes
    <2>4. Lines' BY <1>1 DEF PInv, Types, Lines, MayRead, WcExec, Processes, Gone
    <2> QED BY <2>1, <2>2, <2>3, <2>4 DEF PInv
  <1>2. CASE WcRead
    <2>1. Types' BY <1>2 DEF PInv, Types, WcRead
    <2>2. Descriptors' /\ Forks' BY <1>2 DEF PInv, Descriptors, Forks, WcRead
    <2>3. Lines' BY <1>2 DEF PInv, Types, Lines, MayRead, WcRead, Gone
    <2> QED BY <2>1, <2>2, <2>3 DEF PInv
  <1> QED BY <1>1, <1>2

\* The end of wc: without a result, or with one when no writer is left.
LEMMA WcEndStep == ASSUME PInv, WcExecFails \/ WcEof PROVE PInv'
  <1>1. /\ Exit("wc") /\ pc["wc"] \in {"exec", "run"}
        /\ UNCHANGED <<pipe, left, count, forked>>
    BY DEF WcExecFails, WcEof
  <1>2. shown' \in Int BY DEF PInv, Types, WcExecFails, WcEof
  <1>3. Types' BY <1>1, <1>2 DEF PInv, Types, Exit, WcPoints, Processes, Gone
  <1>4. Descriptors'
    <2>1. WcTable("zombie") = NoFds BY DEF WcTable, Gone
    <2> QED BY <1>1, <2>1, OwnDescriptors DEF PInv, Exit, Processes
  <1>5. Forks' BY <1>1 DEF PInv, Types, Forks, Exit, Processes
  <1>6. shown = -1 /\ MayRead BY <1>1 DEF PInv, Lines, MayRead, Gone
  <1>7. pc'["wc"] = "zombie" /\ pc'["ls"] = pc["ls"] /\ pc'["parent"] = pc["parent"]
    BY <1>1 DEF PInv, Types, Exit, Processes
  <1>8. shown' # -1 => shown' = count /\ pipe = 0 /\ pc["ls"] \in Gone
    BY <1>6, Holders DEF WcExecFails, WcEof, PInv
  <1>9. Lines' BY <1>1, <1>6, <1>7, <1>8 DEF PInv, Lines
  <1> QED BY <1>3, <1>4, <1>5, <1>9 DEF PInv

\* pipe() and close() in the parent.
LEMMA ParentPipeStep ==
  ASSUME PInv, MakePipe \/ ParentCloseRead \/ ParentCloseWrite
  PROVE  PInv'
  <1>1. PICK next \in {"fork1", "returned", "close1", "wait1"} :
          /\ pc["parent"] = CASE next = "close1" -> "close0" [] next = "wait1" -> "close1"
                              [] OTHER -> "pipe"
          /\ pc' = [pc EXCEPT !["parent"] = next]
          /\ fd' = [fd EXCEPT !["parent"] = ParentTable(next)]
    <2>1. CASE MakePipe
      <3>1. /\ At("pipe") /\ fd["parent"] = ParentTable("pipe")
            /\ ParentTable("pipe") = ParentTable("returned")
        BY <2>1 DEF MakePipe, At, PInv, Descriptors, ParentTable
      <3>2. [fd["parent"] EXCEPT !["p0"] = "r", !["p1"] = "w"] = ParentTable("fork1")
        BY <3>1 DEF ParentTable, Table, Fds
      <3>3. fd = [fd EXCEPT !["parent"] = fd["parent"]] BY DEF PInv, Descriptors
      <3> QED BY <2>1, <3>1, <3>2, <3>3 DEF MakePipe, At, Goto
    <2>2. CASE ParentCloseRead
      <3>1. [fd["parent"] EXCEPT !["p0"] = "closed"] = ParentTable("close1")
        BY <2>2 DEF PInv, Descriptors, ParentTable, ParentCloseRead, At, Table, Fds
      <3> QED BY <2>2, <3>1 DEF ParentCloseRead, Close, At
    <2>3. CASE ParentCloseWrite
      <3>1. [fd["parent"] EXCEPT !["p1"] = "closed"] = ParentTable("wait1")
        BY <2>3 DEF PInv, Descriptors, ParentTable, ParentCloseWrite, At, Table, Fds
      <3> QED BY <2>3, <3>1 DEF ParentCloseWrite, Close, At
    <2> QED BY <2>1, <2>2, <2>3
  <1>2. UNCHANGED <<data, forked>>
    BY DEF MakePipe, ParentCloseRead, ParentCloseWrite, Close
  <1>3. Types' BY <1>1, <1>2 DEF PInv, Types, ParentPoints, Processes
  <1>4. Descriptors' BY <1>1, OwnDescriptors DEF PInv, Processes
  <1>5. Forks' BY <1>1, <1>2 DEF PInv, Types, Forks, Processes
  <1>6. Lines' BY <1>1, <1>2 DEF PInv, Types, Lines, MayRead, Processes, Gone
  <1> QED BY <1>3, <1>4, <1>5, <1>6 DEF PInv

\* fork() for ls: the child has the parent's descriptors.
LEMMA ForkLsStep == ASSUME PInv, Fork("fork1", "ls", "close0", "fork2") PROVE PInv'
  <1>0. /\ pc["parent"] = "fork1" /\ pc["ls"] = "none" /\ pc["wc"] = "none"
        /\ UNCHANGED data /\ pc'["wc"] = "none" /\ pc'["parent"] = "fork2"
        /\ DOMAIN pc' = Processes /\ DOMAIN fd' = Processes
    BY DEF Fork, Goto, At, PInv, Types, Forks, Processes, Descriptors
  <1>1. /\ ParentTable("fork2") = ParentTable("fork1")
        /\ LsTable("close0") = ParentTable("fork1")
    BY DEF ParentTable, LsTable, Gone
  <1>2. \/ pc'["ls"] = "close0" /\ forked' = forked \cup {"ls"}
        \/ pc'["ls"] = "none" /\ forked' = forked
    BY <1>0 DEF Fork, Goto, PInv, Types, Processes
  <1>3. Types' BY <1>0, <1>2 DEF PInv, Types, ParentPoints, LsPoints, WcPoints, Gone
  <1>4. Descriptors'
    BY <1>0, <1>1 DEF Fork, Goto, At, PInv, Types, Descriptors, Processes
  <1>5. Forks' BY <1>0, <1>2 DEF PInv, Forks
  <1>6. Lines' BY <1>0, <1>2 DEF PInv, Lines, Gone
  <1> QED BY <1>3, <1>4, <1>5, <1>6 DEF PInv

\* fork() for wc.
LEMMA ForkWcStep == ASSUME PInv, Fork("fork2", "wc", "close1", "close0") PROVE PInv'
  <1>0. /\ pc["parent"] = "fork2" /\ pc["wc"] = "none"
        /\ UNCHANGED data /\ pc'["ls"] = pc["ls"] /\ pc'["parent"] = "close0"
        /\ DOMAIN pc' = Processes /\ DOMAIN fd' = Processes
    BY DEF Fork, Goto, At, PInv, Types, Forks, Processes, Descriptors
  <1>1. /\ ParentTable("fork2") = ParentTable("close0")
        /\ WcTable("close1") = ParentTable("fork2")
    BY DEF ParentTable, WcTable, Gone
  <1>2. \/ pc'["wc"] = "close1" /\ forked' = forked \cup {"wc"}
        \/ pc'["wc"] = "none" /\ forked' = forked
    BY <1>0 DEF Fork, Goto, PInv, Types, Processes
  <1>3. Types' BY <1>0, <1>2 DEF PInv, Types, ParentPoints, LsPoints, WcPoints, Gone
  <1>4. Descriptors'
    BY <1>0, <1>1 DEF Fork, Goto, At, PInv, Types, Descriptors, Processes
  <1>5. Forks' BY <1>0, <1>2 DEF PInv, Forks
  <1>6. MayRead BY <1>0 DEF MayRead
  <1>7. Lines' BY <1>0, <1>2, <1>6 DEF PInv, Lines
  <1> QED BY <1>3, <1>4, <1>5, <1>7 DEF PInv

\* waitpid() for one child, or for any after a failed fork.
LEMMA WaitStep ==
  ASSUME PInv, NEW who \in {"ls", "wc"}, NEW point \in {"wait1", "wait2"},
         NEW next \in {"wait2", "returned"}, WaitPid(point, who, next),
         who = "ls" <=> point = "wait1", who = "ls" <=> next = "wait2"
  PROVE  PInv'
  <1>1. /\ pc["parent"] = point /\ pc'["parent"] = next /\ DOMAIN pc' = Processes
        /\ \A c \in {"ls", "wc"} : pc'[c] = pc[c] \/ (pc[c] = "zombie" /\ pc'[c] = "reaped")
        /\ UNCHANGED <<fd, data, forked>>
    BY DEF WaitPid, Awaited, At, Goto, PInv, Types, Processes
  <1>2. pc'[who] \in {"none", "reaped"}
    <2>1. CASE who \in forked
      BY <2>1 DEF WaitPid, Awaited, At, Goto, PInv, Types, Processes
    <2>2. CASE who \notin forked
      BY <1>1, <2>2 DEF PInv, Forks
    <2> QED BY <2>1, <2>2
  <1>3. Types' BY <1>1 DEF PInv, Types, ParentPoints, LsPoints, WcPoints, Gone
  <1>4. Descriptors'
    <2>1. ParentTable(next) = ParentTable(point) BY DEF ParentTable
    <2>2. LsTable("zombie") = LsTable("reaped") /\ WcTable("zombie") = WcTable("reaped")
      BY DEF LsTable, WcTable, Gone
    <2> QED BY <1>1, <2>1, <2>2 DEF PInv, Descriptors
  <1>5. Forks' BY <1>1, <1>2 DEF PInv, Forks
  <1>6. MayRead' => MayRead BY <1>1 DEF MayRead, Gone
  <1>7. Lines' BY <1>1, <1>6 DEF PInv, Lines, Gone
  <1> QED BY <1>3, <1>4, <1>5, <1>7 DEF PInv

\* The invariant holds when pipe_exec_demo is entered.
LEMMA PInit == Init => PInv
  <1> SUFFICES ASSUME Init PROVE PInv OBVIOUS
  <1>1. Types
    BY PipelineAssumption
    DEF Init, Types, Processes, ParentPoints, LsPoints, WcPoints, Gone
  <1>2. Descriptors
    BY DEF Init, Descriptors, ParentTable, LsTable, WcTable, Table, NoFds, Processes,
           Gone, Fds
  <1>3. Forks /\ Lines BY DEF Init, Forks, Lines, Processes
  <1> QED BY <1>1, <1>2, <1>3 DEF PInv

\* Every step of the pipeline keeps it.
LEMMA PStep == PInv /\ [Next]_vars => PInv'
  <1> SUFFICES ASSUME PInv, [Next]_vars PROVE PInv' OBVIOUS
  <1>1. CASE PipeExecDemo
    BY <1>1, ParentPipeStep, ForkLsStep, ForkWcStep, WaitStep DEF PipeExecDemo
  <1>2. CASE Ls BY <1>2, LsSetupStep, LsRunStep, LsEndStep DEF Ls
  <1>3. CASE Wc BY <1>3, WcSetupStep, WcRunStep, WcEndStep DEF Wc
  <1>4. CASE UNCHANGED vars
    <2>1. Types' /\ Descriptors' BY <1>4 DEF vars, PInv, Types, Descriptors
    <2>2. Forks' /\ Lines' BY <1>4 DEF vars, PInv, Forks, Lines, MayRead
    <2> QED BY <2>1, <2>2 DEF PInv
  <1> QED BY <1>1, <1>2, <1>3, <1>4 DEF Next, Terminated

\* The program runs the pipeline as its module specifies it.
THEOREM ImplementsPipeline == DemoSpec => Spec
  <1>1. DemoInit => Init BY DEF DemoInit
  <1>2. [DemoNext]_demoVars => [Next]_vars
    BY DEF DemoNext, demoVars, Pipeline, Others, Child, Ended, Next
  <1> QED BY <1>1, <1>2, PTL DEF DemoSpec, Spec

\* The invariant of the pipeline holds throughout the program.
THEOREM PipelineInvariance == DemoSpec => []PInv
  BY ImplementsPipeline, PInit, PStep, PTL DEF Spec

\* For any number of lines, any pipe and any buffered output, the total wc
\* prints is complete: that of ls, or what a failed execlp flushed.
THEOREM CountsLsLinesCorrect == DemoSpec => []CountsLsLines
  <1>1. PInv => CountsLsLines
    BY PipelineAssumption DEF PInv, Types, Forks, Lines, MayRead, CountsLsLines, Gone
  <1> QED BY <1>1, PipelineInvariance, PTL

\* When pipe_exec_demo returns, whatever failed in it, its children are reaped
\* and no end of the pipe is left open.
THEOREM CleanReturnCorrect == DemoSpec => []CleanReturn
  <1>1. PInv => CleanReturn
    BY Holders DEF PInv, Forks, CleanReturn, At, Gone
  <1> QED BY <1>1, PipelineInvariance, PTL

\* For any output of ls and any pipe, and whichever fork or execlp failed: while
\* the parent waits, ls or wc can go on.  The parent holds no end then, ls does
\* not hold the read end nor wc the write end it waits on, and a pipe is not
\* full and empty.  This is the safety half of MainEnds for the pipeline.
THEOREM NoCircularWaitCorrect == DemoSpec => []NoCircularWait
  <1>1. ASSUME PInv PROVE NoCircularWait
    <2> SUFFICES ASSUME ParentBlocked
                 PROVE  \/ pc["ls"] \notin Gone /\ ~LsBlocked
                        \/ pc["wc"] \notin Gone /\ ~WcBlocked
      BY DEF NoCircularWait, Gone
    <2>1. PICK call \in {<<"wait1", "ls">>, <<"wait2", "wc">>} :
            /\ At(call[1])
            /\ \A c \in Awaited(call[2]) : pc[c] # "zombie"
            /\ \E c \in Awaited(call[2]) : pc[c] \notin {"none", "reaped"}
      BY DEF ParentBlocked
    <2>2. /\ Readers = {} <=> pc["ls"] # "close0" /\ pc["wc"] \in Gone
          /\ Writers = {} <=> pc["ls"] \in Gone /\ pc["wc"] # "close1"
      BY <1>1, <2>1, Holders DEF PInv, At
    <2>3. LsBlocked => pc["wc"] \notin Gone /\ ~WcBlocked
      BY <1>1, <2>2, PipelineAssumption DEF LsBlocked, WcBlocked, PInv, Types
    <2>4. WcBlocked => pc["ls"] \notin Gone
      BY <2>2 DEF WcBlocked
    <2>5. pc["ls"] \notin Gone \/ pc["wc"] \notin Gone
      BY <1>1, <2>1 DEF Awaited, PInv, Forks, Gone, At
    <2> QED BY <2>3, <2>4, <2>5
  <1> QED BY <1>1, PipelineInvariance, PTL

-----------------------------------------------------------------------------
(* The message demos                                                        *)

\* The program points of the message demos, by what main and its child have done.
SimpleForked == {"simple:close0", "simple:write", "simple:close1", "simple:wait"}
SimplePhase == {"simple:pipe", "simple:fork"} \cup SimpleForked
BidiWritten == {"bidi:close1w", "bidi:read", "bidi:close2r", "bidi:wait"}
BidiForked == BidiWritten \cup {"bidi:close1r", "bidi:close2w", "bidi:write"}
BidiPhase == BidiForked \cup {"bidi:pipe1", "bidi:pipe2", "bidi:fork"}
Afterwards == {"exec", "cap:pipe", "cap:close0", "cap:close1", "done"}

SimpleListens == {"simple:close1", "simple:read"}
SimpleHeard == {"simple:close0", "simple:exit", "zombie"}
BidiListens == {"bidi:close1w", "bidi:close2r", "bidi:read"}
BidiReplied == {"bidi:close2w", "bidi:exit", "zombie"}
BidiHeard == BidiReplied \cup {"bidi:close1r", "bidi:write"}

\* Each demo reaps the child it has; only main may do without one, after a
\* fork() that failed, and not for long.  Who has read has read what the other
\* has written before.
Family ==
  /\ main \in SimplePhase \cup BidiPhase \cup Afterwards \cup {"killed"}
  /\ main \in SimpleForked => child \in SimpleListens \cup SimpleHeard
  /\ main \in {"simple:close0", "simple:write"} => child \in SimpleListens
  /\ main \in BidiForked \ BidiWritten
       => child \in BidiListens \/ (child = "none" /\ failed)
  /\ main \in BidiWritten => child \in BidiListens \cup BidiHeard
  /\ main \in {"bidi:close2r", "bidi:wait"} => child \in BidiReplied
  /\ main \notin SimpleForked \cup BidiForked => child = "none"
  /\ main = "killed" => failed
  /\ main \in SimplePhase => failed = FALSE

\* The ends main has open.
ParentHolds ==
  /\ ~failed =>
       /\ Messages!R("simple") \in held["parent"] <=>
            main \in {"simple:fork", "simple:close0"}
       /\ Messages!W("simple") \in held["parent"] <=>
            main \in {"simple:fork", "simple:close0", "simple:write", "simple:close1"}
  /\ ~failed \/ main \in BidiPhase =>
       /\ Messages!R("pipe1") \in held["parent"] <=>
            main \in {"bidi:pipe2", "bidi:fork", "bidi:close1r"}
       /\ Messages!W("pipe1") \in held["parent"] <=>
            main \in {"bidi:pipe2", "bidi:fork", "bidi:close1r", "bidi:close2w",
                      "bidi:write", "bidi:close1w"}
       /\ Messages!R("pipe2") \in held["parent"] <=>
            main \in {"bidi:fork", "bidi:close1r", "bidi:close2w", "bidi:write",
                      "bidi:close1w", "bidi:read", "bidi:close2r"}
       /\ Messages!W("pipe2") \in held["parent"] <=>
            main \in {"bidi:fork", "bidi:close1r", "bidi:close2w"}
  /\ Messages!R("capacity") \in held["parent"] <=> main = "cap:close0"
  /\ Messages!W("capacity") \in held["parent"] <=> main \in {"cap:close0", "cap:close1"}

\* The ends the child has open; those of the first demo may be left to the
\* child of the second when a fork() has failed.
ChildHolds ==
  /\ ~failed =>
       /\ Messages!R("simple") \in held["child"] <=>
            child \in SimpleListens \cup {"simple:close0"}
       /\ Messages!W("simple") \in held["child"] <=> child = "simple:close1"
  /\ Messages!R("pipe1") \in held["child"] <=> child \in BidiListens \cup {"bidi:close1r"}
  /\ Messages!W("pipe1") \in held["child"] <=> child = "bidi:close1w"
  /\ Messages!R("pipe2") \in held["child"] <=> child \in {"bidi:close1w", "bidi:close2r"}
  /\ Messages!W("pipe2") \in held["child"] <=>
       child \in BidiListens \cup {"bidi:close1r", "bidi:write", "bidi:close2w"}

\* What the two processes have open.
Holds ==
  /\ held = [who \in {"parent", "child"} |-> held[who]]
  /\ held["parent"] \subseteq Messages!Ends
  /\ ParentHolds /\ ChildHolds

\* A message is in its pipe from its write() to its read().
InPipe ==
  /\ content = [p \in Messages!Pipes |-> content[p]]
  /\ content["simple"] = IF /\ main \in {"simple:close1", "simple:wait"}
                            /\ child \in SimpleListens
                         THEN "hello" ELSE Messages!Empty
  /\ content["pipe1"] = IF main \in BidiWritten /\ child \in BidiListens
                        THEN "greeting" ELSE Messages!Empty
  /\ content["pipe2"] = IF main \in {"bidi:close1w", "bidi:read"} /\ child \in BidiReplied
                        THEN "reply" ELSE Messages!Empty
  /\ content["capacity"] = Messages!Empty

\* What was heard is right, and complete if nothing has failed.
HeardSoFar ==
  /\ heard = [who \in {"parent", "child"} |-> heard[who]]
  /\ Messages!HeardRight
  /\ ~failed =>
       /\ main \in {"bidi:close2r", "bidi:wait"} \cup Afterwards
            => "reply" \in heard["parent"]
       /\ main \notin SimplePhase \/ (main \in SimpleForked /\ child \in SimpleHeard)
            => "hello" \in heard["child"]
       /\ main \in Afterwards \/ (main \in BidiForked /\ child \in BidiHeard)
            => "greeting" \in heard["child"]

\* The inductive invariant of the message demos.
MInv == Family /\ Holds /\ InPipe /\ HeardSoFar

USE DEF SimplePhase, SimpleForked, BidiPhase, BidiForked, BidiWritten, Afterwards,
        SimpleListens, SimpleHeard, BidiListens, BidiReplied, BidiHeard,
        ParentHolds, ChildHolds, Messages!HeardRight, Messages!R, Messages!W,
        Messages!Ends, Messages!Pipes, Messages!Empty, Messages!At, Messages!Goto,
        Messages!IsOpen

\* The parent of the first demo: its message is written before the child can miss it.
LEMMA SimpleParentStep == ASSUME MInv, Messages!SimpleParent PROVE MInv'
  <1>1. CASE Messages!Pipe("simple:pipe", "simple", "simple:fork", "bidi:pipe1")
    <2>1. Family' BY <1>1 DEF MInv, Family, Messages!Pipe
    <2>2. Holds' BY <1>1 DEF MInv, Family, Holds, Messages!Pipe
    <2>3. InPipe' /\ HeardSoFar'
      BY <1>1 DEF MInv, Family, InPipe, HeardSoFar, Messages!Pipe
    <2> QED BY <2>1, <2>2, <2>3 DEF MInv
  <1>2. CASE Messages!Fork("simple:fork", "simple:close1", "simple:close0", "bidi:pipe1")
    <2>1. Family' BY <1>2 DEF MInv, Family, Messages!Fork
    <2>2. Holds' BY <1>2 DEF MInv, Family, Holds, Messages!Fork
    <2>3. InPipe' /\ HeardSoFar'
      BY <1>2 DEF MInv, Family, InPipe, HeardSoFar, Messages!Fork
    <2> QED BY <2>1, <2>2, <2>3 DEF MInv
  <1>3. CASE Messages!Close("parent", "simple:close0", Messages!R("simple"), "simple:write")
    <2>1. Family' BY <1>3 DEF MInv, Family, Messages!Close
    <2>2. Holds' BY <1>3 DEF MInv, Family, Holds, Messages!Close
    <2>3. InPipe' /\ HeardSoFar'
      BY <1>3 DEF MInv, Family, InPipe, HeardSoFar, Messages!Close
    <2> QED BY <2>1, <2>2, <2>3 DEF MInv
  <1>4. CASE Messages!Write("parent", "simple:write", "simple", "hello", "simple:close1")
    <2>1. Family' BY <1>4 DEF MInv, Family, Holds, InPipe, Messages!Write
    <2>2. Holds' BY <1>4 DEF MInv, Family, Holds, InPipe, Messages!Write
    <2>3. InPipe' BY <1>4 DEF MInv, Family, Holds, InPipe, Messages!Write
    <2>4. HeardSoFar'
      BY <1>4 DEF MInv, Family, Holds, InPipe, HeardSoFar, Messages!Write
    <2> QED BY <2>1, <2>2, <2>3, <2>4 DEF MInv
  <1>5. CASE Messages!Close("parent", "simple:close1", Messages!W("simple"), "simple:wait")
    <2>1. Family' BY <1>5 DEF MInv, Family, Messages!Close
    <2>2. Holds' BY <1>5 DEF MInv, Family, Holds, Messages!Close
    <2>3. InPipe' /\ HeardSoFar'
      BY <1>5 DEF MInv, Family, InPipe, HeardSoFar, Messages!Close
    <2> QED BY <2>1, <2>2, <2>3 DEF MInv
  <1>6. CASE Messages!Wait("simple:wait", "bidi:pipe1")
    <2>1. Family' BY <1>6 DEF MInv, Family, Messages!Wait
    <2>2. Holds' BY <1>6 DEF MInv, Family, Holds, Messages!Wait
    <2>3. InPipe' /\ HeardSoFar'
      BY <1>6 DEF MInv, Family, InPipe, HeardSoFar, Messages!Wait
    <2> QED BY <2>1, <2>2, <2>3 DEF MInv
  <1> QED BY <1>1, <1>2, <1>3, <1>4, <1>5, <1>6 DEF Messages!SimpleParent

\* The child of the first demo reads before the pipe can be at its end.
LEMMA SimpleChildStep == ASSUME MInv, Messages!SimpleChild PROVE MInv'
  <1>1. CASE Messages!Close("child", "simple:close1", Messages!W("simple"), "simple:read")
    <2>1. Family' BY <1>1 DEF MInv, Family, Messages!Close
    <2>2. Holds' BY <1>1 DEF MInv, Family, Holds, Messages!Close
    <2>3. InPipe' /\ HeardSoFar'
      BY <1>1 DEF MInv, Family, InPipe, HeardSoFar, Messages!Close
    <2> QED BY <2>1, <2>2, <2>3 DEF MInv
  <1>2. CASE Messages!Read("child", "simple:read", "simple", {}, "simple:close0")
    <2>1. Family' BY <1>2 DEF MInv, Family, Holds, InPipe, Messages!Read
    <2>2. Holds' BY <1>2 DEF MInv, Family, Holds, InPipe, Messages!Read
    <2>3. InPipe' BY <1>2 DEF MInv, Family, Holds, InPipe, Messages!Read
    <2>4. HeardSoFar' BY <1>2 DEF MInv, Family, Holds, InPipe, HeardSoFar, Messages!Read
    <2> QED BY <2>1, <2>2, <2>3, <2>4 DEF MInv
  <1>3. CASE Messages!Close("child", "simple:close0", Messages!R("simple"), "simple:exit")
    <2>1. Family' BY <1>3 DEF MInv, Family, Messages!Close
    <2>2. Holds' BY <1>3 DEF MInv, Family, Holds, Messages!Close
    <2>3. InPipe' /\ HeardSoFar'
      BY <1>3 DEF MInv, Family, InPipe, HeardSoFar, Messages!Close
    <2> QED BY <2>1, <2>2, <2>3 DEF MInv
  <1>4. CASE Messages!ChildExit("simple:exit")
    <2>1. Family' BY <1>4 DEF MInv, Family, Messages!ChildExit
    <2>2. Holds' BY <1>4 DEF MInv, Family, Holds, Messages!ChildExit
    <2>3. InPipe' /\ HeardSoFar'
      BY <1>4 DEF MInv, Family, InPipe, HeardSoFar, Messages!ChildExit
    <2> QED BY <2>1, <2>2, <2>3 DEF MInv
  <1> QED BY <1>1, <1>2, <1>3, <1>4 DEF Messages!SimpleChild

\* The parent of the second demo, with a child or without one.
LEMMA BidiParentStep == ASSUME MInv, Messages!BidiParent PROVE MInv'
  <1>1. CASE Messages!Pipe("bidi:pipe1", "pipe1", "bidi:pipe2", "exec")
    <2>1. Family' BY <1>1 DEF MInv, Family, Messages!Pipe
    <2>2. Holds' BY <1>1 DEF MInv, Family, Holds, Messages!Pipe
    <2>3. InPipe' /\ HeardSoFar'
      BY <1>1 DEF MInv, Family, InPipe, HeardSoFar, Messages!Pipe
    <2> QED BY <2>1, <2>2, <2>3 DEF MInv
  <1>2. CASE Messages!Pipe("bidi:pipe2", "pipe2", "bidi:fork", "exec")
    <2>1. Family' BY <1>2 DEF MInv, Family, Messages!Pipe
    <2>2. Holds' BY <1>2 DEF MInv, Family, Holds, Messages!Pipe
    <2>3. InPipe' /\ HeardSoFar'
      BY <1>2 DEF MInv, Family, InPipe, HeardSoFar, Messages!Pipe
    <2> QED BY <2>1, <2>2, <2>3 DEF MInv
  <1>3. CASE Messages!Fork("bidi:fork", "bidi:close1w", "bidi:close1r", "bidi:close1r")
    <2>1. Family' BY <1>3 DEF MInv, Family, Messages!Fork
    <2>2. Holds' BY <1>3 DEF MInv, Family, Holds, Messages!Fork
    <2>3. InPipe' /\ HeardSoFar'
      BY <1>3 DEF MInv, Family, InPipe, HeardSoFar, Messages!Fork
    <2> QED BY <2>1, <2>2, <2>3 DEF MInv
  <1>4. CASE Messages!Close("parent", "bidi:close1r", Messages!R("pipe1"), "bidi:close2w")
    <2>1. Family' BY <1>4 DEF MInv, Family, Messages!Close
    <2>2. Holds' BY <1>4 DEF MInv, Family, Holds, Messages!Close
    <2>3. InPipe' /\ HeardSoFar'
      BY <1>4 DEF MInv, Family, InPipe, HeardSoFar, Messages!Close
    <2> QED BY <2>1, <2>2, <2>3 DEF MInv
  <1>5. CASE Messages!Close("parent", "bidi:close2w", Messages!W("pipe2"), "bidi:write")
    <2>1. Family' BY <1>5 DEF MInv, Family, Messages!Close
    <2>2. Holds' BY <1>5 DEF MInv, Family, Holds, Messages!Close
    <2>3. InPipe' /\ HeardSoFar'
      BY <1>5 DEF MInv, Family, InPipe, HeardSoFar, Messages!Close
    <2> QED BY <2>1, <2>2, <2>3 DEF MInv
  <1>6. CASE Messages!Write("parent", "bidi:write", "pipe1", "greeting", "bidi:close1w")
    <2>1. Family' BY <1>6 DEF MInv, Family, Holds, InPipe, Messages!Write
    <2>2. Holds' BY <1>6 DEF MInv, Family, Holds, InPipe, Messages!Write
    <2>3. InPipe' BY <1>6 DEF MInv, Family, Holds, InPipe, Messages!Write
    <2>4. HeardSoFar'
      BY <1>6 DEF MInv, Family, Holds, InPipe, HeardSoFar, Messages!Write
    <2> QED BY <2>1, <2>2, <2>3, <2>4 DEF MInv
  <1>7. CASE Messages!Close("parent", "bidi:close1w", Messages!W("pipe1"), "bidi:read")
    <2>1. Family' BY <1>7 DEF MInv, Family, Messages!Close
    <2>2. Holds' BY <1>7 DEF MInv, Family, Holds, Messages!Close
    <2>3. InPipe' /\ HeardSoFar'
      BY <1>7 DEF MInv, Family, InPipe, HeardSoFar, Messages!Close
    <2> QED BY <2>1, <2>2, <2>3 DEF MInv
  <1>8. CASE Messages!Read("parent", "bidi:read", "pipe2", {Messages!Garbage}, "bidi:close2r")
    <2>1. Family' BY <1>8 DEF MInv, Family, Holds, InPipe, Messages!Read
    <2>2. Holds' BY <1>8 DEF MInv, Family, Holds, InPipe, Messages!Read
    <2>3. InPipe' BY <1>8 DEF MInv, Family, Holds, InPipe, Messages!Read
    <2>4. HeardSoFar' BY <1>8 DEF MInv, Family, Holds, InPipe, HeardSoFar, Messages!Read
    <2> QED BY <2>1, <2>2, <2>3, <2>4 DEF MInv
  <1>9. CASE Messages!Close("parent", "bidi:close2r", Messages!R("pipe2"), "bidi:wait")
    <2>1. Family' BY <1>9 DEF MInv, Family, Messages!Close
    <2>2. Holds' BY <1>9 DEF MInv, Family, Holds, Messages!Close
    <2>3. InPipe' /\ HeardSoFar'
      BY <1>9 DEF MInv, Family, InPipe, HeardSoFar, Messages!Close
    <2> QED BY <2>1, <2>2, <2>3 DEF MInv
  <1>10. CASE Messages!Wait("bidi:wait", "exec")
    <2>1. Family' BY <1>10 DEF MInv, Family, Messages!Wait
    <2>2. Holds' BY <1>10 DEF MInv, Family, Holds, Messages!Wait
    <2>3. InPipe' /\ HeardSoFar'
      BY <1>10 DEF MInv, Family, InPipe, HeardSoFar, Messages!Wait
    <2> QED BY <2>1, <2>2, <2>3 DEF MInv
  <1> QED BY <1>1, <1>2, <1>3, <1>4, <1>5, <1>6, <1>7, <1>8, <1>9, <1>10
    DEF Messages!BidiParent

\* The child of the second demo: somebody is there to read its reply.
LEMMA BidiChildStep == ASSUME MInv, Messages!BidiChild PROVE MInv'
  <1>1. CASE Messages!Close("child", "bidi:close1w", Messages!W("pipe1"), "bidi:close2r")
    <2>1. Family' BY <1>1 DEF MInv, Family, Messages!Close
    <2>2. Holds' BY <1>1 DEF MInv, Family, Holds, Messages!Close
    <2>3. InPipe' /\ HeardSoFar'
      BY <1>1 DEF MInv, Family, InPipe, HeardSoFar, Messages!Close
    <2> QED BY <2>1, <2>2, <2>3 DEF MInv
  <1>2. CASE Messages!Close("child", "bidi:close2r", Messages!R("pipe2"), "bidi:read")
    <2>1. Family' BY <1>2 DEF MInv, Family, Messages!Close
    <2>2. Holds' BY <1>2 DEF MInv, Family, Holds, Messages!Close
    <2>3. InPipe' /\ HeardSoFar'
      BY <1>2 DEF MInv, Family, InPipe, HeardSoFar, Messages!Close
    <2> QED BY <2>1, <2>2, <2>3 DEF MInv
  <1>3. CASE Messages!Read("child", "bidi:read", "pipe1", {Messages!Garbage}, "bidi:close1r")
    <2>1. Family' BY <1>3 DEF MInv, Family, Holds, InPipe, Messages!Read
    <2>2. Holds' BY <1>3 DEF MInv, Family, Holds, InPipe, Messages!Read
    <2>3. InPipe' BY <1>3 DEF MInv, Family, Holds, InPipe, Messages!Read
    <2>4. HeardSoFar' BY <1>3 DEF MInv, Family, Holds, InPipe, HeardSoFar, Messages!Read
    <2> QED BY <2>1, <2>2, <2>3, <2>4 DEF MInv
  <1>4. CASE Messages!Close("child", "bidi:close1r", Messages!R("pipe1"), "bidi:write")
    <2>1. Family' BY <1>4 DEF MInv, Family, Messages!Close
    <2>2. Holds' BY <1>4 DEF MInv, Family, Holds, Messages!Close
    <2>3. InPipe' /\ HeardSoFar'
      BY <1>4 DEF MInv, Family, InPipe, HeardSoFar, Messages!Close
    <2> QED BY <2>1, <2>2, <2>3 DEF MInv
  <1>5. CASE Messages!Write("child", "bidi:write", "pipe2", "reply", "bidi:close2w")
    <2>1. Family' BY <1>5 DEF MInv, Family, Holds, InPipe, Messages!Write
    <2>2. Holds' BY <1>5 DEF MInv, Family, Holds, InPipe, Messages!Write
    <2>3. InPipe' BY <1>5 DEF MInv, Family, Holds, InPipe, Messages!Write
    <2>4. HeardSoFar'
      BY <1>5 DEF MInv, Family, Holds, InPipe, HeardSoFar, Messages!Write
    <2> QED BY <2>1, <2>2, <2>3, <2>4 DEF MInv
  <1>6. CASE Messages!Close("child", "bidi:close2w", Messages!W("pipe2"), "bidi:exit")
    <2>1. Family' BY <1>6 DEF MInv, Family, Messages!Close
    <2>2. Holds' BY <1>6 DEF MInv, Family, Holds, Messages!Close
    <2>3. InPipe' /\ HeardSoFar'
      BY <1>6 DEF MInv, Family, InPipe, HeardSoFar, Messages!Close
    <2> QED BY <2>1, <2>2, <2>3 DEF MInv
  <1>7. CASE Messages!ChildExit("bidi:exit")
    <2>1. Family' BY <1>7 DEF MInv, Family, Messages!ChildExit
    <2>2. Holds' BY <1>7 DEF MInv, Family, Holds, Messages!ChildExit
    <2>3. InPipe' /\ HeardSoFar'
      BY <1>7 DEF MInv, Family, InPipe, HeardSoFar, Messages!ChildExit
    <2> QED BY <2>1, <2>2, <2>3 DEF MInv
  <1> QED BY <1>1, <1>2, <1>3, <1>4, <1>5, <1>6, <1>7 DEF Messages!BidiChild

\* pipe_capacity_demo opens and closes its pipe.
LEMMA CapacityDemoStep == ASSUME MInv, Messages!CapacityDemo PROVE MInv'
  <1>1. CASE Messages!Pipe("cap:pipe", "capacity", "cap:close0", "done")
    <2>1. Family' BY <1>1 DEF MInv, Family, Messages!Pipe
    <2>2. Holds' BY <1>1 DEF MInv, Family, Holds, Messages!Pipe
    <2>3. InPipe' /\ HeardSoFar'
      BY <1>1 DEF MInv, Family, InPipe, HeardSoFar, Messages!Pipe
    <2> QED BY <2>1, <2>2, <2>3 DEF MInv
  <1>2. CASE Messages!Close("parent", "cap:close0", Messages!R("capacity"), "cap:close1")
    <2>1. Family' BY <1>2 DEF MInv, Family, Messages!Close
    <2>2. Holds' BY <1>2 DEF MInv, Family, Holds, Messages!Close
    <2>3. InPipe' /\ HeardSoFar'
      BY <1>2 DEF MInv, Family, InPipe, HeardSoFar, Messages!Close
    <2> QED BY <2>1, <2>2, <2>3 DEF MInv
  <1>3. CASE Messages!Close("parent", "cap:close1", Messages!W("capacity"), "done")
    <2>1. Family' BY <1>3 DEF MInv, Family, Messages!Close
    <2>2. Holds' BY <1>3 DEF MInv, Family, Holds, Messages!Close
    <2>3. InPipe' /\ HeardSoFar'
      BY <1>3 DEF MInv, Family, InPipe, HeardSoFar, Messages!Close
    <2> QED BY <2>1, <2>2, <2>3 DEF MInv
  <1> QED BY <1>1, <1>2, <1>3 DEF Messages!CapacityDemo

\* The invariant holds when main starts.
LEMMA MInit == Messages!Init => MInv
  <1> SUFFICES ASSUME Messages!Init PROVE MInv OBVIOUS
  <1>1. Family BY DEF Messages!Init, Family
  <1>2. Holds BY DEF Messages!Init, Holds
  <1>3. InPipe /\ HeardSoFar BY DEF Messages!Init, InPipe, HeardSoFar
  <1> QED BY <1>1, <1>2, <1>3 DEF MInv

\* Every step of the message demos keeps it.
LEMMA MStep == MInv /\ [Messages!Next]_(Messages!vars) => MInv'
  <1> SUFFICES ASSUME MInv, [Messages!Next]_(Messages!vars) PROVE MInv' OBVIOUS
  <1>1. CASE Messages!Main
    <2>1. CASE Messages!PipeExecDemo
      <3>1. Family' /\ Holds' BY <2>1 DEF Messages!PipeExecDemo, MInv, Family, Holds
      <3>2. InPipe' /\ HeardSoFar'
        BY <2>1 DEF Messages!PipeExecDemo, MInv, Family, InPipe, HeardSoFar
      <3> QED BY <3>1, <3>2 DEF MInv
    <2> QED BY <1>1, <2>1, SimpleParentStep, BidiParentStep, CapacityDemoStep
        DEF Messages!Main
  <1>2. CASE Messages!Child BY <1>2, SimpleChildStep, BidiChildStep DEF Messages!Child
  <1>3. CASE UNCHANGED Messages!vars
    <2>1. Family' /\ Holds' BY <1>3 DEF Messages!vars, MInv, Family, Holds
    <2>2. InPipe' /\ HeardSoFar' BY <1>3 DEF Messages!vars, MInv, InPipe, HeardSoFar
    <2> QED BY <2>1, <2>2 DEF MInv
  <1> QED BY <1>1, <1>2, <1>3 DEF Messages!Next, Messages!Terminated

\* The program runs the message demos as their module specifies them.
THEOREM ImplementsMessages == DemoSpec => Messages!Spec
  <1>1. DemoInit => Messages!Init BY DEF DemoInit
  <1>2. [DemoNext]_demoVars => [Messages!Next]_(Messages!vars)
    BY DEF DemoNext, demoVars, messageVars, Messages!vars, Pipeline, Others, Child, Ended,
           Messages!Next
  <1> QED BY <1>1, <1>2, PTL DEF DemoSpec, Messages!Spec

\* Their invariant holds throughout the program.
THEOREM MessagesInvariance == DemoSpec => []MInv
  BY ImplementsMessages, MInit, MStep, PTL DEF Messages!Spec

\* Whatever fails, and although nobody looks at the results of read(), no
\* process prints an array nothing was read into.
THEOREM HeardRightCorrect == DemoSpec => []HeardRight
  <1>1. MInv => HeardRight BY DEF MInv, HeardSoFar, HeardRight
  <1> QED BY <1>1, MessagesInvariance, PTL

\* If no pipe() and no fork() of the message demos fails, whatever the pipeline
\* between them does, every message arrives and main closes all it has opened.
THEOREM CompleteWhenNothingFailsCorrect == DemoSpec => []CompleteWhenNothingFails
  <1>1. ASSUME MInv, main \in {"done", "killed"}, ~failed
        PROVE  /\ main = "done" /\ child = "none"
               /\ heard["parent"] = {"reply"} /\ heard["child"] = {"hello", "greeting"}
               /\ held["parent"] = {}
               /\ content = [p \in Messages!Pipes |-> Messages!Empty]
    <2>1. main = "done" /\ child = "none" BY <1>1 DEF MInv, Family
    <2>2. heard["parent"] = {"reply"} /\ heard["child"] = {"hello", "greeting"}
      BY <1>1, <2>1 DEF MInv, HeardSoFar
    <2>3. held["parent"] = {} BY <1>1, <2>1 DEF MInv, Holds
    <2>4. content = [p \in Messages!Pipes |-> Messages!Empty] BY <1>1, <2>1 DEF MInv, InPipe
    <2> QED BY <2>1, <2>2, <2>3, <2>4
  <1>2. MInv => CompleteWhenNothingFails
    BY <1>1 DEF CompleteWhenNothingFails, Messages!CompleteWhenNothingFails
  <1> QED BY <1>2, MessagesInvariance, PTL

=============================================================================
