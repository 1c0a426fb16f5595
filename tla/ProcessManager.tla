--------------------------- MODULE ProcessManager ---------------------------
(***************************************************************************)
(* examples/process_manager.c: a parent forks N children, each prints two  *)
(* lines and exits with its number, and the parent calls wait() N times.   *)
(*                                                                         *)
(* Standard output is a terminal (every line is written at once) or a file *)
(* or pipe (lines stay in the stdio buffer, which fork() copies and exit() *)
(* writes).  SIGCHLD is at its default or was ignored by whoever started   *)
(* the program, in which case the kernel reaps the children itself and     *)
(* wait() fails with ECHILD once none is left.                             *)
(***************************************************************************)
EXTENDS Integers, FiniteSets

CONSTANT N              \* children (3)

ASSUME NAssumption == N \in Nat \ {0}

Children == 1..N
Parent == 0
Processes == Children \cup {Parent}
Unset == 0
Killed == -1            \* terminated by a signal instead of exit(child_num)

\* Lines of output; "Started" and the process info after it form one line.
Lines == {"hello", "waiting", "completed"} \X {Parent}
           \cup {"created", "started", "exiting", "terminated"} \X Children

VARIABLES
  tty,                  \* standard output is a terminal
  ignored,              \* SIGCHLD is ignored
  parent,               \* program point of main
  i,                    \* its loop index
  st,                   \* st[c]: "none", "started", "working", "zombie", "reaped"
  status,               \* status[c]: how child c ended
  reported,             \* reported[c]: the status the parent printed for c
  buf,                  \* buf[p]: lines in the stdio buffer of process p
  out                   \* out[l]: how often line l was written

vars == <<tty, ignored, parent, i, st, status, reported, buf, out>>

Init ==
  /\ tty \in BOOLEAN /\ ignored \in BOOLEAN
  /\ parent = "start" /\ i = 0
  /\ st = [c \in Children |-> "none"]
  /\ status = [c \in Children |-> Unset]
  /\ reported = [c \in Children |-> Unset]
  /\ buf = [p \in Processes |-> {}]
  /\ out = [l \in Lines |-> 0]

-----------------------------------------------------------------------------
(* stdio                                                                   *)

Written(ls) == [l \in Lines |-> IF l \in ls THEN out[l] + 1 ELSE out[l]]

Printf(p, l) ==
  IF tty THEN out' = Written({l}) /\ UNCHANGED buf
         ELSE buf' = [buf EXCEPT ![p] = @ \cup {l}] /\ UNCHANGED out

\* printf of a last line, then exit(), which flushes the buffer.
PrintfExit(p, ls) ==
  /\ out' = Written(buf[p] \cup ls)
  /\ buf' = [buf EXCEPT ![p] = {}]

-----------------------------------------------------------------------------
(* child_task                                                              *)

ChildStart(c) ==
  /\ st[c] = "started"
  /\ st' = [st EXCEPT ![c] = "working"]
  /\ Printf(c, <<"started", c>>)
  /\ UNCHANGED <<tty, ignored, parent, i, status, reported>>

ParentGone == parent \in {"exited", "failed"}

\* A child that ends is a zombie until its parent waits for it; init reaps
\* orphans, the kernel the children of a parent that ignores SIGCHLD.
Ends(c, how) ==
  /\ st' = [st EXCEPT ![c] = IF ignored \/ ParentGone THEN "reaped" ELSE "zombie"]
  /\ status' = [status EXCEPT ![c] = how]

ChildExit(c) ==
  /\ st[c] = "working"
  /\ Ends(c, c)
  /\ PrintfExit(c, {<<"exiting", c>>})
  /\ UNCHANGED <<tty, ignored, parent, i, reported>>

\* A signal from outside ends the child; what it had buffered is lost.
ChildKilled(c) ==
  /\ st[c] \in {"started", "working"}
  /\ Ends(c, Killed)
  /\ buf' = [buf EXCEPT ![c] = {}]
  /\ UNCHANGED <<tty, ignored, parent, i, reported, out>>

-----------------------------------------------------------------------------
(* main                                                                    *)

Start ==
  /\ parent = "start"
  /\ parent' = "fork"
  /\ Printf(Parent, <<"hello", Parent>>)
  /\ UNCHANGED <<tty, ignored, i, st, status, reported>>

\* fork() copies the stdio buffer; the parent then prints "Created child".
Fork ==
  /\ parent = "fork" /\ i < N
  /\ LET c == i + 1
         line == <<"created", c>>
     IN  /\ st' = [st EXCEPT ![c] = "started"]
         /\ buf' = [buf EXCEPT ![c] = buf[Parent],
                               ![Parent] = IF tty THEN @ ELSE @ \cup {line}]
         /\ out' = IF tty THEN Written({line}) ELSE out
  /\ i' = i + 1
  /\ UNCHANGED <<tty, ignored, parent, status, reported>>

\* A parent that exits leaves its zombies to init and orphans the rest.
Reparent == st' = [c \in Children |-> IF st[c] = "zombie" THEN "reaped" ELSE st[c]]

\* Mutant of ForkFails: _exit(1) instead of exit(1).
ForkFailsNoFlush ==
  /\ parent = "fork" /\ i < N
  /\ parent' = "failed"
  /\ Reparent
  /\ UNCHANGED <<tty, ignored, i, status, reported, buf, out>>

\* fork() fails: perror, exit(1).
ForkFails ==
  /\ parent = "fork" /\ i < N
  /\ parent' = "failed"
  /\ Reparent
  /\ PrintfExit(Parent, {})
  /\ UNCHANGED <<tty, ignored, i, status, reported>>

StartWaiting ==
  /\ parent = "fork" /\ i = N
  /\ parent' = "wait" /\ i' = 0
  /\ Printf(Parent, <<"waiting", Parent>>)
  /\ UNCHANGED <<tty, ignored, st, status, reported>>

\* Mutant of WaitReaps: WNOHANG, which returns although no child has ended.
WaitNoHang(c) ==
  /\ parent = "wait" /\ i < N
  /\ st[c] = "zombie" \/ \A d \in Children : st[d] # "zombie"
  /\ st' = [st EXCEPT ![c] = IF @ = "zombie" THEN "reaped" ELSE @]
  /\ reported' = [reported EXCEPT ![c] = status[c]]
  /\ i' = i + 1
  /\ Printf(Parent, <<"terminated", c>>)
  /\ UNCHANGED <<tty, ignored, parent, status>>

\* wait() returns a child that ended; WIFEXITED or WIFSIGNALED tells how.
WaitReaps(c) ==
  /\ parent = "wait" /\ i < N
  /\ st[c] = "zombie"
  /\ st' = [st EXCEPT ![c] = "reaped"]
  /\ reported' = [reported EXCEPT ![c] = status[c]]
  /\ i' = i + 1
  /\ Printf(Parent, <<"terminated", c>>)
  /\ UNCHANGED <<tty, ignored, parent, status>>

\* Mutant of WaitFails: a failed wait() is retried.
WaitFailsRetry ==
  /\ parent = "wait" /\ i < N
  /\ \A c \in Children : st[c] = "reaped"
  /\ UNCHANGED vars

\* wait() fails with ECHILD, only when no child is left to wait for: perror
\* and continue.
WaitFails ==
  /\ parent = "wait" /\ i < N
  /\ \A c \in Children : st[c] = "reaped"
  /\ i' = i + 1
  /\ UNCHANGED <<tty, ignored, parent, st, status, reported, buf, out>>

\* Mutant of Complete: _exit() instead of return.
CompleteNoFlush ==
  /\ parent = "wait" /\ i = N
  /\ parent' = "exited"
  /\ Reparent
  /\ Printf(Parent, <<"completed", Parent>>)
  /\ UNCHANGED <<tty, ignored, i, status, reported>>

\* "All children completed", return 0.
Complete ==
  /\ parent = "wait" /\ i = N
  /\ parent' = "exited"
  /\ Reparent
  /\ PrintfExit(Parent, {<<"completed", Parent>>})
  /\ UNCHANGED <<tty, ignored, i, status, reported>>

Main ==
  \/ Start \/ Fork \/ ForkFails \/ StartWaiting \/ WaitFails \/ Complete
  \/ \E c \in Children : WaitReaps(c)

Child(c) == ChildStart(c) \/ ChildExit(c)

Terminated ==
  /\ ParentGone /\ \A c \in Children : st[c] \in {"none", "reaped"}
  /\ UNCHANGED vars

Next == Main \/ (\E c \in Children : Child(c) \/ ChildKilled(c)) \/ Terminated

\* Every process that can run runs; the children's sleep() returns.
Fairness == WF_vars(Main) /\ \A c \in Children : WF_vars(Child(c))

Spec == Init /\ [][Next]_vars
FairSpec == Spec /\ Fairness

-----------------------------------------------------------------------------
(* Properties                                                              *)

TypeOK ==
  /\ tty \in BOOLEAN /\ ignored \in BOOLEAN
  /\ parent \in {"start", "fork", "wait", "exited", "failed"}
  /\ i \in 0..N
  /\ st \in [Children -> {"none", "started", "working", "zombie", "reaped"}]
  /\ status \in [Children -> {Unset, Killed} \cup Children]
  /\ reported \in [Children -> {Unset, Killed} \cup Children]
  /\ buf \in [Processes -> SUBSET Lines]
  /\ out \in [Lines -> Nat]

\* "All children completed" is true when it is printed: N calls of wait() are
\* enough to see every child end, whatever the order of their exits, also when
\* each of them failed with ECHILD; no zombie is left, and each child's own
\* status was reported unless the kernel discarded it.
AllChildrenCompleted ==
  parent = "exited" =>
    \A c \in Children :
      /\ st[c] = "reaped"
      /\ status[c] \in {c, Killed}
      /\ reported[c] = IF ignored THEN Unset ELSE status[c]

\* In the wait loop there are as many children left to reap as calls of wait()
\* to come, whoever ended when: no call finds nobody to wait for and none is
\* missing at the end.  (A SIGCHLD that is ignored leaves nobody to wait for.)
CallsMatchChildren ==
  parent = "wait" /\ ~ignored
    => Cardinality({c \in Children : st[c] # "reaped"}) = N - i

\* The wait loop waits for every child: one call for each on the way, and
\* nothing missing when it is over.
EachChildWaitedFor == CallsMatchChildren /\ AllChildrenCompleted

\* Whether or not output is buffered, every line a process printed reaches
\* standard output once the process has left through exit(), also the exit(1)
\* after a failed fork(); on a terminal it does so once.
OutputComplete ==
  /\ ParentGone => /\ out[<<"hello", Parent>>] > 0
                   /\ \A c \in Children : st[c] # "none" => out[<<"created", c>>] > 0
  /\ parent = "exited" =>
       /\ out[<<"waiting", Parent>>] > 0 /\ out[<<"completed", Parent>>] > 0
       /\ \A c \in Children : ~ignored => out[<<"terminated", c>>] > 0
  /\ \A c \in Children :
       status[c] = c => out[<<"started", c>>] > 0 /\ out[<<"exiting", c>>] > 0
  /\ tty => \A l \in Lines : out[l] <= 1

\* No line is written twice, wherever standard output goes.
NoDuplicateOutput == \A l \in Lines : out[l] <= 1

\* The program ends and leaves no process behind for long: every child is
\* reaped, by the parent, the kernel or init.
AllEnd == <>[](ParentGone /\ \A c \in Children : st[c] \in {"none", "reaped"})

\* The inductive invariant behind AllChildrenCompleted: which children exist
\* and have ended, and that the wait loop counts exactly those it reaped or,
\* with SIGCHLD ignored, does not get past its first call before all ended.
Forked == IF parent \in {"start", "fork", "failed"} THEN i ELSE N

Reaped == {c \in Children : st[c] = "reaped"}

ChildrenInv ==
  \A c \in Children :
    /\ st[c] = "none" <=> c > Forked
    /\ st[c] \in {"zombie", "reaped"} => status[c] \in {c, Killed}
    /\ ignored => st[c] # "zombie" /\ reported[c] = Unset
    /\ ~ignored /\ st[c] = "reaped" /\ parent = "wait" => reported[c] = status[c]
    /\ parent \in {"start", "fork"} /\ ~ignored => st[c] # "reaped"

WaitInv ==
  /\ parent = "start" => i = 0
  /\ parent = "wait" /\ ~ignored => Cardinality(Reaped) = i
  /\ parent = "wait" /\ ignored /\ i > 0 => Reaped = Children

IInv == TypeOK /\ ChildrenInv /\ WaitInv /\ AllChildrenCompleted

=============================================================================
