---------------------------- MODULE PipelineDemo ----------------------------
(***************************************************************************)
(* pipe_exec_demo() of examples/pipe_demo.c: ls -l | wc -l built from one  *)
(* pipe, two forks, dup2 and execlp.  pipe, fork and execlp may fail; the  *)
(* descriptors given to dup2 are open, so it does not.  The pipe delivers  *)
(* end-of-file only when the last descriptor of its write end is closed,   *)
(* whichever process holds it.                                             *)
(***************************************************************************)
EXTENDS Integers

CONSTANTS
  LsLines,              \* lines ls has to write
  PipeCap,              \* lines the pipe holds
  Unflushed             \* lines in the caller's stdio buffer (0 on a terminal)

\* A stdio buffer (4 KB) fits into an empty pipe (64 KB).
ASSUME PipelineAssumption ==
  /\ LsLines \in Nat \ {0} /\ PipeCap \in Nat \ {0}
  /\ Unflushed \in 0..PipeCap

Processes == {"parent", "ls", "wc"}
Fds == {"in", "out", "p0", "p1"}        \* 0, 1, pipefd[0] and pipefd[1]

VARIABLES
  pc,                   \* pc[p]: program point of each process
  fd,                   \* fd[p][f]: "r", "w", "std" or "closed"
  pipe,                 \* lines in the pipe
  left,                 \* lines ls still has to write
  count,                \* lines wc has read
  shown,                \* the count wc printed, or -1
  forked                \* children whose fork() succeeded

vars == <<pc, fd, pipe, left, count, shown, forked>>
data == <<pipe, left, count, shown>>

Init ==
  /\ pc = [p \in Processes |-> IF p = "parent" THEN "pipe" ELSE "none"]
  /\ fd = [p \in Processes |->
             [f \in Fds |-> IF p = "parent" /\ f \in {"in", "out"}
                              THEN "std" ELSE "closed"]]
  /\ pipe = 0 /\ left = LsLines /\ count = 0 /\ shown = -1
  /\ forked = {}

Readers == {p \in Processes : \E f \in Fds : fd[p][f] = "r"}
Writers == {p \in Processes : \E f \in Fds : fd[p][f] = "w"}

NoFds == [f \in Fds |-> "closed"]

Close(p, f, next) ==
  /\ fd' = [fd EXCEPT ![p][f] = "closed"]
  /\ pc' = [pc EXCEPT ![p] = next]
  /\ UNCHANGED <<data, forked>>

\* dup2(from, to): to is closed first if open and then refers to from's file.
Dup2(p, from, to, next) ==
  /\ fd' = [fd EXCEPT ![p][to] = fd[p][from]]
  /\ pc' = [pc EXCEPT ![p] = next]
  /\ UNCHANGED <<data, forked>>

\* A process ends: the kernel closes all its descriptors.
Exit(p) ==
  /\ fd' = [fd EXCEPT ![p] = NoFds]
  /\ pc' = [pc EXCEPT ![p] = "zombie"]

-----------------------------------------------------------------------------
(* The first child: ls                                                     *)

LsSetup ==
  \/ pc["ls"] = "close0" /\ Close("ls", "p0", "dup2")
  \/ pc["ls"] = "dup2" /\ Dup2("ls", "p1", "out", "close1")
  \/ pc["ls"] = "close1" /\ Close("ls", "p1", "exec")

LsExec ==
  /\ pc["ls"] = "exec"
  /\ pc' = [pc EXCEPT !["ls"] = "run"]
  /\ UNCHANGED <<fd, data, forked>>

\* execlp fails: perror, exit(1).  exit() flushes the stdio buffer inherited
\* from the parent, and standard output is the pipe by now.  Without a reader
\* the flush ends in SIGPIPE, which makes no difference to anybody.
LsExecFails ==
  /\ pc["ls"] = "exec"
  /\ pipe' = IF Readers = {} THEN pipe ELSE pipe + Unflushed
  /\ Exit("ls")
  /\ UNCHANGED <<left, count, shown, forked>>

\* ls writes a line; it blocks while the pipe is full.
LsWrite ==
  /\ pc["ls"] = "run" /\ left > 0
  /\ Readers # {} /\ pipe < PipeCap
  /\ pipe' = pipe + 1 /\ left' = left - 1
  /\ UNCHANGED <<pc, fd, count, shown, forked>>

\* Writing without a reader left: SIGPIPE ends ls.
LsSigpipe ==
  /\ pc["ls"] = "run" /\ left > 0
  /\ Readers = {}
  /\ Exit("ls")
  /\ UNCHANGED <<data, forked>>

LsDone ==
  /\ pc["ls"] = "run" /\ left = 0
  /\ Exit("ls")
  /\ UNCHANGED <<data, forked>>

Ls == LsSetup \/ LsExec \/ LsExecFails \/ LsWrite \/ LsSigpipe \/ LsDone

-----------------------------------------------------------------------------
(* The second child: wc                                                    *)

\* Mutant of WcSetup: the unused write end is not closed.
WcSetupKeepsWriteEnd ==
  \/ /\ pc["wc"] = "close1"
     /\ pc' = [pc EXCEPT !["wc"] = "dup2"]
     /\ UNCHANGED <<fd, data, forked>>
  \/ pc["wc"] = "dup2" /\ Dup2("wc", "p0", "in", "close0")
  \/ pc["wc"] = "close0" /\ Close("wc", "p0", "exec")

WcSetup ==
  \/ pc["wc"] = "close1" /\ Close("wc", "p1", "dup2")
  \/ pc["wc"] = "dup2" /\ Dup2("wc", "p0", "in", "close0")
  \/ pc["wc"] = "close0" /\ Close("wc", "p0", "exec")

WcExec ==
  /\ pc["wc"] = "exec"
  /\ pc' = [pc EXCEPT !["wc"] = "run"]
  /\ UNCHANGED <<fd, data, forked>>

\* execlp fails; what exit(1) flushes goes to the terminal or file of the demo.
WcExecFails ==
  /\ pc["wc"] = "exec"
  /\ Exit("wc")
  /\ UNCHANGED <<data, forked>>

WcRead ==
  /\ pc["wc"] = "run" /\ pipe > 0
  /\ pipe' = pipe - 1 /\ count' = count + 1
  /\ UNCHANGED <<pc, fd, left, shown, forked>>

\* Mutant of WcEof: an empty pipe is taken for its end.
WcEofWhenEmpty ==
  /\ pc["wc"] = "run" /\ pipe = 0
  /\ shown' = count
  /\ Exit("wc")
  /\ UNCHANGED <<pipe, left, count, forked>>

\* read() returns 0: the pipe is empty and no write end is open anywhere.
WcEof ==
  /\ pc["wc"] = "run" /\ pipe = 0 /\ Writers = {}
  /\ shown' = count
  /\ Exit("wc")
  /\ UNCHANGED <<pipe, left, count, forked>>

Wc == WcSetup \/ WcExec \/ WcExecFails \/ WcRead \/ WcEof

-----------------------------------------------------------------------------
(* pipe_exec_demo                                                          *)

At(point) == pc["parent"] = point
Goto(point) == pc' = [pc EXCEPT !["parent"] = point]

MakePipe ==
  /\ At("pipe")
  /\ \/ /\ fd' = [fd EXCEPT !["parent"] = [@ EXCEPT !["p0"] = "r", !["p1"] = "w"]]
        /\ Goto("fork1")
     \/ Goto("returned") /\ UNCHANGED fd
  /\ UNCHANGED <<data, forked>>

\* fork() copies the descriptor table.  Its failure is not checked.
Fork(point, child, first, next) ==
  /\ At(point)
  /\ \/ /\ forked' = forked \cup {child}
        /\ fd' = [fd EXCEPT ![child] = fd["parent"]]
        /\ pc' = [pc EXCEPT !["parent"] = next, ![child] = first]
     \/ Goto(next) /\ UNCHANGED <<fd, forked>>
  /\ UNCHANGED data

\* Mutant of ParentCloseWrite: close(pipefd[1]) is forgotten.
ParentKeepsWriteEnd ==
  /\ At("close1") /\ Goto("wait1")
  /\ UNCHANGED <<fd, data, forked>>

ParentCloseRead == At("close0") /\ Close("parent", "p0", "close1")
ParentCloseWrite == At("close1") /\ Close("parent", "p1", "wait1")

\* The children waitpid() may return.
Awaited(child) == IF child \in forked THEN {child} ELSE {"ls", "wc"}

\* Mutant of WaitPid: it does not block.
WaitPidNoHang(point, child, next) ==
  /\ At(point)
  /\ pc' = [pc EXCEPT !["parent"] = next]
  /\ UNCHANGED <<fd, data, forked>>

\* waitpid(pid, ...): pid is -1 after a failed fork, which waits for any child;
\* it fails at once when there is no child to wait for.
WaitPid(point, child, next) ==
  /\ At(point)
  /\ \/ \E c \in Awaited(child) :
          /\ pc[c] = "zombie"
          /\ pc' = [pc EXCEPT ![c] = "reaped", !["parent"] = next]
     \/ /\ \A c \in Awaited(child) : pc[c] \in {"none", "reaped"}
        /\ Goto(next)
  /\ UNCHANGED <<fd, data, forked>>

PipeExecDemo ==
  \/ MakePipe
  \/ Fork("fork1", "ls", "close0", "fork2")
  \/ Fork("fork2", "wc", "close1", "close0")
  \/ ParentCloseRead
  \/ ParentCloseWrite
  \/ WaitPid("wait1", "ls", "wait2")
  \/ WaitPid("wait2", "wc", "returned")

Terminated == At("returned") /\ UNCHANGED vars

Next == PipeExecDemo \/ Ls \/ Wc \/ Terminated

Spec == Init /\ [][Next]_vars

-----------------------------------------------------------------------------
(* Properties                                                              *)

\* wc prints its total only when nothing more can come.  If ls ran, it is the
\* number of lines ls had to write; if not, it is 0, or the lines of this
\* program that exit(1) flushed into the pipe when execlp failed.
CountsLsLines ==
  shown # -1 =>
    /\ pc["ls"] \in {"none", "zombie", "reaped"}
    /\ left \in {0, LsLines}
    /\ left = 0 => shown = LsLines
    /\ left > 0 => shown = IF "ls" \in forked THEN Unflushed ELSE 0

\* When it has returned, no child is left and the caller holds no end of the
\* pipe any more.
CleanReturn ==
  At("returned") =>
    /\ \A c \in {"ls", "wc"} : pc[c] \in {"none", "reaped"}
    /\ Readers = {} /\ Writers = {}

\* Who is blocked: ls by a full pipe, wc by an empty one that somebody holds the
\* write end of, the parent by a child that has not ended.
LsBlocked == pc["ls"] = "run" /\ left > 0 /\ Readers # {} /\ pipe >= PipeCap
WcBlocked == pc["wc"] = "run" /\ pipe = 0 /\ Writers # {}
ParentBlocked ==
  \E call \in {<<"wait1", "ls">>, <<"wait2", "wc">>} :
    /\ At(call[1])
    /\ \A c \in Awaited(call[2]) : pc[c] # "zombie"
    /\ \E c \in Awaited(call[2]) : pc[c] \notin {"none", "reaped"}

\* While the parent waits for a child, one of the children can go on: no pipe
\* end left open makes the three wait for one another, also when a fork or an
\* execlp failed and waitpid() waits for a child it was not meant for.
NoCircularWait ==
  ParentBlocked =>
    \/ pc["ls"] \notin {"none", "zombie", "reaped"} /\ ~LsBlocked
    \/ pc["wc"] \notin {"none", "zombie", "reaped"} /\ ~WcBlocked

=============================================================================
