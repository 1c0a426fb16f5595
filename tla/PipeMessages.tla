---------------------------- MODULE PipeMessages ----------------------------
(***************************************************************************)
(* examples/pipe_demo.c: main runs simple_pipe_demo (parent writes, child  *)
(* reads), bidirectional_pipe_demo (a request and a reply over two pipes), *)
(* pipe_exec_demo (here one step: PipelineDemo, composed in PipeDemo) and   *)
(* pipe_capacity_demo.  A message is shorter than PIPE_BUF, so that one    *)
(* write and one read move it whole.  Every pipe() and fork() may fail.    *)
(***************************************************************************)
EXTENDS Integers

Pipes == {"simple", "pipe1", "pipe2", "capacity"}
R(p) == <<p, "r">>
W(p) == <<p, "w">>
Ends == Pipes \X {"r", "w"}
Empty == "empty"
Garbage == "garbage"    \* an array nothing was read into

VARIABLES
  main,                 \* program point of main and of the demo it is in
  child,                \* program point of the demo's child, or "none"
  held,                 \* held[who]: pipe ends the process has open
  content,              \* content[p]: the message in pipe p, or Empty
  heard,                \* heard[who]: messages the process printed as received
  failed                \* some pipe() or fork() has failed

vars == <<main, child, held, content, heard, failed>>

Init ==
  /\ main = "simple:pipe" /\ child = "none"
  /\ held = [who \in {"parent", "child"} |-> {}]
  /\ content = [p \in Pipes |-> Empty]
  /\ heard = [who \in {"parent", "child"} |-> {}]
  /\ failed = FALSE

IsOpen(end) == end \in held["parent"] \cup held["child"]

-----------------------------------------------------------------------------
(* System calls, by the parent or the child                                *)

Goto(who, next) ==
  IF who = "parent" THEN main' = next /\ UNCHANGED child
                    ELSE child' = next /\ UNCHANGED main

At(who, point) == point = IF who = "parent" THEN main ELSE child

Close(who, at, end, next) ==
  /\ At(who, at)
  /\ held' = [held EXCEPT ![who] = @ \ {end}]
  /\ Goto(who, next)
  /\ UNCHANGED <<content, heard, failed>>

\* write(), whose result nobody looks at: SIGPIPE ends the writer if no
\* process holds the read end.
Write(who, at, p, message, next) ==
  /\ At(who, at)
  /\ IF IsOpen(R(p))
       THEN /\ content' = [content EXCEPT ![p] = message]
            /\ Goto(who, next) /\ UNCHANGED held
       ELSE /\ held' = [held EXCEPT ![who] = {}]
            /\ Goto(who, "killed") /\ UNCHANGED content
  /\ UNCHANGED <<heard, failed>>

\* Mutant of Read: it does not wait for data.
ReadNoWait(who, at, p, atEof, next) ==
  /\ At(who, at)
  /\ heard' = [heard EXCEPT ![who] = @ \cup {content[p]}]
  /\ content' = [content EXCEPT ![p] = Empty]
  /\ Goto(who, next)
  /\ UNCHANGED <<held, failed>>

\* read() blocks until there is data or nobody can write any more; atEof is
\* what the code prints in the second case.
Read(who, at, p, atEof, next) ==
  /\ At(who, at)
  /\ content[p] # Empty \/ ~IsOpen(W(p))
  /\ LET message == IF content[p] # Empty THEN {content[p]} ELSE atEof
     IN  heard' = [heard EXCEPT ![who] = @ \cup message]
  /\ content' = [content EXCEPT ![p] = Empty]
  /\ Goto(who, next)
  /\ UNCHANGED <<held, failed>>

Pipe(at, p, next, onFailure) ==
  /\ main = at
  /\ \/ /\ held' = [held EXCEPT !["parent"] = @ \cup {R(p), W(p)}]
        /\ main' = next /\ UNCHANGED failed
     \/ main' = onFailure /\ failed' = TRUE /\ UNCHANGED held
  /\ UNCHANGED <<child, content, heard>>

Fork(at, first, next, onFailure) ==
  /\ main = at
  /\ \/ /\ held' = [held EXCEPT !["child"] = held["parent"]]
        /\ child' = first /\ main' = next /\ UNCHANGED failed
     \/ main' = onFailure /\ failed' = TRUE /\ UNCHANGED <<held, child>>
  /\ UNCHANGED <<content, heard>>

\* exit(0) closes what is left open.
ChildExit(at) ==
  /\ child = at
  /\ child' = "zombie"
  /\ held' = [held EXCEPT !["child"] = {}]
  /\ UNCHANGED <<main, content, heard, failed>>

\* wait(NULL): the demo's child, if there is one.
Wait(at, next) ==
  /\ main = at
  /\ child \in {"zombie", "none"}
  /\ main' = next /\ child' = "none"
  /\ UNCHANGED <<held, content, heard, failed>>

-----------------------------------------------------------------------------
(* The demos                                                               *)

SimpleParent ==
  \/ Pipe("simple:pipe", "simple", "simple:fork", "bidi:pipe1")
  \/ Fork("simple:fork", "simple:close1", "simple:close0", "bidi:pipe1")
  \/ Close("parent", "simple:close0", R("simple"), "simple:write")
  \/ Write("parent", "simple:write", "simple", "hello", "simple:close1")
  \/ Close("parent", "simple:close1", W("simple"), "simple:wait")
  \/ Wait("simple:wait", "bidi:pipe1")

SimpleChild ==
  \/ Close("child", "simple:close1", W("simple"), "simple:read")
  \/ Read("child", "simple:read", "simple", {}, "simple:close0")
  \/ Close("child", "simple:close0", R("simple"), "simple:exit")
  \/ ChildExit("simple:exit")

\* fork() is not checked: after a failure pid is -1 and the parent's branch
\* is taken.  msg is printed whatever read() returned.
BidiParent ==
  \/ Pipe("bidi:pipe1", "pipe1", "bidi:pipe2", "exec")
  \/ Pipe("bidi:pipe2", "pipe2", "bidi:fork", "exec")
  \/ Fork("bidi:fork", "bidi:close1w", "bidi:close1r", "bidi:close1r")
  \/ Close("parent", "bidi:close1r", R("pipe1"), "bidi:close2w")
  \/ Close("parent", "bidi:close2w", W("pipe2"), "bidi:write")
  \/ Write("parent", "bidi:write", "pipe1", "greeting", "bidi:close1w")
  \/ Close("parent", "bidi:close1w", W("pipe1"), "bidi:read")
  \/ Read("parent", "bidi:read", "pipe2", {Garbage}, "bidi:close2r")
  \/ Close("parent", "bidi:close2r", R("pipe2"), "bidi:wait")
  \/ Wait("bidi:wait", "exec")

BidiChild ==
  \/ Close("child", "bidi:close1w", W("pipe1"), "bidi:close2r")
  \/ Close("child", "bidi:close2r", R("pipe2"), "bidi:read")
  \/ Read("child", "bidi:read", "pipe1", {Garbage}, "bidi:close1r")
  \/ Close("child", "bidi:close1r", R("pipe1"), "bidi:write")
  \/ Write("child", "bidi:write", "pipe2", "reply", "bidi:close2w")
  \/ Close("child", "bidi:close2w", W("pipe2"), "bidi:exit")
  \/ ChildExit("bidi:exit")

\* pipe_exec_demo closes its pipe and reaps its children (PipelineDemo).
PipeExecDemo ==
  /\ main = "exec"
  /\ main' = "cap:pipe"
  /\ UNCHANGED <<child, held, content, heard, failed>>

\* Mutant of CapacityDemo: close(pipefd[1]) is forgotten.
CapacityDemoLeaks ==
  \/ Pipe("cap:pipe", "capacity", "cap:close0", "done")
  \/ Close("parent", "cap:close0", R("capacity"), "done")

CapacityDemo ==
  \/ Pipe("cap:pipe", "capacity", "cap:close0", "done")
  \/ Close("parent", "cap:close0", R("capacity"), "cap:close1")
  \/ Close("parent", "cap:close1", W("capacity"), "done")

Main == SimpleParent \/ BidiParent \/ PipeExecDemo \/ CapacityDemo
Child == SimpleChild \/ BidiChild

Terminated ==
  /\ main \in {"done", "killed"} /\ child \in {"none", "killed"}
  /\ UNCHANGED vars

Next == Main \/ Child \/ Terminated

Spec == Init /\ [][Next]_vars

-----------------------------------------------------------------------------
(* Properties                                                              *)

\* Nobody prints an array nothing was read into, and each process hears only
\* what was meant for it, although the results of read() are not looked at.
HeardRight ==
  /\ heard["parent"] \subseteq {"reply"}
  /\ heard["child"] \subseteq {"hello", "greeting"}

\* A demo that gets its pipes and its child delivers every message, leaves no
\* descriptor open and no child behind; main is not killed by SIGPIPE.
CompleteWhenNothingFails ==
  main \in {"done", "killed"} /\ ~failed =>
    /\ main = "done" /\ child = "none"
    /\ heard["parent"] = {"reply"} /\ heard["child"] = {"hello", "greeting"}
    /\ held["parent"] = {}
    /\ content = [p \in Pipes |-> Empty]

=============================================================================
