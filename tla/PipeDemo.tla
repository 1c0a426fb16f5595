------------------------------ MODULE PipeDemo ------------------------------
(***************************************************************************)
(* The whole of examples/pipe_demo.c: main runs the message demos of       *)
(* PipeMessages and, in the place of their step PipeExecDemo, the pipeline *)
(* of PipelineDemo.                                                        *)
(***************************************************************************)
EXTENDS PipelineDemo

VARIABLES main, child, held, content, heard, failed     \* of PipeMessages

Messages == INSTANCE PipeMessages

messageVars == <<main, child, held, content, heard, failed>>
demoVars == <<vars, messageVars>>

DemoInit == Init /\ Messages!Init

\* main is in pipe_exec_demo, and goes on when that has returned.
Pipeline == main = "exec" /\ PipeExecDemo /\ UNCHANGED messageVars

Others ==
  /\ main = "exec" => At("returned")
  /\ Messages!Main /\ UNCHANGED vars

\* The children run whenever they exist.
Child ==
  \/ Messages!Child /\ UNCHANGED vars
  \/ (Ls \/ Wc) /\ UNCHANGED messageVars

Ended == Messages!Terminated /\ UNCHANGED vars

DemoNext == Pipeline \/ Others \/ Child \/ Ended

\* Every process that is not blocked runs eventually.
DemoFairness ==
  /\ WF_demoVars(Pipeline) /\ WF_demoVars(Others) /\ WF_demoVars(Messages!Child /\ UNCHANGED vars)
  /\ WF_demoVars(Ls /\ UNCHANGED messageVars) /\ WF_demoVars(Wc /\ UNCHANGED messageVars)

DemoSpec == DemoInit /\ [][DemoNext]_demoVars /\ DemoFairness

-----------------------------------------------------------------------------
(* Properties                                                              *)

\* Nobody prints an array nothing was read into, and each process hears only
\* what was meant for it, although the results of read() are not looked at.
HeardRight == Messages!HeardRight

\* A demo that gets its pipes and its child delivers every message, leaves no
\* descriptor open and no child behind; main is not killed by SIGPIPE.
CompleteWhenNothingFails == Messages!CompleteWhenNothingFails

\* The program ends whichever pipe, fork or execlp failed: nobody waits for a
\* message, an end-of-file, a free slot in the pipe or a child that cannot come.
MainEnds == <>(main \in {"done", "killed"})

=============================================================================
