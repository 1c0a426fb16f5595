--------------------------- MODULE AtomicCounter ---------------------------
(***************************************************************************)
(* What a counter shared by two threads promises its reader: increments    *)
(* are atomic, and the value reported is read once no increment is left to *)
(* come.  MutexDemo implements this specification.                         *)
(***************************************************************************)
EXTENDS Integers

CONSTANT Iterations     \* increments each thread performs

VARIABLES
  count,                \* the shared counter
  incs,                 \* incs[t]: increments thread t has performed
  reported              \* TRUE once the final value has been read

vars == <<count, incs, reported>>

Threads == {"t1", "t2"}

Init ==
  /\ count = 0
  /\ incs = [t \in Threads |-> 0]
  /\ reported = FALSE

Inc(t) ==
  /\ ~reported
  /\ incs[t] < Iterations
  /\ count' = count + 1
  /\ incs' = [incs EXCEPT ![t] = @ + 1]
  /\ UNCHANGED reported

\* A thread that never came to life contributes nothing; every other thread
\* contributes all its increments.
Report ==
  /\ \A t \in Threads : incs[t] \in {0, Iterations}
  /\ count = incs["t1"] + incs["t2"]
  /\ reported' = TRUE
  /\ UNCHANGED <<count, incs>>

Next == (\E t \in Threads : Inc(t)) \/ Report

Spec == Init /\ [][Next]_vars

=============================================================================
