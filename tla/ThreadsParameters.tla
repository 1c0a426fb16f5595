------------------------- MODULE ThreadsParameters -------------------------
(***************************************************************************)
(* The numbers written into examples/threads_demo.c, as parameters shared  *)
(* by the modules of its demos.                                            *)
(***************************************************************************)
EXTENDS Integers

CONSTANTS
  Iterations,           \* the loop bound of mutex_thread (10000)
  Items,                \* the loop bound of producer and consumer (5)
  N                     \* threads of the simple and the TLS demo (3)

ASSUME IterationsAssumption == Iterations \in Nat
ASSUME ItemsAssumption == Items \in Nat \ {0}
ASSUME NAssumption == N \in Nat \ {0}

=============================================================================
