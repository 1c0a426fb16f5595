----------------------------- MODULE MutexDemo -----------------------------
(***************************************************************************)
(* demo_mutex() of examples/threads_demo.c: main creates two threads, each *)
(* increments the global `counter' Iterations times under `mutex', and     *)
(* main prints the total after joining both.                               *)
(*                                                                         *)
(* counter++ is the load and the store the compiler emits for it, so the   *)
(* mutex is what makes it atomic here.  The two pthread_create calls are   *)
(* unchecked: when one fails, main joins an uninitialised pthread_t, which *)
(* may return, crash or hang.                                              *)
(***************************************************************************)
EXTENDS ThreadsParameters

Threads == {"t1", "t2"}
Free == "free"

VARIABLES
  counter,              \* the global int
  mutex,                \* owner of the global mutex, or Free
  pc,                   \* program point of each thread
  i,                    \* loop index of each thread
  reg,                  \* register holding the loaded counter
  main,                 \* program point of demo_mutex
  created               \* threads whose pthread_create succeeded

vars == <<counter, mutex, pc, i, reg, main, created>>

Init ==
  /\ counter = 0
  /\ mutex = Free
  /\ pc = [t \in Threads |-> "new"]
  /\ i = [t \in Threads |-> 0]
  /\ reg = [t \in Threads |-> 0]
  /\ main = "reset"
  /\ created = {}

-----------------------------------------------------------------------------
(* mutex_thread                                                            *)

\* Mutant of Lock: the mutex is not awaited.
LockWithoutWaiting(t) ==
  /\ pc[t] = "lock"
  /\ i[t] < Iterations
  /\ mutex' = t
  /\ pc' = [pc EXCEPT ![t] = "load"]
  /\ UNCHANGED <<counter, i, reg, main, created>>

Lock(t) ==
  /\ pc[t] = "lock"
  /\ i[t] < Iterations
  /\ mutex = Free
  /\ mutex' = t
  /\ pc' = [pc EXCEPT ![t] = "load"]
  /\ UNCHANGED <<counter, i, reg, main, created>>

Load(t) ==
  /\ pc[t] = "load"
  /\ reg' = [reg EXCEPT ![t] = counter]
  /\ pc' = [pc EXCEPT ![t] = "store"]
  /\ UNCHANGED <<counter, mutex, i, main, created>>

Store(t) ==
  /\ pc[t] = "store"
  /\ counter' = reg[t] + 1
  /\ pc' = [pc EXCEPT ![t] = "unlock"]
  /\ UNCHANGED <<mutex, i, reg, main, created>>

Unlock(t) ==
  /\ pc[t] = "unlock"
  /\ mutex' = Free
  /\ i' = [i EXCEPT ![t] = @ + 1]
  /\ pc' = [pc EXCEPT ![t] = "lock"]
  /\ UNCHANGED <<counter, reg, main, created>>

Return(t) ==
  /\ pc[t] = "lock"
  /\ i[t] = Iterations
  /\ pc' = [pc EXCEPT ![t] = "exited"]
  /\ UNCHANGED <<counter, mutex, i, reg, main, created>>

\* A crash of main ends the process and every thread with it.
MutexThread(t) ==
  /\ main # "crashed"
  /\ Lock(t) \/ Load(t) \/ Store(t) \/ Unlock(t) \/ Return(t)

-----------------------------------------------------------------------------
(* demo_mutex                                                              *)

Reset ==
  /\ main = "reset"
  /\ counter' = 0
  /\ main' = "create1"
  /\ UNCHANGED <<mutex, pc, i, reg, created>>

\* pthread_create: on failure the thread does not exist and main goes on.
Create(t, at, next) ==
  /\ main = at
  /\ main' = next
  /\ \/ /\ created' = created \cup {t}
        /\ pc' = [pc EXCEPT ![t] = "lock"]
     \/ UNCHANGED <<created, pc>>
  /\ UNCHANGED <<counter, mutex, i, reg>>

\* Mutant of Join: main does not wait for the thread.
JoinWithoutWaiting(t, at, next) ==
  /\ main = at
  /\ main' = next
  /\ UNCHANGED <<counter, mutex, pc, i, reg, created>>

\* pthread_join of a live thread blocks until it has returned.
Join(t, at, next) ==
  /\ main = at
  /\ \/ pc[t] = "exited" /\ main' = next
     \/ t \notin created /\ main' \in {next, "crashed", "hung"}
  /\ UNCHANGED <<counter, mutex, pc, i, reg, created>>

PrintTotal ==
  /\ main = "print"
  /\ main' = "returned"
  /\ UNCHANGED <<counter, mutex, pc, i, reg, created>>

DemoMutex ==
  \/ Reset
  \/ Create("t1", "create1", "create2")
  \/ Create("t2", "create2", "join1")
  \/ Join("t1", "join1", "join2")
  \/ Join("t2", "join2", "print")
  \/ PrintTotal

\* main has left the demo, or is stuck joining a thread that never existed,
\* and no thread is left: stopping anywhere else would be a deadlock.
Terminated ==
  /\ \/ main = "crashed"
     \/ /\ main \in {"returned", "hung"}
        /\ \A t \in Threads : pc[t] \in {"new", "exited"}
  /\ UNCHANGED vars

Next == DemoMutex \/ (\E t \in Threads : MutexThread(t)) \/ Terminated

Spec == Init /\ [][Next]_vars

-----------------------------------------------------------------------------
(* Properties                                                              *)

InCS(t) == pc[t] \in {"load", "store", "unlock"}

TypeOK ==
  /\ counter \in Nat
  /\ mutex \in Threads \cup {Free}
  /\ pc \in [Threads -> {"new", "lock", "load", "store", "unlock", "exited"}]
  /\ i \in [Threads -> 0..Iterations]
  /\ reg \in [Threads -> Nat]
  /\ main \in {"reset", "create1", "create2", "join1", "join2", "print",
               "returned", "crashed", "hung"}
  /\ created \subseteq Threads

\* Increments thread t has stored.
Incs == [t \in Threads |-> IF pc[t] = "unlock" THEN i[t] + 1 ELSE i[t]]

Quota(t) == IF t \in created THEN Iterations ELSE 0

\* When main prints the total ("expected: 20000", threads_demo.c:108), no
\* increment of a thread that was created is missing: none was lost to an
\* interleaving of the two counter++ and none is still to come.
FinalCounter ==
  main \in {"print", "returned"} => counter = Quota("t1") + Quota("t2")

\* The inductive invariant behind FinalCounter: the mutex's owner is the one
\* thread in the critical section, what it loaded is current, the counter is
\* the sum of the completed increments, and main is past a join only if the
\* thread it joined has returned or never existed.
IInv ==
  /\ TypeOK
  /\ \A t \in Threads :
       /\ InCS(t) <=> mutex = t
       /\ InCS(t) => i[t] < Iterations
       /\ pc[t] = "store" => reg[t] = counter
       /\ pc[t] = "new" <=> t \notin created
       /\ pc[t] = "new" => i[t] = 0
       /\ pc[t] = "exited" => i[t] = Iterations
  /\ counter = Incs["t1"] + Incs["t2"]
  /\ main \in {"reset", "create1"} => created = {}
  /\ main = "create2" => "t2" \notin created
  /\ main \in {"join2", "print", "returned"} => pc["t1"] \in {"new", "exited"}
  /\ main \in {"print", "returned"} => pc["t2"] \in {"new", "exited"}

-----------------------------------------------------------------------------
(* The shared counter as its reader sees it                                *)

Abstract == INSTANCE AtomicCounter
              WITH count <- counter, incs <- Incs, reported <- main = "returned"

\* The load/store pairs under the mutex implement atomic increments and the
\* two joins make main read a total that no longer changes.
ImplementsAtomicCounter == Abstract!Spec

=============================================================================
