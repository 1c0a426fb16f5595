---------------------------- MODULE ThreadsDemo ----------------------------
(***************************************************************************)
(* The whole of examples/threads_demo.c: main runs the lifecycle demos of  *)
(* ThreadLifecycle and, in the place of their step OtherDemos, demo_mutex  *)
(* of MutexDemo and demo_condition_variable of CondDemo.  Threads that     *)
(* demo_simple_threads left behind after a failed pthread_create run on    *)
(* beside those two.                                                       *)
(*                                                                         *)
(* Both demos use the one global mutex.  They also share the global int    *)
(* counter, which each of them sets to 0 before it creates a thread: from  *)
(* the second reset on it is called item here.                             *)
(***************************************************************************)
EXTENDS ThreadLifecycle

VARIABLES
  mutex,
  counter, pc, i, reg, mutexMain, created,              \* of MutexDemo
  item, ready, prod, cons, ip, ic, consumed, condMain   \* of CondDemo

M == INSTANCE MutexDemo WITH main <- mutexMain
C == INSTANCE CondDemo WITH main <- condMain, counter <- item

mutexVars == <<counter, pc, i, reg, mutexMain, created>>
condVars == <<item, ready, prod, cons, ip, ic, consumed, condMain>>
demoVars == <<vars, mutex, mutexVars, condVars>>

\* item plays no part before the reset that gives it its value.
DemoInit == Init /\ M!Init /\ C!Init /\ item = 0

-----------------------------------------------------------------------------

\* main is in demo_mutex and then in demo_condition_variable; joining an unset
\* pthread_t there is the end of main, too.
After(demo, next) == CASE demo \in {"crashed", "hung"} -> demo
                       [] demo = "returned" -> next
                       [] OTHER -> main

InMutexDemo ==
  /\ main = "otherDemos" /\ M!DemoMutex
  /\ main' = After(mutexMain', "otherDemos")
  /\ UNCHANGED <<k, pt, printed, tlsVars, condVars>>

InCondDemo ==
  /\ main = "otherDemos" /\ mutexMain = "returned" /\ C!DemoConditionVariable
  /\ main' = After(condMain', "attrCreate")
  /\ UNCHANGED <<k, pt, printed, tlsVars, mutexVars>>

DemoMain ==
  \/ main # "otherDemos" /\ Main /\ UNCHANGED <<mutex, mutexVars, condVars>>
  \/ InMutexDemo
  \/ InCondDemo

MutexThread(t) == ProcessAlive /\ M!MutexThread(t) /\ UNCHANGED <<vars, condVars>>
Producer == ProcessAlive /\ C!Producer /\ UNCHANGED <<vars, mutexVars>>
Consumer == ProcessAlive /\ C!Consumer /\ UNCHANGED <<vars, mutexVars>>
Spurious == ProcessAlive /\ C!SpuriousWakeup /\ UNCHANGED <<vars, mutexVars>>

LifecycleThread(t) ==
  /\ \/ t \in SimpleThreads /\ SimpleThread(t)
     \/ \E j \in Ids : t = Tls(j) /\ TlsThread(j)
  /\ UNCHANGED <<mutex, mutexVars, condVars>>

\* exit() or a crash ends the process; a main that hangs waits for nobody.
Ended ==
  /\ \/ ~ProcessAlive
     \/ /\ main = "hung"
        /\ \A t \in Threads : pt[t] \in {"none", "returned", "joined"}
        /\ \A t \in M!Threads : pc[t] \in {"new", "exited"}
        /\ C!Ended(prod) /\ C!Ended(cons)
  /\ UNCHANGED demoVars

DemoNext ==
  \/ DemoMain
  \/ \E t \in M!Threads : MutexThread(t)
  \/ Producer \/ Consumer \/ Spurious
  \/ \E t \in Threads : LifecycleThread(t)
  \/ Ended

\* The scheduler eventually runs every runnable thread and sleep() returns.
\* Spurious wakeups are exceptional: they happen finitely often.
DemoFairness ==
  /\ WF_demoVars(DemoMain) /\ WF_demoVars(Producer) /\ WF_demoVars(Consumer)
  /\ \A t \in M!Threads : WF_demoVars(MutexThread(t))
  /\ \A t \in Threads : WF_demoVars(LifecycleThread(t))
  /\ <>[][~Spurious]_demoVars

DemoSpec == DemoInit /\ [][DemoNext]_demoVars /\ DemoFairness

-----------------------------------------------------------------------------
(* Properties: those of the three modules, of the program as a whole       *)

\* When main prints the total ("expected: 20000", threads_demo.c:108), no
\* increment of a created thread is missing or still to come.
FinalCounter == M!FinalCounter

\* demo_mutex implements atomic increments and one report after the last.
ImplementsAtomicCounter == M!ImplementsAtomicCounter

\* The consumer prints items in the order they were produced, none twice, and
\* one that returns has printed every item exactly once.
Transcript == C!InOrder /\ C!AllItemsConsumed

\* The consumer sleeps on cond while an item is ready only until the producer,
\* still inside its critical section, signals.  A consumer left waiting by a
\* producer that has ended (main is then in the join of the consumer for good)
\* misses an item that was overwritten, not a wakeup.
NoLostWakeup == C!NoLostWakeup /\ C!StuckOnlyByLoss

\* Every run of main ends: it exits, or crashes or hangs in a join of a thread
\* that was never created.  Only an item the producer overwrote, or a producer
\* that was never created, can keep it in the join of the consumer; no other
\* lock, wakeup or join does.
MainEnds ==
  <>(\/ main \in {"exited", "crashed", "hung"}
     \/ C!ItemLost
     \/ condMain = "joinCons" /\ prod = "new")

=============================================================================
