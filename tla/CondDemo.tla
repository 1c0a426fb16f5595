------------------------------ MODULE CondDemo ------------------------------
(***************************************************************************)
(* demo_condition_variable() of examples/threads_demo.c: a producer hands  *)
(* Items items to a consumer through the one-place buffer `counter' and    *)
(* its flag `ready', guarded by `mutex' and announced through `cond'.      *)
(*                                                                         *)
(* The producer does not wait for the buffer to be empty: only its sleep() *)
(* between items gives the consumer time, and that sleep may be shorter    *)
(* than the consumer's turn.                                               *)
(***************************************************************************)
EXTENDS ThreadsParameters, Sequences

Free == "free"

VARIABLES
  counter,              \* the item handed over
  ready,                \* the predicate of the condition variable
  mutex,                \* "prod", "cons" or Free
  prod, cons,           \* program points of the two threads
  ip, ic,               \* their loop indices
  consumed,             \* the items the consumer printed, in order
  main                  \* program point of demo_condition_variable

vars == <<counter, ready, mutex, prod, cons, ip, ic, consumed, main>>

\* counter holds whatever demo_mutex left in it.
Init ==
  /\ counter \in 0..Items
  /\ ready = FALSE
  /\ mutex = Free
  /\ prod = "new" /\ cons = "new"
  /\ ip = 0 /\ ic = 0
  /\ consumed = <<>>
  /\ main = "reset"

-----------------------------------------------------------------------------
(* producer                                                                *)

ProducerLock ==
  /\ prod = "lock" /\ mutex = Free
  /\ mutex' = "prod"
  /\ prod' = "publish"
  /\ UNCHANGED <<counter, ready, cons, ip, ic, consumed, main>>

Publish ==
  /\ prod = "publish"
  /\ counter' = ip
  /\ ready' = TRUE
  /\ prod' = "signal"
  /\ UNCHANGED <<mutex, cons, ip, ic, consumed, main>>

\* Mutant of Signal: the waiter is not woken.
SignalLost ==
  /\ prod = "signal"
  /\ prod' = "unlock"
  /\ UNCHANGED <<counter, ready, mutex, cons, ip, ic, consumed, main>>

\* pthread_cond_signal moves a waiter, if there is one, to the mutex; it is
\* forgotten if there is none.
Signal ==
  /\ prod = "signal"
  /\ cons' = IF cons = "waiting" THEN "relock" ELSE cons
  /\ prod' = "unlock"
  /\ UNCHANGED <<counter, ready, mutex, ip, ic, consumed, main>>

ProducerUnlock ==
  /\ prod = "unlock"
  /\ mutex' = Free
  /\ prod' = "sleep"
  /\ UNCHANGED <<counter, ready, cons, ip, ic, consumed, main>>

\* sleep(1) returns.  It synchronises with nothing: the consumer may or may not
\* have taken its turn.
ProducerWake ==
  /\ prod = "sleep"
  /\ ip' = ip + 1
  /\ prod' = IF ip + 1 < Items THEN "lock" ELSE "exited"
  /\ UNCHANGED <<counter, ready, mutex, cons, ic, consumed, main>>

\* A crash of main ends the process and both threads with it.
Producer ==
  /\ main # "crashed"
  /\ ProducerLock \/ Publish \/ Signal \/ ProducerUnlock \/ ProducerWake

-----------------------------------------------------------------------------
(* consumer                                                                *)

\* Mutant of ConsumerLock: `if' instead of `while' around pthread_cond_wait.
ConsumerLockIf ==
  /\ cons \in {"lock", "relock"} /\ mutex = Free
  /\ mutex' = "cons"
  /\ cons' = IF cons = "lock" THEN "check" ELSE "consume"
  /\ UNCHANGED <<counter, ready, prod, ip, ic, consumed, main>>

\* pthread_mutex_lock, or the relock on the way out of pthread_cond_wait.
ConsumerLock ==
  /\ cons \in {"lock", "relock"} /\ mutex = Free
  /\ mutex' = "cons"
  /\ cons' = "check"
  /\ UNCHANGED <<counter, ready, prod, ip, ic, consumed, main>>

\* while (!ready) pthread_cond_wait(): unlocking and waiting are one step.
CheckReady ==
  /\ cons = "check"
  /\ \/ ready /\ cons' = "consume" /\ UNCHANGED mutex
     \/ ~ready /\ cons' = "waiting" /\ mutex' = Free
  /\ UNCHANGED <<counter, ready, prod, ip, ic, consumed, main>>

\* pthread_cond_wait may return although nobody signalled.
SpuriousWakeup ==
  /\ cons = "waiting" /\ main # "crashed"
  /\ cons' = "relock"
  /\ UNCHANGED <<counter, ready, mutex, prod, ip, ic, consumed, main>>

\* Mutant of Consume: ready is not reset.
ConsumeKeepsReady ==
  /\ cons = "consume"
  /\ consumed' = Append(consumed, counter)
  /\ cons' = "unlock"
  /\ UNCHANGED <<counter, ready, mutex, prod, ip, ic, main>>

Consume ==
  /\ cons = "consume"
  /\ consumed' = Append(consumed, counter)
  /\ ready' = FALSE
  /\ cons' = "unlock"
  /\ UNCHANGED <<counter, mutex, prod, ip, ic, main>>

ConsumerUnlock ==
  /\ cons = "unlock"
  /\ mutex' = Free
  /\ ic' = ic + 1
  /\ cons' = IF ic + 1 < Items THEN "lock" ELSE "exited"
  /\ UNCHANGED <<counter, ready, prod, ip, consumed, main>>

Consumer ==
  /\ main # "crashed"
  /\ ConsumerLock \/ CheckReady \/ Consume \/ ConsumerUnlock

-----------------------------------------------------------------------------
(* demo_condition_variable                                                 *)

Reset ==
  /\ main = "reset"
  /\ counter' = 0 /\ ready' = FALSE
  /\ main' = "createCons"
  /\ UNCHANGED <<mutex, prod, cons, ip, ic, consumed>>

\* The two pthread_create calls are unchecked: a failure leaves no thread.
CreateConsumer ==
  /\ main = "createCons"
  /\ main' = "createProd"
  /\ cons' \in {"lock", "new"}
  /\ UNCHANGED <<counter, ready, mutex, prod, ip, ic, consumed>>

CreateProducer ==
  /\ main = "createProd"
  /\ main' = "joinProd"
  /\ prod' \in {"lock", "new"}
  /\ UNCHANGED <<counter, ready, mutex, cons, ip, ic, consumed>>

\* Joining a pthread_t that was never set may return, crash or hang.
Join(thread, at, next) ==
  /\ main = at
  /\ \/ thread = "exited" /\ main' = next
     \/ thread = "new" /\ main' \in {next, "crashed", "hung"}
  /\ UNCHANGED <<counter, ready, mutex, prod, cons, ip, ic, consumed>>

DemoConditionVariable ==
  \/ Reset \/ CreateConsumer \/ CreateProducer
  \/ Join(prod, "joinProd", "joinCons")
  \/ Join(cons, "joinCons", "returned")

Ended(thread) == thread \in {"new", "exited"}

Terminated ==
  /\ main = "crashed" \/ (main \in {"returned", "hung"} /\ Ended(prod) /\ Ended(cons))
  /\ UNCHANGED vars

Next ==
  DemoConditionVariable \/ Producer \/ Consumer \/ SpuriousWakeup \/ Terminated

\* Every runnable thread runs eventually.  Spurious wakeups are exceptional:
\* they happen finitely often.  The mutex then needs no fairness of its own,
\* since both loops are finite.
Fairness ==
  /\ WF_vars(DemoConditionVariable) /\ WF_vars(Producer) /\ WF_vars(Consumer)
  /\ <>[][~SpuriousWakeup]_vars

Spec == Init /\ [][Next]_vars
FairSpec == Spec /\ Fairness

-----------------------------------------------------------------------------
(* Properties                                                              *)

TypeOK ==
  /\ counter \in 0..Items
  /\ ready \in BOOLEAN
  /\ mutex \in {"prod", "cons", Free}
  /\ prod \in {"new", "lock", "publish", "signal", "unlock", "sleep", "exited"}
  /\ cons \in {"new", "lock", "relock", "check", "consume", "waiting", "unlock",
               "exited"}
  /\ ip \in 0..Items /\ ic \in 0..Items
  /\ consumed \in Seq(0..(Items - 1))
  /\ main \in {"reset", "createCons", "createProd", "joinProd", "joinCons",
               "returned", "crashed", "hung"}

\* Whatever the interleaving, the consumer prints items in the order they
\* were produced, none twice and none that was not produced yet; an item the
\* producer overwrote is skipped, never replayed.
InOrder ==
  /\ \A a, b \in DOMAIN consumed : a < b => consumed[a] < consumed[b]
  /\ \A a \in DOMAIN consumed : consumed[a] <= ip

\* No lost wakeup: the consumer sleeps on cond while an item is ready only
\* until the producer, still inside its critical section, signals.
NoLostWakeup == cons = "waiting" /\ ready => prod = "signal"

\* If the consumer returns at all, it has printed every item exactly once and
\* in order, however the two threads interleaved: losing an item shows as a
\* hang in pthread_join, never as a wrong transcript.
AllItemsConsumed == cons = "exited" => consumed = [k \in 1..Items |-> k - 1]

\* Items produced so far: 0..ip once the current one is in the buffer.
Published == IF prod \in {"signal", "unlock", "sleep"} THEN ip + 1 ELSE ip

\* An item the producer overwrote before the consumer took it.
ItemLost == Published > Len(consumed) + (IF ready THEN 1 ELSE 0)

\* A consumer that waits on cond after the producer has ended, which then nobody
\* will signal, misses an item that was overwritten: with no item lost it never
\* comes to wait again after the last signal, wherever that fell.
StuckOnlyByLoss == cons = "waiting" /\ prod = "exited" => ItemLost

\* Both joins return once both threads exist, so that main gets to its
\* "All Demos Complete" (threads_demo.c:206).
Termination ==
  (main = "joinProd" /\ prod # "new" /\ cons # "new") ~> (main = "returned")

Taken == IF cons = "unlock" THEN ic + 1 ELSE ic

\* The inductive invariant behind the three safety properties.  Gap is what
\* makes AllItemsConsumed follow: the consumer skips items but never repeats
\* one, so Items of them below Items can only be 0, 1, ..., Items - 1.
Exclusion ==
  /\ prod \in {"publish", "signal", "unlock"} <=> mutex = "prod"
  /\ cons \in {"check", "consume", "unlock"} <=> mutex = "cons"

Handover ==
  /\ cons = "consume" => ready
  /\ ready => counter = Published - 1
  /\ \A a \in DOMAIN consumed : consumed[a] < IF ready THEN counter ELSE Published

Gap == \A a, b \in DOMAIN consumed : a <= b => consumed[b] - consumed[a] >= b - a

Progress ==
  /\ Len(consumed) = Taken
  /\ prod \in {"new", "lock", "publish", "signal", "unlock", "sleep"} => ip < Items
  /\ cons \in {"new", "lock", "relock", "check", "consume", "waiting", "unlock"}
       => ic < Items
  /\ prod = "exited" => ip = Items
  /\ cons = "exited" => ic = Items
  /\ prod = "new" => ip = 0
  /\ cons = "new" => ic = 0
  /\ main \in {"reset", "createCons"} => cons = "new"
  /\ main \in {"reset", "createCons", "createProd"} => prod = "new"
  /\ main = "reset" => ~ready

IInv == TypeOK /\ Exclusion /\ Handover /\ Gap /\ NoLostWakeup /\ Progress

=============================================================================
