------------------------- MODULE ThreadsDemoProofs -------------------------
(***************************************************************************)
(* demo_mutex and demo_condition_variable take turns at one global mutex.  *)
(* Each is first proved correct on its own, with a view of the mutex in    *)
(* which it is free while a thread of the other demo has it.  With that    *)
(* mapping every step of the program is a step of one demo and leaves the  *)
(* other where it is, so that the theorems hold of the whole program.  An  *)
(* unlock by the one is no step of the other because a thread in a         *)
(* critical section owns the mutex, so the two inductive invariants are    *)
(* carried together.                                                       *)
(*                                                                         *)
(* The other demos of main, for any number of threads, are in the last     *)
(* part: results, thread-specific values and their destructors.            *)
(***************************************************************************)
EXTENDS ThreadsDemo, Sequences, TLAPS

\* The mutex as a demo whose threads are owners sees it.
SeenBy(owners) == IF mutex \in owners THEN mutex ELSE "free"
MutexSeen == SeenBy({"t1", "t2"})
CondSeen == SeenBy({"prod", "cons"})

MP == INSTANCE MutexDemo WITH main <- mutexMain, mutex <- MutexSeen
CP == INSTANCE CondDemo WITH main <- condMain, counter <- item, mutex <- CondSeen

BothInv == MP!IInv /\ CP!IInv

-----------------------------------------------------------------------------
(* demo_mutex on its own                                                   *)

\* IInv holds when demo_mutex is entered.
LEMMA MutexInit == MP!Init => MP!IInv
  BY IterationsAssumption DEF MP!Init, MP!IInv, MP!TypeOK, MP!InCS, MP!Incs,
      MP!Threads, MP!Free

\* Every step of mutex_thread preserves IInv.
LEMMA MutexThreadInv ==
  ASSUME MP!IInv, NEW t \in MP!Threads, MP!MutexThread(t)
  PROVE  MP!IInv'
  <1> USE IterationsAssumption DEF MP!IInv, MP!TypeOK, MP!InCS, MP!Incs,
      MP!Threads, MP!Free
  <1>1. CASE MP!Lock(t)   BY <1>1 DEF MP!Lock
  <1>2. CASE MP!Load(t)   BY <1>2 DEF MP!Load
  <1>3. CASE MP!Store(t)  BY <1>3 DEF MP!Store
  <1>4. CASE MP!Unlock(t) BY <1>4 DEF MP!Unlock
  <1>5. CASE MP!Return(t) BY <1>5 DEF MP!Return
  <1> QED BY <1>1, <1>2, <1>3, <1>4, <1>5 DEF MP!MutexThread

\* Every step of demo_mutex preserves IInv.
LEMMA MutexMainInv ==
  ASSUME MP!IInv, MP!DemoMutex
  PROVE  MP!IInv'
  <1> USE IterationsAssumption DEF MP!IInv, MP!TypeOK, MP!InCS, MP!Incs,
      MP!Threads, MP!Free
  <1>1. CASE MP!Reset                               BY <1>1 DEF MP!Reset
  <1>2. CASE MP!Create("t1", "create1", "create2")  BY <1>2 DEF MP!Create
  <1>3. CASE MP!Create("t2", "create2", "join1")    BY <1>3, ZenonT(60) DEF MP!Create
  <1>4. CASE MP!Join("t1", "join1", "join2")        BY <1>4 DEF MP!Join
  <1>5. CASE MP!Join("t2", "join2", "print")        BY <1>5 DEF MP!Join
  <1>6. CASE MP!PrintTotal                          BY <1>6 DEF MP!PrintTotal
  <1> QED BY <1>1, <1>2, <1>3, <1>4, <1>5, <1>6 DEF MP!DemoMutex

\* Every step of the demo, of main or of its threads, preserves IInv.
LEMMA MutexStep == MP!IInv /\ [MP!Next]_(MP!vars) => MP!IInv'
  <1> SUFFICES ASSUME MP!IInv, [MP!Next]_(MP!vars) PROVE MP!IInv'
    OBVIOUS
  <1>1. CASE MP!DemoMutex BY <1>1, MutexMainInv
  <1>2. CASE \E t \in MP!Threads : MP!MutexThread(t) BY <1>2, MutexThreadInv
  <1>3. CASE UNCHANGED MP!vars
    BY <1>3 DEF MP!vars, MP!IInv, MP!TypeOK, MP!InCS, MP!Incs
  <1> QED BY <1>1, <1>2, <1>3 DEF MP!Next, MP!Terminated

\* The strengthening of FinalCounter holds throughout.
THEOREM MutexInvariance == MP!Spec => []MP!IInv
  BY MutexInit, MutexStep, PTL DEF MP!Spec

\* The program points, the owner of the mutex, the loop indices (at most
\* Iterations) and the counter keep their ranges.
THEOREM MutexTypes == MP!Spec => []MP!TypeOK
  <1>1. MP!IInv => MP!TypeOK BY DEF MP!IInv
  <1> QED BY <1>1, MutexInvariance, PTL

\* The total main prints is the sum of the quotas of the threads created, for
\* every loop bound: no increment is lost and none is still to come.
THEOREM MutexFinalCounter == MP!Spec => []MP!FinalCounter
  <1>1. MP!IInv => MP!FinalCounter
    BY IterationsAssumption
    DEF MP!IInv, MP!TypeOK, MP!FinalCounter, MP!Quota, MP!Incs, MP!Threads,
        MP!InCS
  <1> QED BY <1>1, MutexInvariance, PTL

-----------------------------------------------------------------------------
(* Refinement                                                              *)

\* A step of mutex_thread is an atomic increment (its store) or invisible.
LEMMA MutexThreadRefines ==
  ASSUME MP!IInv, NEW t \in MP!Threads, MP!MutexThread(t)
  PROVE  MP!Abstract!Inc(t) \/ UNCHANGED MP!Abstract!vars
  <1> USE IterationsAssumption DEF MP!IInv, MP!TypeOK, MP!InCS, MP!Threads,
      MP!Abstract!vars
  <1>1. CASE MP!Lock(t)   BY <1>1 DEF MP!Lock, MP!Incs
  <1>2. CASE MP!Load(t)   BY <1>2 DEF MP!Load, MP!Incs
  <1>3. CASE MP!Store(t)
    <2>1. MP!Incs' = [MP!Incs EXCEPT ![t] = @ + 1] /\ MP!Incs[t] = i[t]
      BY <1>3 DEF MP!Store, MP!Incs
    <2>2. mutexMain # "returned" /\ mutexMain' = mutexMain
      BY <1>3 DEF MP!Store
    <2>3. counter' = counter + 1 /\ i[t] < Iterations
      BY <1>3 DEF MP!Store
    <2> QED BY <2>1, <2>2, <2>3 DEF MP!Abstract!Inc
  <1>4. CASE MP!Unlock(t) BY <1>4 DEF MP!Unlock, MP!Incs
  <1>5. CASE MP!Return(t) BY <1>5 DEF MP!Return, MP!Incs
  <1> QED BY <1>1, <1>2, <1>3, <1>4, <1>5 DEF MP!MutexThread

\* A step of demo_mutex reads the final total (its print) or is invisible.
LEMMA MutexMainRefines ==
  ASSUME MP!IInv, MP!DemoMutex
  PROVE  MP!Abstract!Report \/ UNCHANGED MP!Abstract!vars
  <1> USE IterationsAssumption DEF MP!IInv, MP!TypeOK, MP!InCS, MP!Threads,
      MP!Abstract!vars
  <1>1. CASE MP!Reset                               BY <1>1 DEF MP!Reset, MP!Incs
  <1>2. CASE MP!Create("t1", "create1", "create2")  BY <1>2 DEF MP!Create, MP!Incs
  <1>3. CASE MP!Create("t2", "create2", "join1")    BY <1>3 DEF MP!Create, MP!Incs
  <1>4. CASE MP!Join("t1", "join1", "join2")        BY <1>4 DEF MP!Join, MP!Incs
  <1>5. CASE MP!Join("t2", "join2", "print")        BY <1>5 DEF MP!Join, MP!Incs
  <1>6. CASE MP!PrintTotal
    <2>1. \A t \in MP!Threads : MP!Incs[t] \in {0, Iterations}
      BY <1>6 DEF MP!PrintTotal, MP!Incs
    <2> QED BY <1>6, <2>1 DEF MP!PrintTotal, MP!Incs, MP!Abstract!Report,
        MP!Abstract!Threads
  <1> QED BY <1>1, <1>2, <1>3, <1>4, <1>5, <1>6 DEF MP!DemoMutex

\* The mutex-protected load/store pairs implement atomic increments, and the
\* joins make the printed total final.
THEOREM MutexRefinement == MP!Spec => MP!ImplementsAtomicCounter
  <1>1. MP!Init => MP!Abstract!Init
    BY DEF MP!Init, MP!Abstract!Init, MP!Incs, MP!Threads, MP!Abstract!Threads
  <1>2. MP!IInv /\ [MP!Next]_(MP!vars) => [MP!Abstract!Next]_(MP!Abstract!vars)
    <2> SUFFICES ASSUME MP!IInv, [MP!Next]_(MP!vars)
                 PROVE  [MP!Abstract!Next]_(MP!Abstract!vars)
      OBVIOUS
    <2>1. CASE MP!DemoMutex BY <2>1, MutexMainRefines DEF MP!Abstract!Next
    <2>2. CASE \E t \in MP!Threads : MP!MutexThread(t)
      BY <2>2, MutexThreadRefines DEF MP!Abstract!Next, MP!Threads,
          MP!Abstract!Threads
    <2>3. CASE UNCHANGED MP!vars BY <2>3 DEF MP!vars, MP!Abstract!vars, MP!Incs
    <2> QED BY <2>1, <2>2, <2>3 DEF MP!Next, MP!Terminated
  <1> QED
    BY <1>1, <1>2, MutexInvariance, PTL DEF MP!Spec, MP!ImplementsAtomicCounter,
        MP!Abstract!Spec

-----------------------------------------------------------------------------
(* demo_condition_variable on its own                                      *)

USE DEF CP!Free

\* What appending one item to the transcript does, as the provers need it.
LEMMA AppendFacts ==
  ASSUME NEW s \in Seq(Int), NEW x \in Int
  PROVE  /\ Append(s, x) \in Seq(Int)
         /\ Len(Append(s, x)) = Len(s) + 1
         /\ DOMAIN Append(s, x) = 1..(Len(s) + 1)
         /\ DOMAIN s = 1..Len(s) /\ Len(s) \in Nat
         /\ \A a \in 1..Len(s) : Append(s, x)[a] = s[a]
         /\ Append(s, x)[Len(s) + 1] = x
  OBVIOUS

\* IInv holds when demo_condition_variable is entered.
LEMMA CondInit == CP!Init => CP!IInv
  <1> SUFFICES ASSUME CP!Init PROVE CP!IInv
    OBVIOUS
  <1>1. DOMAIN consumed = {} /\ Len(consumed) = 0
    BY DEF CP!Init
  <1>2. CP!TypeOK
    <2>1. <<>> \in Seq(0..(Items - 1))
      OBVIOUS
    <2>2. consumed \in Seq(0..(Items - 1))
      BY <2>1, Zenon DEF CP!Init
    <2>3. ip \in 0..Items /\ ic \in 0..Items /\ item \in 0..Items
      BY ItemsAssumption DEF CP!Init
    <2>4. prod = "new" /\ cons = "new" /\ condMain = "reset"
          /\ CondSeen = "free" /\ ready = FALSE
      BY DEF CP!Init
    <2> QED BY <2>2, <2>3, <2>4 DEF CP!TypeOK
  <1>3. CP!Handover /\ CP!Gap
    BY <1>1 DEF CP!Init, CP!Handover, CP!Gap
  <1>4. CP!Exclusion /\ CP!NoLostWakeup /\ CP!Progress
    BY <1>1, ItemsAssumption DEF CP!Init, CP!Exclusion, CP!NoLostWakeup,
        CP!Progress, CP!Taken
  <1> QED BY <1>2, <1>3, <1>4 DEF CP!IInv

\* Taking the item out of the buffer keeps the transcript gap-monotone.
LEMMA CondConsumeInv ==
  ASSUME CP!IInv, CP!Consume
  PROVE  CP!IInv'
  <1> USE ItemsAssumption DEF CP!Consume
  <1>1. /\ ready /\ item = CP!Published - 1 /\ CondSeen = "cons"
        /\ \A a \in DOMAIN consumed : consumed[a] < item
    BY DEF CP!IInv, CP!Handover, CP!Exclusion
  <1>2. item \in 0..(Items - 1) /\ CP!Published' = CP!Published
    BY <1>1 DEF CP!IInv, CP!TypeOK, CP!Progress, CP!Published, CP!Exclusion
  <1>3. CP!TypeOK'
    <2>1. consumed' \in Seq(0..(Items - 1))
      BY <1>2 DEF CP!IInv, CP!TypeOK
    <2> QED BY <2>1 DEF CP!IInv, CP!TypeOK
  <1>4. CP!Exclusion' /\ CP!NoLostWakeup'
    BY <1>1 DEF CP!IInv, CP!Exclusion, CP!NoLostWakeup
  <1>5. /\ consumed \in Seq(Int)
        /\ Len(consumed') = Len(consumed) + 1 /\ Len(consumed) \in Nat
        /\ DOMAIN consumed' = 1..(Len(consumed) + 1)
        /\ DOMAIN consumed = 1..Len(consumed)
        /\ \A a \in 1..Len(consumed) : consumed'[a] = consumed[a]
        /\ consumed'[Len(consumed) + 1] = item
        /\ \A a \in 1..Len(consumed) : consumed[a] \in Int
    BY <1>2, AppendFacts DEF CP!IInv, CP!TypeOK
  <1>6. CP!Handover'
    BY <1>1, <1>2, <1>5 DEF CP!IInv, CP!TypeOK, CP!Handover, CP!Published
  <1>7. CP!Gap'
    <2> SUFFICES ASSUME NEW a \in DOMAIN consumed', NEW b \in DOMAIN consumed',
                        a <= b
                 PROVE  consumed'[b] - consumed'[a] >= b - a
      BY DEF CP!Gap
    <2>1. CASE b <= Len(consumed)
      BY <2>1, <1>5 DEF CP!IInv, CP!Gap
    <2>2. CASE b = Len(consumed) + 1 /\ a = b
      BY <2>2, <1>2, <1>5
    <2>3. CASE b = Len(consumed) + 1 /\ a < b
      <3>1. consumed[Len(consumed)] - consumed[a] >= Len(consumed) - a
        <4>1. a \in 1..Len(consumed) /\ Len(consumed) \in 1..Len(consumed)
          BY <2>3, <1>5
        <4>2. a <= Len(consumed) /\ {a, Len(consumed)} \subseteq DOMAIN consumed
          BY <4>1, <1>5
        <4> QED BY <4>2 DEF CP!IInv, CP!Gap
      <3>2. consumed[Len(consumed)] < item
        BY <2>3, <1>1, <1>5
      <3> QED BY <3>1, <3>2, <2>3, <1>2, <1>5
    <2> QED BY <2>1, <2>2, <2>3, <1>5
  <1>8. CP!Progress'
    BY <1>5 DEF CP!IInv, CP!TypeOK, CP!Progress, CP!Taken
  <1> QED BY <1>3, <1>4, <1>6, <1>7, <1>8 DEF CP!IInv

\* Publishing overwrites an item the consumer did not take, never replays one.
LEMMA CondPublishInv ==
  ASSUME CP!IInv, CP!Publish
  PROVE  CP!IInv'
  <1> USE ItemsAssumption DEF CP!Publish
  <1>1. \A a \in DOMAIN consumed : consumed[a] \in Int
    BY DEF CP!IInv, CP!TypeOK
  <1>2. CP!Published = ip /\ CP!Published' = ip + 1 /\ ip \in 0..(Items - 1)
    BY DEF CP!IInv, CP!TypeOK, CP!Published, CP!Progress
  <1>3. CP!Handover'
    BY <1>1, <1>2 DEF CP!IInv, CP!TypeOK, CP!Handover
  <1>4. CP!TypeOK' /\ CP!Exclusion' /\ CP!NoLostWakeup' /\ CP!Progress' /\ CP!Gap'
    BY <1>2 DEF CP!IInv, CP!TypeOK, CP!Exclusion, CP!NoLostWakeup, CP!Progress,
        CP!Gap, CP!Taken
  <1> QED BY <1>3, <1>4 DEF CP!IInv

\* Every step of producer preserves IInv.
LEMMA CondProducerInv ==
  ASSUME CP!IInv, CP!Producer
  PROVE  CP!IInv'
  <1> USE ItemsAssumption
      DEF CP!IInv, CP!TypeOK, CP!Exclusion, CP!Handover, CP!Gap, CP!NoLostWakeup,
          CP!Progress,
          CP!Published, CP!Taken
  <1>1. CASE CP!ProducerLock   BY <1>1 DEF CP!ProducerLock
  <1>2. CASE CP!Publish        BY <1>2, CondPublishInv
  <1>3. CASE CP!Signal         BY <1>3 DEF CP!Signal
  <1>4. CASE CP!ProducerUnlock BY <1>4 DEF CP!ProducerUnlock
  <1>5. CASE CP!ProducerWake   BY <1>5 DEF CP!ProducerWake
  <1> QED BY <1>1, <1>2, <1>3, <1>4, <1>5 DEF CP!Producer

\* Every step of consumer, spurious wakeups included, preserves IInv.
LEMMA CondConsumerInv ==
  ASSUME CP!IInv, CP!Consumer \/ CP!SpuriousWakeup
  PROVE  CP!IInv'
  <1> USE ItemsAssumption
      DEF CP!IInv, CP!TypeOK, CP!Exclusion, CP!Handover, CP!Gap, CP!NoLostWakeup,
          CP!Progress,
          CP!Published, CP!Taken
  <1>1. CASE CP!ConsumerLock   BY <1>1 DEF CP!ConsumerLock
  <1>2. CASE CP!CheckReady     BY <1>2 DEF CP!CheckReady
  <1>3. CASE CP!Consume        BY <1>3, CondConsumeInv
  <1>4. CASE CP!ConsumerUnlock BY <1>4 DEF CP!ConsumerUnlock
  <1>5. CASE CP!SpuriousWakeup BY <1>5 DEF CP!SpuriousWakeup
  <1> QED BY <1>1, <1>2, <1>3, <1>4, <1>5 DEF CP!Consumer

\* Every step of demo_condition_variable preserves IInv.
LEMMA CondMainInv ==
  ASSUME CP!IInv, CP!DemoConditionVariable
  PROVE  CP!IInv'
  <1> USE ItemsAssumption
      DEF CP!IInv, CP!TypeOK, CP!Exclusion, CP!Handover, CP!Gap, CP!NoLostWakeup,
          CP!Progress,
          CP!Published, CP!Taken
  <1>1. CASE CP!Reset                                BY <1>1 DEF CP!Reset
  <1>2. CASE CP!CreateConsumer                       BY <1>2 DEF CP!CreateConsumer
  <1>3. CASE CP!CreateProducer                       BY <1>3 DEF CP!CreateProducer
  <1>4. CASE CP!Join(prod, "joinProd", "joinCons")   BY <1>4 DEF CP!Join
  <1>5. CASE CP!Join(cons, "joinCons", "returned")   BY <1>5 DEF CP!Join
  <1> QED BY <1>1, <1>2, <1>3, <1>4, <1>5 DEF CP!DemoConditionVariable

\* Every step of the demo, of main or of its threads, preserves IInv.
LEMMA CondStep == CP!IInv /\ [CP!Next]_(CP!vars) => CP!IInv'
  <1> SUFFICES ASSUME CP!IInv, [CP!Next]_(CP!vars) PROVE CP!IInv'
    OBVIOUS
  <1>1. CASE CP!DemoConditionVariable BY <1>1, CondMainInv
  <1>2. CASE CP!Producer BY <1>2, CondProducerInv
  <1>3. CASE CP!Consumer \/ CP!SpuriousWakeup BY <1>3, CondConsumerInv
  <1>4. CASE UNCHANGED CP!vars
    BY <1>4 DEF CP!vars, CP!IInv, CP!TypeOK, CP!Exclusion, CP!Handover, CP!Gap,
        CP!NoLostWakeup,
                CP!Progress, CP!Published, CP!Taken
  <1> QED BY <1>1, <1>2, <1>3, <1>4 DEF CP!Next, CP!Terminated

\* The strengthening of the safety properties holds throughout.
THEOREM CondInvariance == CP!Spec => []CP!IInv
  BY CondInit, CondStep, PTL DEF CP!Spec

\* No wakeup is lost: an item never lies ready with the consumer asleep once
\* the producer has left its critical section.
THEOREM CondNoLostWakeup == CP!Spec => []CP!NoLostWakeup
  <1>1. CP!IInv => CP!NoLostWakeup
    BY DEF CP!IInv
  <1> QED BY <1>1, CondInvariance, PTL

\* The transcript is strictly increasing and ahead of nothing produced.
THEOREM CondInOrder == CP!Spec => []CP!InOrder
  <1>1. CP!IInv => CP!InOrder
    <2> SUFFICES ASSUME CP!IInv PROVE CP!InOrder
      OBVIOUS
    <2>0. \A a \in DOMAIN consumed : consumed[a] \in Int /\ a \in Int
      <3>1. DOMAIN consumed = 1..Len(consumed) /\ Len(consumed) \in Nat
        BY DEF CP!IInv, CP!TypeOK
      <3>2. consumed \in Seq(Int)
        BY ItemsAssumption DEF CP!IInv, CP!TypeOK
      <3> QED BY <3>1, <3>2
    <2>1. \A a, b \in DOMAIN consumed : a < b => consumed[a] < consumed[b]
      BY <2>0 DEF CP!IInv, CP!Gap
    <2>2. \A a \in DOMAIN consumed : consumed[a] <= ip
      BY <2>0 DEF CP!IInv, CP!Handover, CP!Published, CP!TypeOK
    <2> QED BY <2>1, <2>2 DEF CP!InOrder
  <1> QED BY <1>1, CondInvariance, PTL

\* A consumer left waiting by a producer that has ended misses an item: nothing
\* is ready, so the items it has not taken were overwritten.
THEOREM CondStuckOnlyByLoss == CP!Spec => []CP!StuckOnlyByLoss
  <1>1. CP!IInv => CP!StuckOnlyByLoss
    <2> SUFFICES ASSUME CP!IInv, cons = "waiting", prod = "exited"
                 PROVE  CP!ItemLost
      BY DEF CP!StuckOnlyByLoss
    <2>1. ~ready
      BY DEF CP!IInv, CP!NoLostWakeup
    <2>2. CP!Published = Items
      BY DEF CP!IInv, CP!Progress, CP!Published
    <2>3. Len(consumed) = ic /\ ic < Items /\ ic \in Int
      BY ItemsAssumption DEF CP!IInv, CP!TypeOK, CP!Progress, CP!Taken
    <2> QED BY <2>1, <2>2, <2>3, ItemsAssumption DEF CP!ItemLost
  <1> QED BY <1>1, CondInvariance, PTL

\* A demo that returns has printed items 0, 1, ..., Items - 1, whatever the
\* interleaving and the length of the sleep: Items numbers below Items with
\* no repetition leave no room for a gap.
THEOREM CondAllItemsConsumed == CP!Spec => []CP!AllItemsConsumed
  <1>1. CP!IInv => CP!AllItemsConsumed
    <2> SUFFICES ASSUME CP!IInv, cons = "exited"
                 PROVE  consumed = [m \in 1..Items |-> m - 1]
      BY DEF CP!AllItemsConsumed
    <2>1. Len(consumed) = Items /\ consumed \in Seq(0..(Items - 1))
      BY DEF CP!IInv, CP!TypeOK, CP!Progress, CP!Taken
    <2>2. DOMAIN consumed = 1..Items
      BY <2>1, ItemsAssumption
    <2>3. \A m \in 1..Items : consumed[m] \in 0..(Items - 1)
      BY <2>1, <2>2
    <2>4. ASSUME NEW m \in 1..Items PROVE consumed[m] = m - 1
      <3>1. consumed[m] - consumed[1] >= m - 1
        BY <2>2, ItemsAssumption DEF CP!IInv, CP!Gap
      <3>2. consumed[Items] - consumed[m] >= Items - m
        BY <2>2, ItemsAssumption DEF CP!IInv, CP!Gap
      <3>3. /\ consumed[1] \in 0..(Items - 1) /\ consumed[Items] \in 0..(Items - 1)
            /\ consumed[m] \in 0..(Items - 1)
        BY <2>3, ItemsAssumption
      <3> QED BY <3>1, <3>2, <3>3, ItemsAssumption
    <2> QED BY <2>1, <2>2, <2>4
  <1> QED BY <1>1, CondInvariance, PTL

-----------------------------------------------------------------------------
(* Both demos in one program                                               *)

\* A step of a mutex_thread is one of MutexDemo and none of CondDemo.
LEMMA MutexThreadStep ==
  ASSUME BothInv, NEW t \in M!Threads, M!MutexThread(t), UNCHANGED condVars
  PROVE  MP!Next /\ UNCHANGED CP!vars
  <1> USE DEF SeenBy, MutexSeen, CondSeen, MP!Threads, M!Threads, MP!Free, M!Free,
          M!MutexThread
  <1>1. MP!InCS(t) => mutex = t
    BY DEF BothInv, MP!IInv
  <1>2. MP!MutexThread(t)
    <2>1. CASE M!Lock(t)   BY <2>1 DEF M!Lock, MP!Lock, MP!MutexThread
    <2>2. CASE M!Load(t)   BY <2>2 DEF M!Load, MP!Load, MP!MutexThread
    <2>3. CASE M!Store(t)  BY <2>3 DEF M!Store, MP!Store, MP!MutexThread
    <2>4. CASE M!Unlock(t) BY <2>4 DEF M!Unlock, MP!Unlock, MP!MutexThread
    <2>5. CASE M!Return(t) BY <2>5 DEF M!Return, MP!Return, MP!MutexThread
    <2> QED BY <2>1, <2>2, <2>3, <2>4, <2>5
  <1>3. SeenBy({"prod", "cons"})' = SeenBy({"prod", "cons"})
    BY <1>1 DEF MP!InCS, M!Lock, M!Load, M!Store, M!Unlock, M!Return
  <1> QED BY <1>2, <1>3 DEF MP!Next, CP!vars, condVars

\* So is a step of demo_mutex itself.
LEMMA DemoMutexStep ==
  ASSUME M!DemoMutex, UNCHANGED condVars
  PROVE  MP!Next /\ UNCHANGED CP!vars
  <1> USE DEF SeenBy, MutexSeen, CondSeen
  <1>1. UNCHANGED mutex
    BY DEF M!DemoMutex, M!Reset, M!Create, M!Join, M!PrintTotal
  <1>2. MP!DemoMutex
    BY DEF M!DemoMutex, M!Reset, M!Create, M!Join, M!PrintTotal,
           MP!DemoMutex, MP!Reset, MP!Create, MP!Join, MP!PrintTotal
  <1> QED BY <1>1, <1>2 DEF MP!Next, CP!vars, condVars

\* A step of producer or consumer is one of CondDemo and none of MutexDemo.
LEMMA CondThreadStep ==
  ASSUME BothInv, C!Producer \/ C!Consumer \/ C!SpuriousWakeup,
      UNCHANGED mutexVars
  PROVE  CP!Next /\ UNCHANGED MP!vars
  <1> USE DEF SeenBy, MutexSeen, CondSeen, CP!Free, C!Free
  <1>1. /\ prod \in {"publish", "signal", "unlock"} => mutex = "prod"
        /\ cons \in {"check", "consume", "unlock"} => mutex = "cons"
    BY DEF BothInv, CP!IInv, CP!Exclusion
  <1>2. CP!Next /\ SeenBy({"t1", "t2"})' = SeenBy({"t1", "t2"})
    <2>1. CASE C!Producer
      <3> USE <2>1 DEF C!Producer, CP!Producer, CP!Next
      <3>1. CASE C!ProducerLock   BY <3>1 DEF C!ProducerLock, CP!ProducerLock
      <3>2. CASE C!Publish        BY <3>2 DEF C!Publish, CP!Publish
      <3>3. CASE C!Signal         BY <3>3 DEF C!Signal, CP!Signal
      <3>4. CASE C!ProducerUnlock BY <3>4, <1>1 DEF C!ProducerUnlock,
          CP!ProducerUnlock
      <3>5. CASE C!ProducerWake   BY <3>5 DEF C!ProducerWake, CP!ProducerWake
      <3> QED BY <3>1, <3>2, <3>3, <3>4, <3>5
    <2>2. CASE C!Consumer
      <3> USE <2>2 DEF C!Consumer, CP!Consumer, CP!Next
      <3>1. CASE C!ConsumerLock   BY <3>1 DEF C!ConsumerLock, CP!ConsumerLock
      <3>2. CASE C!CheckReady     BY <3>2, <1>1 DEF C!CheckReady, CP!CheckReady
      <3>3. CASE C!Consume        BY <3>3 DEF C!Consume, CP!Consume
      <3>4. CASE C!ConsumerUnlock BY <3>4, <1>1 DEF C!ConsumerUnlock,
          CP!ConsumerUnlock
      <3> QED BY <3>1, <3>2, <3>3, <3>4
    <2>3. CASE C!SpuriousWakeup
      BY <2>3 DEF C!SpuriousWakeup, CP!SpuriousWakeup, CP!Next
    <2> QED BY <2>1, <2>2, <2>3
  <1> QED BY <1>2 DEF MP!vars, mutexVars

\* So is a step of demo_condition_variable itself.
LEMMA DemoConditionVariableStep ==
  ASSUME C!DemoConditionVariable, UNCHANGED mutexVars
  PROVE  CP!Next /\ UNCHANGED MP!vars
  <1> USE DEF SeenBy, MutexSeen, CondSeen
  <1>1. UNCHANGED mutex
    BY DEF C!DemoConditionVariable, C!Reset, C!CreateConsumer, C!CreateProducer,
        C!Join
  <1>2. CP!DemoConditionVariable
    BY DEF C!DemoConditionVariable, C!Reset, C!CreateConsumer, C!CreateProducer,
        C!Join,
           CP!DemoConditionVariable, CP!Reset, CP!CreateConsumer,
               CP!CreateProducer,
           CP!Join
  <1> QED BY <1>1, <1>2 DEF CP!Next, MP!vars, mutexVars

\* Every step of the program is a step of each demo, or leaves it alone.
LEMMA DemoStep ==
  ASSUME BothInv, [DemoNext]_demoVars
  PROVE  [MP!Next]_(MP!vars) /\ [CP!Next]_(CP!vars)
  <1>1. CASE InMutexDemo BY <1>1, DemoMutexStep DEF InMutexDemo
  <1>2. CASE InCondDemo BY <1>2, DemoConditionVariableStep DEF InCondDemo
  <1>3. CASE \E t \in M!Threads : MutexThread(t)
    BY <1>3, MutexThreadStep DEF MutexThread
  <1>4. CASE Producer \/ Consumer \/ Spurious
    BY <1>4, CondThreadStep DEF Producer, Consumer, Spurious
  <1>5. CASE UNCHANGED <<mutex, mutexVars, condVars>>
    BY <1>5 DEF MP!vars, CP!vars, mutexVars, condVars, SeenBy, MutexSeen, CondSeen
  <1> QED BY <1>1, <1>2, <1>3, <1>4, <1>5
          DEF DemoNext, DemoMain, LifecycleThread, Ended, demoVars

\* The program runs both demos as their modules specify them.
THEOREM ImplementsBothDemos == DemoSpec => MP!Spec /\ CP!Spec
  <1>1. DemoInit => MP!Init /\ CP!Init
    BY ItemsAssumption DEF DemoInit, M!Init, C!Init, MP!Init, CP!Init, SeenBy,
       MutexSeen, CondSeen, M!Threads, MP!Threads, M!Free, MP!Free, C!Free, CP!Free
  <1>2. DemoInit => BothInv
    BY <1>1, MutexInit, CondInit, IterationsAssumption, ItemsAssumption,
       NAssumption
    DEF BothInv
  <1>3. BothInv /\ [DemoNext]_demoVars => [MP!Next]_(MP!vars) /\ [CP!Next]_(CP!vars)
    BY DemoStep
  <1>4. BothInv /\ [DemoNext]_demoVars => BothInv'
    BY <1>3, MutexStep, CondStep, IterationsAssumption, ItemsAssumption,
       NAssumption
    DEF BothInv
  <1> QED BY <1>1, <1>2, <1>3, <1>4, PTL DEF DemoSpec, MP!Spec, CP!Spec

-----------------------------------------------------------------------------
(* What follows for threads_demo.c as a whole                              *)

\* The total the program prints is the sum of the increments of the threads
\* created, for every loop bound, although both demos lock the same mutex.
THEOREM FinalCounterCorrect == DemoSpec => []FinalCounter
  <1>1. MP!Spec => []MP!FinalCounter
    BY MutexFinalCounter, IterationsAssumption, ItemsAssumption, NAssumption
  <1>2. MP!FinalCounter => FinalCounter
    BY DEF MP!FinalCounter, FinalCounter, M!FinalCounter, MP!Quota, M!Quota
  <1> QED BY ImplementsBothDemos, <1>1, <1>2, PTL

\* The program implements atomic increments and one report after the last.
THEOREM Refinement == DemoSpec => ImplementsAtomicCounter
  <1>1. MP!Spec => MP!ImplementsAtomicCounter
    BY MutexRefinement, IterationsAssumption, ItemsAssumption, NAssumption
  <1>2. MP!Incs = M!Incs
    BY DEF MP!Incs, M!Incs, MP!Threads, M!Threads
  <1>3. MP!Abstract!Init => M!Abstract!Init
    BY <1>2 DEF MP!Abstract!Init, M!Abstract!Init, MP!Abstract!Threads,
                M!Abstract!Threads
  <1>4. MP!Incs' = M!Incs'
    BY DEF MP!Incs, M!Incs, MP!Threads, M!Threads
  <1>5. [MP!Abstract!Next]_(MP!Abstract!vars) => [M!Abstract!Next]_(M!Abstract!vars)
    BY <1>2, <1>4 DEF MP!Abstract!Next, M!Abstract!Next, MP!Abstract!vars,
       M!Abstract!vars, MP!Abstract!Threads, M!Abstract!Threads, MP!Abstract!Inc,
       M!Abstract!Inc, MP!Abstract!Report, M!Abstract!Report
  <1> QED BY ImplementsBothDemos, <1>1, <1>3, <1>5, PTL
          DEF MP!ImplementsAtomicCounter, ImplementsAtomicCounter,
              M!ImplementsAtomicCounter, MP!Abstract!Spec, M!Abstract!Spec

\* For every number of items the transcript of the consumer is strictly
\* increasing, and that of a consumer that returns is complete.
THEOREM TranscriptCorrect == DemoSpec => []Transcript
  <1>1. CP!Spec => []CP!InOrder
    BY CondInOrder, IterationsAssumption, ItemsAssumption, NAssumption
  <1>2. CP!Spec => []CP!AllItemsConsumed
    BY CondAllItemsConsumed, IterationsAssumption, ItemsAssumption, NAssumption
  <1>3. CP!InOrder => C!InOrder
    BY DEF CP!InOrder, C!InOrder
  <1>4. CP!AllItemsConsumed => C!AllItemsConsumed
    BY DEF CP!AllItemsConsumed, C!AllItemsConsumed
  <1>5. C!InOrder /\ C!AllItemsConsumed => Transcript
    BY DEF Transcript
  <1> QED BY ImplementsBothDemos, <1>1, <1>2, <1>3, <1>4, <1>5, PTL

\* No wakeup is lost in the program: a consumer waits while an item is ready
\* only until it is signalled, and when the producer has ended only because an
\* item was overwritten, the safety half of that case of MainEnds.
THEOREM NoLostWakeupCorrect == DemoSpec => []NoLostWakeup
  <1>1. CP!Spec => []CP!NoLostWakeup
    BY CondNoLostWakeup, IterationsAssumption, ItemsAssumption, NAssumption
  <1>2. CP!Spec => []CP!StuckOnlyByLoss
    BY CondStuckOnlyByLoss, IterationsAssumption, ItemsAssumption, NAssumption
  <1>3. CP!NoLostWakeup => C!NoLostWakeup
    BY DEF CP!NoLostWakeup, C!NoLostWakeup
  <1>4. CP!StuckOnlyByLoss => C!StuckOnlyByLoss
    BY DEF CP!StuckOnlyByLoss, C!StuckOnlyByLoss, CP!ItemLost, C!ItemLost,
       CP!Published, C!Published
  <1>5. C!NoLostWakeup /\ C!StuckOnlyByLoss => NoLostWakeup
    BY DEF NoLostWakeup
  <1> QED BY ImplementsBothDemos, <1>1, <1>2, <1>3, <1>4, <1>5, PTL

-----------------------------------------------------------------------------
(* The lifecycle demos, which share only main with the other two           *)

BeforeTls == {"simpleCreate", "simpleJoin", "otherDemos", "attrCreate", "attrSleep",
              "attrAnnounced", "keyCreate"}
MainPoints == BeforeTls \cup {"tlsCreate", "tlsJoin", "keyDelete", "return",
                              "exited", "crashed", "hung"}
ThreadPoints == {"none", "started", "asleep", "set", "got", "returned", "joined"}

LifeTypes ==
  /\ main \in MainPoints /\ k \in Ids
  /\ pt \in [Threads -> ThreadPoints]
  /\ printed \in [Ids -> Int]
  /\ key \in {"none", "live", "failed", "deleted"}
  /\ slot \in [Ids -> Int] /\ seen \in [Ids -> Int] /\ destroyed \in [Ids -> Nat]

Waited(j) == printed[j] = 2 * j /\ pt[Simple(j)] = "joined"
NotWaited(j) == printed[j] = -1 /\ pt[Simple(j)] # "joined"

\* Joins happen in the order of the array.
JoinInv ==
  /\ main = "simpleCreate" => \A j \in Ids : NotWaited(j)
  /\ main = "simpleJoin" => \A j \in Ids : IF j < k THEN Waited(j) ELSE NotWaited(j)
  /\ main = "otherDemos" => (\A j \in Ids : Waited(j)) \/ (\A j \in Ids : NotWaited(j))
  /\ main \in BeforeTls \ {"simpleCreate", "simpleJoin"} => k = 0

\* The key exists while a thread may use it.
KeyInv ==
  /\ main \in BeforeTls <=> key = "none" /\ main \notin {"crashed", "hung"}
  /\ key = "deleted" => main \in {"return", "exited"}
  /\ key = "none" => \A j \in Ids : pt[Tls(j)] = "none"
  /\ main = "tlsCreate" => \A j \in Ids : j >= k => pt[Tls(j)] = "none"
  /\ main = "tlsJoin" => \A j \in Ids : j < k => pt[Tls(j)] \in {"none", "joined"}
  /\ main \in {"keyDelete", "return", "exited"}
       => \A j \in Ids : pt[Tls(j)] \in {"none", "joined"}

\* What thread j stores through the key, and what it then reads.
Stored(j) == IF key \in {"live", "deleted"} THEN j * 100 ELSE Null

\* How far thread j has come with its value.
ValueInv(j) ==
  /\ pt[Tls(j)] \in {"none", "started"} => seen[j] = -1 /\ slot[j] = Null
  /\ pt[Tls(j)] = "set" => seen[j] = -1 /\ slot[j] = Stored(j)
  /\ pt[Tls(j)] = "got" => seen[j] = Stored(j) /\ slot[j] = Stored(j)
  /\ pt[Tls(j)] \in {"returned", "joined"}
       => seen[j] = Stored(j) /\ destroyed[j] = IF Stored(j) # Null THEN 1 ELSE 0
  /\ pt[Tls(j)] \notin {"returned", "joined"} => destroyed[j] = 0
  /\ pt[Tls(j)] # "asleep"

LifeInv == LifeTypes /\ JoinInv /\ KeyInv /\ (\A j \in Ids : ValueInv(j))

\* The names of the threads.
LEMMA ThreadNames ==
  /\ Detached \in Threads /\ SimpleThreads \subseteq Threads
  /\ \A j \in Ids : Simple(j) \in SimpleThreads /\ Tls(j) \in Threads
  /\ \A j \in Ids : \A t \in SimpleThreads : t # Tls(j)
  /\ \A j, l \in Ids : (Tls(j) = Tls(l) => j = l) /\ (Simple(j) = Simple(l) => j = l)
  /\ \A j \in Ids : Simple(j) # Detached
  BY DEF Threads, SimpleThreads, Simple, Tls, Detached, Ids

\* The loop index runs through the array and returns to 0.
LEMMA LoopIndex ==
  /\ 0 \in Ids
  /\ \A n \in Ids : /\ (n + 1) % N = IF n + 1 < N THEN n + 1 ELSE 0
                    /\ (n + 1) % N \in Ids
                    /\ n + 1 < N \/ n + 1 = N
  <1>1. ASSUME NEW n \in Ids PROVE n + 1 < N \/ n + 1 = N
    BY NAssumption DEF Ids
  <1>2. ASSUME NEW n \in Ids, n + 1 < N PROVE (n + 1) % N = n + 1 /\ n + 1 \in Ids
    BY <1>2, NAssumption DEF Ids
  <1>3. N % N = 0
    BY NAssumption
  <1>4. 0 \in Ids
    BY NAssumption DEF Ids
  <1>5. \A n \in Ids : n + 1 = N => ~(n + 1 < N)
    BY NAssumption DEF Ids
  <1> QED BY <1>1, <1>2, <1>3, <1>4, <1>5, NAssumption

\* LifeInv holds when main starts.
LEMMA LifeInit == Init => LifeInv
  <1> SUFFICES ASSUME Init PROVE LifeInv
    OBVIOUS
  <1>1. LifeTypes
    BY LoopIndex DEF Init, LifeTypes, MainPoints, BeforeTls, ThreadPoints, Null
  <1>2. JoinInv
    BY ThreadNames DEF Init, JoinInv, NotWaited, BeforeTls
  <1>3. KeyInv
    BY ThreadNames DEF Init, KeyInv, BeforeTls
  <1>4. \A j \in Ids : ValueInv(j)
    BY ThreadNames DEF Init, ValueInv
  <1> QED BY <1>1, <1>2, <1>3, <1>4 DEF LifeInv

\* A step of simple_thread.
LEMMA SimpleThreadStep ==
  ASSUME LifeInv, NEW t \in SimpleThreads, SimpleThread(t)
  PROVE  LifeInv'
  <1>1. PICK p \in {"asleep", "returned"} :
          /\ pt[t] \in {"started", "asleep"} /\ pt' = [pt EXCEPT ![t] = p]
          /\ UNCHANGED <<main, k, printed, key, slot, seen, destroyed>>
    BY DEF SimpleThread, SimpleStart, SimpleFinish, tlsVars
  <1>2. \A j \in Ids : /\ pt'[Tls(j)] = pt[Tls(j)]
                       /\ pt'[Simple(j)] = "joined" <=> pt[Simple(j)] = "joined"
    BY <1>1, ThreadNames DEF LifeInv, LifeTypes
  <1>3. LifeTypes'
    BY <1>1 DEF LifeInv, LifeTypes, ThreadPoints
  <1>4. JoinInv'
    BY <1>1, <1>2 DEF LifeInv, JoinInv, Waited, NotWaited
  <1>5. KeyInv'
    BY <1>1, <1>2 DEF LifeInv, KeyInv
  <1>6. \A j \in Ids : ValueInv(j)'
    BY <1>1, <1>2 DEF LifeInv, ValueInv, Stored
  <1> QED BY <1>3, <1>4, <1>5, <1>6 DEF LifeInv

\* A step of tls_thread, with its exit.
LEMMA TlsThreadStep ==
  ASSUME LifeInv, NEW n \in Ids, TlsThread(n)
  PROVE  LifeInv'
  <1>1. PICK p \in {"set", "got", "returned"} :
          /\ pt[Tls(n)] \in {"started", "set", "got"} /\ pt' = [pt EXCEPT ![Tls(n)] = p]
          /\ UNCHANGED <<main, k, printed, key>>
    BY DEF TlsThread, TlsSet, TlsGet, TlsExit
  <1>2. /\ \A j \in Ids \ {n} : pt'[Tls(j)] = pt[Tls(j)]
        /\ pt'[Tls(n)] = p
        /\ \A j \in Ids : pt'[Simple(j)] = pt[Simple(j)]
    BY <1>1, ThreadNames DEF LifeInv, LifeTypes
  <1>3. key \in {"live", "failed"} /\ main \notin {"keyDelete", "return", "exited"}
    BY <1>1 DEF LifeInv, LifeTypes, KeyInv
  <1>4. Stored(n) = IF key = "live" THEN n * 100 ELSE Null
    BY <1>3 DEF Stored
  <1>5. n * 100 \in Int /\ Stored(n) \in Int
    BY NAssumption DEF Ids, Stored, Null
  <1>6. LifeTypes'
    <2>1. pt' \in [Threads -> ThreadPoints]
      BY <1>1 DEF LifeInv, LifeTypes, ThreadPoints
    <2>2. slot' \in [Ids -> Int] /\ seen' \in [Ids -> Int]
      BY <1>5 DEF LifeInv, LifeTypes, TlsThread, TlsSet, TlsGet, TlsExit, Null
    <2>3. destroyed' \in [Ids -> Nat]
      BY DEF LifeInv, LifeTypes, TlsThread, TlsSet, TlsGet, TlsExit
    <2> QED BY <1>1, <2>1, <2>2, <2>3 DEF LifeInv, LifeTypes
  <1>7. JoinInv'
    BY <1>1, <1>2 DEF LifeInv, JoinInv, Waited, NotWaited
  <1>8. KeyInv'
    BY <1>1, <1>2, <1>3, ThreadNames DEF LifeInv, KeyInv
  <1>9. ASSUME NEW j \in Ids \ {n} PROVE ValueInv(j)'
    <2>1. slot'[j] = slot[j] /\ seen'[j] = seen[j] /\ destroyed'[j] = destroyed[j]
      BY DEF LifeInv, LifeTypes, TlsThread, TlsSet, TlsGet, TlsExit
    <2> QED BY <1>1, <1>2, <2>1 DEF LifeInv, ValueInv, Stored
  <1>10. ValueInv(n)'
    <2>0. ValueInv(n) /\ Stored(n)' = Stored(n)
      BY <1>1 DEF LifeInv, Stored
    <2>1. CASE TlsSet(n)
      <3>1. pt[Tls(n)] = "started" /\ pt'[Tls(n)] = "set"
        BY <1>2, <2>1, ThreadNames DEF TlsSet, LifeInv, LifeTypes
      <3>2. slot'[n] = Stored(n) /\ seen' = seen /\ destroyed' = destroyed
        BY <1>4, <2>0, <2>1, <3>1 DEF TlsSet, LifeInv, LifeTypes, ValueInv
      <3> QED BY <2>0, <3>1, <3>2 DEF ValueInv
    <2>2. CASE TlsGet(n)
      <3>1. pt[Tls(n)] = "set" /\ pt'[Tls(n)] = "got"
        BY <1>2, <2>2, ThreadNames DEF TlsGet, LifeInv, LifeTypes
      <3>2. slot' = slot /\ seen'[n] = Stored(n) /\ destroyed' = destroyed
        BY <1>4, <2>0, <2>2, <3>1 DEF TlsGet, LifeInv, LifeTypes, ValueInv
      <3> QED BY <2>0, <3>1, <3>2 DEF ValueInv
    <2>3. CASE TlsExit(n)
      <3>1. pt[Tls(n)] = "got" /\ pt'[Tls(n)] = "returned"
        BY <1>2, <2>3, ThreadNames DEF TlsExit, LifeInv, LifeTypes
      <3>2. seen' = seen /\ destroyed'[n] = IF Stored(n) # Null THEN 1 ELSE 0
        <4>1. slot[n] = Stored(n) /\ destroyed[n] = 0
          BY <2>0, <3>1 DEF ValueInv
        <4>2. seen' = seen
              /\ destroyed'[n] = IF key = "live" /\ slot[n] # Null THEN 0 + 1 ELSE 0
          BY <2>3, <4>1 DEF TlsExit, LifeInv, LifeTypes
        <4> QED BY <1>4, <4>1, <4>2
      <3> QED BY <2>0, <3>1, <3>2 DEF ValueInv
    <2> QED BY <2>1, <2>2, <2>3 DEF TlsThread
  <1> QED BY <1>6, <1>7, <1>8, <1>9, <1>10 DEF LifeInv

\* A step of main that moves no thread and touches no value keeps what is said
\* of the values; it is the same for the creation of a thread.
LEMMA ValuesKept ==
  ASSUME \A j \in Ids : ValueInv(j), UNCHANGED tlsVars,
         \A j \in Ids : \/ pt'[Tls(j)] = pt[Tls(j)]
                        \/ pt[Tls(j)] = "none" /\ pt'[Tls(j)] = "started"
                        \/ pt[Tls(j)] = "returned" /\ pt'[Tls(j)] = "joined"
  PROVE  \A j \in Ids : ValueInv(j)'
  BY DEF ValueInv, Stored, tlsVars

\* demo_simple_threads.
LEMMA SimpleDemoStep ==
  ASSUME LifeInv, SimpleCreate \/ SimpleJoin
  PROVE  LifeInv'
  <1>0. /\ LifeTypes /\ JoinInv /\ KeyInv /\ k \in Ids /\ pt \in [Threads -> ThreadPoints]
        /\ printed \in [Ids -> Int] /\ Simple(k) \in SimpleThreads /\ Simple(k) \in Threads
    BY ThreadNames DEF LifeInv, LifeTypes
  <1>1. /\ main' \in {"simpleCreate", "simpleJoin", "otherDemos"} /\ UNCHANGED tlsVars
        /\ k' \in Ids /\ main \in {"simpleCreate", "simpleJoin"}
    BY <1>0, LoopIndex DEF SimpleCreate, SimpleJoin
  <1>2. /\ pt' \in [Threads -> ThreadPoints]
        /\ \A j \in Ids : pt'[Tls(j)] = pt[Tls(j)]
    BY <1>0, ThreadNames DEF SimpleCreate, SimpleJoin, ThreadPoints
  <1>3. LifeTypes'
    <2>1. printed' \in [Ids -> Int]
      <3>1. 2 * k \in Int
        BY <1>0, NAssumption DEF Ids
      <3> QED BY <1>0, <3>1 DEF SimpleCreate, SimpleJoin
    <2> QED BY <1>0, <1>1, <1>2, <2>1 DEF LifeTypes, tlsVars, MainPoints,
        BeforeTls
  <1>4. KeyInv'
    BY <1>0, <1>1, <1>2 DEF KeyInv, tlsVars, BeforeTls
  <1>5. \A j \in Ids : ValueInv(j)'
    BY <1>1, <1>2, ValuesKept DEF LifeInv
  <1>6. JoinInv'
    <2>1. CASE SimpleCreate
      <3>1. \A j \in Ids : NotWaited(j)
        BY <1>0, <2>1 DEF JoinInv, SimpleCreate
      <3>2. \A j \in Ids : NotWaited(j)'
        BY <1>0, <2>1, <3>1, ThreadNames DEF NotWaited, SimpleCreate
      <3>3. main' = "simpleJoin" \/ main' = "otherDemos" => k' = 0
        BY <1>0, <2>1, LoopIndex DEF SimpleCreate
      <3>4. \A j \in Ids : ~(j < 0)
        BY NAssumption DEF Ids
      <3> QED BY <1>1, <3>2, <3>3, <3>4 DEF JoinInv, BeforeTls
    <2>2. CASE SimpleJoin
      <3>1. \A j \in Ids : IF j < k THEN Waited(j) ELSE NotWaited(j)
        BY <1>0, <2>2 DEF JoinInv, SimpleJoin
      <3>2. printed'[k] = 2 * k /\ pt'[Simple(k)] = "joined"
        BY <1>0, <2>2 DEF SimpleJoin
      <3>3. \A j \in Ids \ {k} : printed'[j] = printed[j] /\ pt'[Simple(j)] = pt[Simple(j)]
        BY <1>0, <2>2, ThreadNames DEF SimpleJoin
      <3>4. \A j \in Ids : j < k + 1 <=> j < k \/ j = k
        BY <1>0, NAssumption DEF Ids
      <3>5. \A j \in Ids : IF j < k + 1 THEN Waited(j)' ELSE NotWaited(j)'
        BY <3>1, <3>2, <3>3, <3>4 DEF Waited, NotWaited
      <3>6. CASE k + 1 < N
        <4>1. k' = k + 1 /\ main' = "simpleJoin"
          BY <1>0, <2>2, <3>6, LoopIndex DEF SimpleJoin
        <4> QED BY <3>5, <4>1 DEF JoinInv
      <3>7. CASE ~(k + 1 < N)
        <4>1. k' = 0 /\ main' = "otherDemos"
          BY <1>0, <2>2, <3>7, LoopIndex DEF SimpleJoin
        <4>2. \A j \in Ids : j < k + 1
          BY <1>0, <3>7, NAssumption DEF Ids
        <4> QED BY <3>5, <4>1, <4>2 DEF JoinInv
      <3> QED BY <3>6, <3>7
    <2> QED BY <2>1, <2>2
  <1> QED BY <1>3, <1>4, <1>5, <1>6 DEF LifeInv

\* The demos in between and demo_thread_attributes.
LEMMA AttributesStep ==
  ASSUME LifeInv, OtherDemos \/ AttrCreate \/ AttrAnnounce \/ AttrReturn
  PROVE  LifeInv'
  <1>0. /\ LifeTypes /\ JoinInv /\ KeyInv /\ pt \in [Threads -> ThreadPoints]
        /\ Detached \in Threads
    BY ThreadNames DEF LifeInv, LifeTypes
  <1>1. /\ main \in {"otherDemos", "attrCreate", "attrSleep", "attrAnnounced"}
        /\ main' \in {"attrCreate", "attrSleep", "attrAnnounced", "keyCreate", "hung", "crashed"}
        /\ UNCHANGED <<k, printed, tlsVars>>
    BY DEF OtherDemos, AttrCreate, AttrAnnounce, AttrReturn
  <1>2. /\ pt' \in [Threads -> ThreadPoints]
        /\ \A j \in Ids : pt'[Tls(j)] = pt[Tls(j)]
    <2>1. Detached \in SimpleThreads
      BY DEF SimpleThreads
    <2> QED BY <1>0, <2>1, ThreadNames
            DEF OtherDemos, AttrCreate, AttrAnnounce, AttrReturn, ThreadPoints
  <1>3. LifeTypes'
    BY <1>0, <1>1, <1>2 DEF LifeTypes, tlsVars, MainPoints, BeforeTls
  <1>4. JoinInv'
    BY <1>0, <1>1 DEF JoinInv, BeforeTls
  <1>5. KeyInv'
    BY <1>0, <1>1, <1>2 DEF KeyInv, tlsVars, BeforeTls
  <1>6. \A j \in Ids : ValueInv(j)'
    BY <1>1, <1>2, ValuesKept DEF LifeInv
  <1> QED BY <1>3, <1>4, <1>5, <1>6 DEF LifeInv

\* The loops of demo_thread_local_storage.
LEMMA TlsLoopStep ==
  ASSUME LifeInv, TlsCreate \/ TlsJoin
  PROVE  LifeInv'
  <1>0. /\ LifeTypes /\ KeyInv /\ pt \in [Threads -> ThreadPoints] /\ k \in Ids
        /\ Tls(k) \in Threads
    BY ThreadNames DEF LifeInv, LifeTypes
  <1>1. /\ main \in {"tlsCreate", "tlsJoin"}
        /\ main' \in {"tlsCreate", "tlsJoin", "keyDelete", "hung", "crashed"}
        /\ UNCHANGED <<printed, tlsVars>> /\ k' = (k + 1) % N /\ k' \in Ids
        /\ pt' \in [Threads -> ThreadPoints]
    BY <1>0, LoopIndex DEF TlsCreate, TlsJoin, ThreadPoints
  <1>2. LifeTypes'
    BY <1>0, <1>1 DEF LifeTypes, tlsVars, MainPoints, BeforeTls
  <1>3. JoinInv'
    BY <1>1 DEF JoinInv, BeforeTls
  <1>4. key' = key /\ key \in {"live", "failed"}
    BY <1>0, <1>1 DEF KeyInv, LifeTypes, BeforeTls, tlsVars
  <1>5. \A j \in Ids \ {k} : pt'[Tls(j)] = pt[Tls(j)]
    BY <1>0, ThreadNames DEF TlsCreate, TlsJoin
  <1>6. CASE TlsCreate
    <2>1. pt[Tls(k)] = "none" /\ pt'[Tls(k)] \in {"none", "started"}
      <3>1. k >= k
        BY <1>0, NAssumption DEF Ids
      <3>2. pt[Tls(k)] = "none"
        BY <1>0, <1>6, <3>1 DEF TlsCreate, KeyInv
      <3> QED BY <1>0, <1>6, <3>2 DEF TlsCreate
    <2>2. KeyInv'
      <3>1. CASE k + 1 < N
        <4>1. k' = k + 1 /\ main' = "tlsCreate" /\ main = "tlsCreate"
          BY <1>0, <1>6, <3>1, LoopIndex DEF TlsCreate
        <4>2. \A j \in Ids : j >= k + 1 => j # k /\ j >= k
          BY <1>0, NAssumption DEF Ids
        <4> QED BY <1>0, <1>4, <1>5, <4>1, <4>2 DEF KeyInv, BeforeTls
      <3>2. CASE ~(k + 1 < N)
        <4>1. k' = 0 /\ main' = "tlsJoin"
          BY <1>0, <1>6, <3>2, LoopIndex DEF TlsCreate
        <4>2. \A j \in Ids : ~(j < 0)
          BY NAssumption DEF Ids
        <4> QED BY <1>4, <4>1, <4>2 DEF KeyInv, BeforeTls
      <3> QED BY <3>1, <3>2
    <2>3. \A j \in Ids : ValueInv(j)'
      BY <1>1, <1>5, <2>1, ValuesKept DEF LifeInv
    <2> QED BY <1>2, <1>3, <2>2, <2>3 DEF LifeInv
  <1>7. CASE TlsJoin
    <2>1. \/ pt[Tls(k)] = "returned" /\ pt'[Tls(k)] = "joined"
          \/ pt[Tls(k)] = "none" /\ pt'[Tls(k)] = "none"
      BY <1>0, <1>7 DEF TlsJoin
    <2>2. \A j \in Ids : j < k + 1 => pt'[Tls(j)] \in {"none", "joined"}
      <3>1. \A j \in Ids : j < k + 1 <=> j < k \/ j = k
        BY <1>0, NAssumption DEF Ids
      <3> QED BY <1>0, <1>5, <1>7, <2>1, <3>1 DEF KeyInv, TlsJoin
    <2>3. KeyInv'
      <3>1. CASE main' \in {"hung", "crashed"}
        BY <1>4, <3>1 DEF KeyInv, BeforeTls
      <3>2. CASE k + 1 < N /\ main' = "tlsJoin"
        <4>1. k' = k + 1
          BY <1>0, <1>1, <3>2, LoopIndex
        <4> QED BY <1>4, <2>2, <3>2, <4>1 DEF KeyInv, BeforeTls
      <3>3. CASE ~(k + 1 < N) /\ main' = "keyDelete"
        <4>1. \A j \in Ids : j < k + 1
          BY <1>0, <3>3, NAssumption DEF Ids
        <4> QED BY <1>4, <2>2, <3>3, <4>1 DEF KeyInv, BeforeTls
      <3> QED BY <1>7, <3>1, <3>2, <3>3 DEF TlsJoin
    <2>4. \A j \in Ids : ValueInv(j)'
      BY <1>1, <1>5, <2>1, ValuesKept DEF LifeInv
    <2> QED BY <1>2, <1>3, <2>3, <2>4 DEF LifeInv
  <1> QED BY <1>6, <1>7

\* The key, and the end of main.
LEMMA KeyStep ==
  ASSUME LifeInv, KeyCreate \/ KeyDelete \/ MainReturn
  PROVE  LifeInv'
  <1>0. LifeTypes /\ JoinInv /\ KeyInv
    BY DEF LifeInv
  <1>1. UNCHANGED <<k, pt, printed, slot, seen, destroyed>>
    BY DEF KeyCreate, KeyDelete, MainReturn, tlsVars
  <1>2. LifeTypes'
    BY <1>0, <1>1 DEF LifeTypes, KeyCreate, KeyDelete, MainReturn, MainPoints,
        BeforeTls,
                      tlsVars
  <1>3. JoinInv'
    BY DEF JoinInv, KeyCreate, KeyDelete, MainReturn, BeforeTls
  <1>4. CASE KeyCreate
    <2>1. key = "none" /\ \A j \in Ids : pt[Tls(j)] = "none"
      BY <1>0, <1>4 DEF KeyCreate, KeyInv, BeforeTls
    <2>2. KeyInv'
      BY <1>1, <1>4, <2>1 DEF KeyCreate, KeyInv, BeforeTls
    <2>3. \A j \in Ids : ValueInv(j)'
      BY <1>1, <2>1 DEF LifeInv, ValueInv
    <2> QED BY <1>2, <1>3, <2>2, <2>3 DEF LifeInv
  <1>5. CASE KeyDelete
    <2>1. /\ key \in {"live", "failed"} /\ \A j \in Ids : pt[Tls(j)] \in {"none", "joined"}
      BY <1>0, <1>5 DEF KeyDelete, KeyInv, LifeTypes, BeforeTls
    <2>2. KeyInv'
      BY <1>1, <1>5, <2>1 DEF KeyDelete, KeyInv, BeforeTls
    <2>3. \A j \in Ids : Stored(j)' = Stored(j)
      BY <1>5, <2>1 DEF KeyDelete, Stored
    <2>4. \A j \in Ids : ValueInv(j)'
      BY <1>1, <2>1, <2>3 DEF LifeInv, ValueInv
    <2> QED BY <1>2, <1>3, <2>2, <2>4 DEF LifeInv
  <1>6. CASE MainReturn
    <2>1. KeyInv'
      BY <1>0, <1>1, <1>6 DEF MainReturn, KeyInv, BeforeTls, tlsVars
    <2>2. \A j \in Ids : ValueInv(j)'
      BY <1>1, <1>6, ValuesKept DEF MainReturn, LifeInv
    <2> QED BY <1>2, <1>3, <2>1, <2>2 DEF LifeInv
  <1> QED BY <1>4, <1>5, <1>6

\* Every step of the lifecycle demos keeps LifeInv.
LEMMA LifeStep == LifeInv /\ [Next]_vars => LifeInv'
  <1> SUFFICES ASSUME LifeInv, [Next]_vars PROVE LifeInv'
    OBVIOUS
  <1>1. CASE Main
    BY <1>1, SimpleDemoStep, AttributesStep, TlsLoopStep, KeyStep DEF Main
  <1>2. CASE \E t \in SimpleThreads : SimpleThread(t)
    BY <1>2, SimpleThreadStep
  <1>3. CASE \E j \in Ids : TlsThread(j)
    BY <1>3, TlsThreadStep
  <1>4. CASE UNCHANGED vars
    BY <1>4 DEF vars, LifeInv, LifeTypes, JoinInv, KeyInv, ValueInv, Stored,
        Waited, NotWaited
  <1> QED BY <1>1, <1>2, <1>3, <1>4 DEF Next, Terminated

\* Every step of the program is one of the lifecycle demos, in which the other
\* two demos are the step OtherDemos, or leaves them alone.
LEMMA LifecycleStep == [DemoNext]_demoVars => [Next]_vars
  <1> SUFFICES ASSUME [DemoNext]_demoVars PROVE [Next]_vars
    OBVIOUS
  <1>1. CASE Main
    BY <1>1 DEF Next
  <1>2. CASE InMutexDemo
    <2>1. main' \in {"otherDemos", "crashed", "hung"} /\ main = "otherDemos"
      BY <1>2 DEF InMutexDemo, After
    <2>2. UNCHANGED <<k, pt, printed, tlsVars>>
      BY <1>2 DEF InMutexDemo
    <2> QED BY <2>1, <2>2 DEF Next, Main, OtherDemos, vars, tlsVars
  <1>3. CASE InCondDemo
    <2>1. main' \in {"otherDemos", "attrCreate", "crashed", "hung"} /\ main = "otherDemos"
      BY <1>3 DEF InCondDemo, After
    <2>2. UNCHANGED <<k, pt, printed, tlsVars>>
      BY <1>3 DEF InCondDemo
    <2> QED BY <2>1, <2>2 DEF Next, Main, OtherDemos, vars, tlsVars
  <1>4. CASE \E t \in Threads : LifecycleThread(t)
    BY <1>4 DEF LifecycleThread, Next
  <1>5. CASE UNCHANGED vars
    BY <1>5
  <1> QED BY <1>1, <1>2, <1>3, <1>4, <1>5
          DEF DemoNext, DemoMain, MutexThread, Producer, Consumer, Spurious,
              Ended, demoVars

\* The program runs the lifecycle demos as their module specifies them.
THEOREM ImplementsLifecycle == DemoSpec => Spec
  <1>1. DemoInit => Init
    BY DEF DemoInit
  <1> QED BY <1>1, LifecycleStep, PTL DEF DemoSpec, Spec

\* The inductive invariant holds throughout.
THEOREM LifecycleInvariance == DemoSpec => []LifeInv
  <1>1. Spec => []LifeInv
    BY LifeInit, LifeStep, PTL DEF Spec
  <1> QED BY <1>1, ImplementsLifecycle, PTL

\* For any number of threads, main has every simple thread's own id * 2 when it
\* goes on to demo_mutex, or has waited for none of them.
THEOREM SimpleResultsCorrect == DemoSpec => []SimpleResults
  <1>1. LifeInv => SimpleResults
    BY DEF LifeInv, JoinInv, Waited, NotWaited, SimpleResults
  <1> QED BY <1>1, LifecycleInvariance, PTL

\* For any number of threads, each prints the value it has stored itself.
THEOREM TlsIsolationCorrect == DemoSpec => []TlsIsolation
  <1>1. LifeInv => TlsIsolation
    <2> SUFFICES ASSUME LifeInv, NEW j \in Ids, seen[j] # -1
                 PROVE  seen[j] = Stored(j)
      BY DEF TlsIsolation, Stored
    <2>1. ValueInv(j) /\ pt[Tls(j)] \in ThreadPoints
      BY ThreadNames DEF LifeInv, LifeTypes
    <2> QED BY <2>1 DEF ValueInv, ThreadPoints
  <1> QED BY <1>1, LifecycleInvariance, PTL

\* For any number of threads, a key that is deleted has had its destructor
\* called exactly once for each thread that stored something.
THEOREM DestructorsBeforeDeleteCorrect == DemoSpec => []DestructorsBeforeDelete
  <1>1. LifeInv => DestructorsBeforeDelete
    <2> SUFFICES ASSUME LifeInv, key = "deleted", NEW j \in Ids
                 PROVE  destroyed[j] = IF pt[Tls(j)] # "none" /\ j * 100 # Null THEN 1 ELSE 0
      BY DEF DestructorsBeforeDelete
    <2>1. ValueInv(j) /\ pt[Tls(j)] \in {"none", "joined"} /\ Stored(j) = j * 100
      BY DEF LifeInv, KeyInv, Stored
    <2> QED BY <2>1 DEF ValueInv
  <1> QED BY <1>1, LifecycleInvariance, PTL

=============================================================================
