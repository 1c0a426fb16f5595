-------------------------- MODULE ThreadLifecycle --------------------------
(***************************************************************************)
(* The thread lifecycle demos of examples/threads_demo.c in the order main *)
(* runs them: demo_simple_threads (create, join, results), then            *)
(* demo_thread_attributes (a detached thread nobody joins), then           *)
(* demo_thread_local_storage (a key, per-thread values, destructors).      *)
(* demo_mutex and demo_condition_variable, which run in between, have      *)
(* modules of their own and take the place of the step OtherDemos in       *)
(* ThreadsDemo; here they return, hang or crash.                           *)
(***************************************************************************)
EXTENDS ThreadsParameters

Ids == 0..(N - 1)
Simple(i) == <<"simple", i>>
Detached == <<"attr", 99>>
Tls(i) == <<"tls", i>>
SimpleThreads == {Simple(i) : i \in Ids} \cup {Detached}
Threads == SimpleThreads \cup {Tls(i) : i \in Ids}

Null == 0               \* (void *)0: also what (void *)(0 * 100) is

VARIABLES
  main,                 \* program point of main and of the demo it is in
  k,                    \* loop index of that demo
  pt,                   \* pt[t]: program point of thread t
  printed,              \* result main printed for simple thread i, or -1
  key,                  \* "none", "live", "failed" or "deleted"
  slot,                 \* slot[i]: thread-specific value of TLS thread i
  seen,                 \* value TLS thread i printed, or -1
  destroyed             \* destroyed[i]: destructor calls for TLS thread i

vars == <<main, k, pt, printed, key, slot, seen, destroyed>>
tlsVars == <<key, slot, seen, destroyed>>

Init ==
  /\ main = "simpleCreate" /\ k = 0
  /\ pt = [t \in Threads |-> "none"]
  /\ printed = [i \in Ids |-> -1]
  /\ key = "none"
  /\ slot = [i \in Ids |-> Null]
  /\ seen = [i \in Ids |-> -1]
  /\ destroyed = [i \in Ids |-> 0]

\* Returning from main, or a crash, ends every thread.
ProcessAlive == main \notin {"exited", "crashed"}

-----------------------------------------------------------------------------
(* The threads                                                             *)

\* simple_thread: "Started", sleep(1), "Finished", return.
SimpleStart(t) ==
  /\ pt[t] = "started"
  /\ pt' = [pt EXCEPT ![t] = "asleep"]
  /\ UNCHANGED <<main, k, printed, tlsVars>>

SimpleFinish(t) ==
  /\ pt[t] = "asleep"
  /\ pt' = [pt EXCEPT ![t] = "returned"]
  /\ UNCHANGED <<main, k, printed, tlsVars>>

SimpleThread(t) == ProcessAlive /\ (SimpleStart(t) \/ SimpleFinish(t))

\* Mutant of TlsSet: one static variable instead of a thread-specific value.
TlsSetShared(i) ==
  /\ pt[Tls(i)] = "started"
  /\ slot' = [j \in Ids |-> i * 100]
  /\ pt' = [pt EXCEPT ![Tls(i)] = "set"]
  /\ UNCHANGED <<main, k, printed, key, seen, destroyed>>

\* pthread_setspecific, unchecked: without a key it stores nothing.
TlsSet(i) ==
  /\ pt[Tls(i)] = "started"
  /\ slot' = IF key = "live" THEN [slot EXCEPT ![i] = i * 100] ELSE slot
  /\ pt' = [pt EXCEPT ![Tls(i)] = "set"]
  /\ UNCHANGED <<main, k, printed, key, seen, destroyed>>

\* pthread_getspecific, which yields NULL without a key.
TlsGet(i) ==
  /\ pt[Tls(i)] = "set"
  /\ seen' = [seen EXCEPT ![i] = IF key = "live" THEN slot[i] ELSE Null]
  /\ pt' = [pt EXCEPT ![Tls(i)] = "got"]
  /\ UNCHANGED <<main, k, printed, key, slot, destroyed>>

\* At exit tls_destructor is called if the key still exists and the value is
\* not NULL, before the thread counts as terminated.
TlsExit(i) ==
  /\ pt[Tls(i)] = "got"
  /\ destroyed' = [destroyed EXCEPT
       ![i] = IF key = "live" /\ slot[i] # Null THEN @ + 1 ELSE @]
  /\ slot' = [slot EXCEPT ![i] = Null]
  /\ pt' = [pt EXCEPT ![Tls(i)] = "returned"]
  /\ UNCHANGED <<main, k, printed, key, seen>>

TlsThread(i) == ProcessAlive /\ (TlsSet(i) \/ TlsGet(i) \/ TlsExit(i))

-----------------------------------------------------------------------------
(* demo_simple_threads                                                     *)

\* A failing pthread_create makes the demo return: the threads created before
\* it are neither joined nor detached.
SimpleCreate ==
  /\ main = "simpleCreate"
  /\ \/ /\ pt' = [pt EXCEPT ![Simple(k)] = "started"]
        /\ k' = (k + 1) % N
        /\ main' = IF k + 1 < N THEN main ELSE "simpleJoin"
     \/ /\ k' = 0
        /\ main' = "otherDemos"
        /\ UNCHANGED pt
  /\ UNCHANGED <<printed, tlsVars>>

\* Mutant of SimpleJoin: the result is read without waiting for the thread.
SimpleJoinEarly ==
  /\ main = "simpleJoin"
  /\ pt' = [pt EXCEPT ![Simple(k)] = "joined"]
  /\ printed' = [printed EXCEPT
       ![k] = IF pt[Simple(k)] = "returned" THEN 2 * k ELSE 0]
  /\ k' = (k + 1) % N
  /\ main' = IF k + 1 < N THEN main ELSE "otherDemos"
  /\ UNCHANGED tlsVars

\* pthread_join waits for the thread and yields its (void *)(id * 2).
SimpleJoin ==
  /\ main = "simpleJoin"
  /\ pt[Simple(k)] = "returned"
  /\ pt' = [pt EXCEPT ![Simple(k)] = "joined"]
  /\ printed' = [printed EXCEPT ![k] = 2 * k]
  /\ k' = (k + 1) % N
  /\ main' = IF k + 1 < N THEN main ELSE "otherDemos"
  /\ UNCHANGED tlsVars

OtherDemos ==
  /\ main = "otherDemos"
  /\ main' \in {"attrCreate", "hung", "crashed"}
  /\ UNCHANGED <<k, pt, printed, tlsVars>>

-----------------------------------------------------------------------------
(* demo_thread_attributes                                                  *)

AttrCreate ==
  /\ main = "attrCreate"
  /\ \/ /\ pt' = [pt EXCEPT ![Detached] = "started"]
        /\ main' = "attrSleep"
     \/ /\ main' = "keyCreate"
        /\ UNCHANGED pt
  /\ UNCHANGED <<k, printed, tlsVars>>

\* sleep(2) returns and main announces that the detached thread completed;
\* nothing orders this after the thread's own sleep(1).
AttrAnnounce ==
  /\ main = "attrSleep"
  /\ main' = "attrAnnounced"
  /\ UNCHANGED <<k, pt, printed, tlsVars>>

AttrReturn ==
  /\ main = "attrAnnounced"
  /\ main' = "keyCreate"
  /\ UNCHANGED <<k, pt, printed, tlsVars>>

-----------------------------------------------------------------------------
(* demo_thread_local_storage                                               *)

\* pthread_key_create, unchecked.
KeyCreate ==
  /\ main = "keyCreate"
  /\ key' \in {"live", "failed"}
  /\ main' = "tlsCreate"
  /\ UNCHANGED <<k, pt, printed, slot, seen, destroyed>>

\* pthread_create, unchecked: a failure leaves threads[k] unset.
TlsCreate ==
  /\ main = "tlsCreate"
  /\ pt' \in {pt, [pt EXCEPT ![Tls(k)] = "started"]}
  /\ k' = (k + 1) % N
  /\ main' = IF k + 1 < N THEN main ELSE "tlsJoin"
  /\ UNCHANGED <<printed, tlsVars>>

\* Mutants of TlsJoin: threads[0] is joined every time; only the first thread
\* is joined.
TlsJoinSameThread ==
  /\ main = "tlsJoin"
  /\ pt[Tls(0)] = "returned"
  /\ pt' = [pt EXCEPT ![Tls(0)] = "joined"]
  /\ k' = (k + 1) % N
  /\ main' = IF k + 1 < N THEN main ELSE "keyDelete"
  /\ UNCHANGED <<printed, tlsVars>>

TlsJoinFirst ==
  /\ main = "tlsJoin"
  /\ pt[Tls(k)] \in {"none", "returned"}
  /\ pt' = [pt EXCEPT ![Tls(k)] = IF @ = "none" THEN @ ELSE "joined"]
  /\ k' = 0 /\ main' = "keyDelete"
  /\ UNCHANGED <<printed, tlsVars>>

\* Joining an unset pthread_t may return, crash or hang.
TlsJoin ==
  /\ main = "tlsJoin"
  /\ LET next == IF k + 1 < N THEN main ELSE "keyDelete"
     IN  \/ /\ pt[Tls(k)] = "returned"
            /\ pt' = [pt EXCEPT ![Tls(k)] = "joined"]
            /\ main' = next
         \/ /\ pt[Tls(k)] = "none"
            /\ main' \in {next, "crashed", "hung"}
            /\ UNCHANGED pt
  /\ k' = (k + 1) % N
  /\ UNCHANGED <<printed, tlsVars>>

KeyDelete ==
  /\ main = "keyDelete"
  /\ key' = IF key = "live" THEN "deleted" ELSE key
  /\ main' = "return"
  /\ UNCHANGED <<k, pt, printed, slot, seen, destroyed>>

\* "All Demos Complete", return 0: exit() ends whatever still runs.
MainReturn ==
  /\ main = "return"
  /\ main' = "exited"
  /\ UNCHANGED <<k, pt, printed, tlsVars>>

Main ==
  \/ SimpleCreate \/ SimpleJoin \/ OtherDemos
  \/ AttrCreate \/ AttrAnnounce \/ AttrReturn
  \/ KeyCreate \/ TlsCreate \/ TlsJoin \/ KeyDelete
  \/ MainReturn

Terminated ==
  /\ \/ ~ProcessAlive
     \/ main = "hung" /\ \A t \in Threads : pt[t] \in {"none", "returned", "joined"}
  /\ UNCHANGED vars

Next ==
  \/ Main
  \/ \E t \in SimpleThreads : SimpleThread(t)
  \/ \E i \in Ids : TlsThread(i)
  \/ Terminated

Spec == Init /\ [][Next]_vars

-----------------------------------------------------------------------------
(* Properties                                                              *)

\* When main moves on to demo_mutex, either every simple thread has finished
\* and its own id * 2 was printed for it, or none was waited for.
SimpleResults ==
  main = "otherDemos"
    => \/ \A i \in Ids : printed[i] = 2 * i /\ pt[Simple(i)] = "joined"
       \/ \A i \in Ids : printed[i] = -1 /\ pt[Simple(i)] # "joined"

\* The value a TLS thread prints is its own id * 100 whatever its siblings
\* store through the same key, and NULL if the key could not be created.
TlsIsolation ==
  \A i \in Ids :
    seen[i] # -1 => seen[i] = IF key \in {"live", "deleted"} THEN i * 100 ELSE Null

\* The key outlives its values: once pthread_key_delete has run, tls_destructor
\* has been called exactly once for each thread that stored a non-NULL value
\* (never for thread 0, whose 0 * 100 is NULL) and will not be called again.
DestructorsBeforeDelete ==
  key = "deleted" =>
    \A i \in Ids :
      destroyed[i] = IF pt[Tls(i)] # "none" /\ i * 100 # Null THEN 1 ELSE 0

=============================================================================
