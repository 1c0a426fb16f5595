------------------------ MODULE ProcessManagerProofs ------------------------
(***************************************************************************)
(* For every number of children: types, the truth of the parent's last     *)
(* line "All children completed", that no call of wait() is one too many,  *)
(* and that no line of output is lost.                                     *)
(***************************************************************************)
EXTENDS ProcessManager, FiniteSetTheorems, TLAPS

\* Every line a process prints is one of Lines.
LEMMA LinesFacts ==
  /\ \A l \in {"hello", "waiting", "completed"} : <<l, Parent>> \in Lines
  /\ \A c \in Children :
       \A l \in {"created", "started", "exiting", "terminated"} : <<l, c>> \in Lines
  BY DEF Lines

\* Writing a set of lines keeps the counts of lines natural numbers.
LEMMA WrittenType ==
  ASSUME out \in [Lines -> Nat], NEW ls
  PROVE  Written(ls) \in [Lines -> Nat]
  BY DEF Written

\* printf and the flush at exit() keep buffers and counts well typed.
LEMMA PrintfType ==
  ASSUME TypeOK, NEW p \in Processes, NEW l \in Lines, Printf(p, l)
  PROVE  buf' \in [Processes -> SUBSET Lines] /\ out' \in [Lines -> Nat]
  BY WrittenType DEF Printf, TypeOK

\* The same of a printf followed by exit.
LEMMA PrintfExitType ==
  ASSUME TypeOK, NEW p \in Processes, NEW ls, PrintfExit(p, ls)
  PROVE  buf' \in [Processes -> SUBSET Lines] /\ out' \in [Lines -> Nat]
  BY WrittenType DEF PrintfExit, TypeOK

\* Every step keeps the types.
LEMMA TypeStep ==
  ASSUME TypeOK, [Next]_vars
  PROVE  TypeOK'
  <1> USE NAssumption DEF Children, Processes, Parent, Unset, Killed
  <1>1. CASE Start
    <2>1. <<"hello", Parent>> \in Lines /\ Parent \in Processes
      BY LinesFacts
    <2>2. buf' \in [Processes -> SUBSET Lines] /\ out' \in [Lines -> Nat]
      BY <1>1, <2>1, PrintfType DEF Start
    <2> QED BY <1>1, <2>2 DEF Start, TypeOK
  <1>2. CASE Fork
    <2>0. i + 1 \in Children
      BY <1>2 DEF Fork, TypeOK
    <2>1. <<"created", i + 1>> \in Lines
      BY <2>0, LinesFacts, Zenon
    <2>2. out' \in [Lines -> Nat]
      <3>1. out' = out \/ out' = Written({<<"created", i + 1>>})
        BY <1>2 DEF Fork
      <3> QED BY <3>1, WrittenType DEF TypeOK
    <2>3. buf' \in [Processes -> SUBSET Lines]
      BY <1>2, <2>0, <2>1 DEF Fork, TypeOK
    <2>4. st' \in [Children -> {"none", "started", "working", "zombie", "reaped"}]
      BY <1>2 DEF Fork, TypeOK
    <2>5. i' \in 0..N
      BY <1>2 DEF Fork, TypeOK
    <2> QED BY <1>2, <2>2, <2>3, <2>4, <2>5 DEF Fork, TypeOK
  <1>3. CASE ForkFails
    <2>1. buf' \in [Processes -> SUBSET Lines] /\ out' \in [Lines -> Nat]
      BY <1>3, PrintfExitType DEF ForkFails
    <2> QED BY <1>3, <2>1 DEF ForkFails, Reparent, TypeOK
  <1>4. CASE StartWaiting
    <2>1. <<"waiting", Parent>> \in Lines /\ Parent \in Processes
      BY LinesFacts
    <2>2. buf' \in [Processes -> SUBSET Lines] /\ out' \in [Lines -> Nat]
      BY <1>4, <2>1, PrintfType DEF StartWaiting
    <2> QED BY <1>4, <2>2 DEF StartWaiting, TypeOK
  <1>5. CASE WaitFails
    BY <1>5 DEF WaitFails, TypeOK
  <1>6. CASE Complete
    <2>1. buf' \in [Processes -> SUBSET Lines] /\ out' \in [Lines -> Nat]
      BY <1>6, PrintfExitType DEF Complete
    <2> QED BY <1>6, <2>1 DEF Complete, Reparent, TypeOK
  <1>7. ASSUME NEW c \in Children, WaitReaps(c) PROVE TypeOK'
    <2>1. <<"terminated", c>> \in Lines /\ Parent \in Processes
      BY <1>7, LinesFacts
    <2>2. buf' \in [Processes -> SUBSET Lines] /\ out' \in [Lines -> Nat]
      BY <1>7, <2>1, PrintfType DEF WaitReaps
    <2> QED BY <1>7, <2>2 DEF WaitReaps, TypeOK
  <1>8. ASSUME NEW c \in Children, ChildStart(c) PROVE TypeOK'
    <2>1. <<"started", c>> \in Lines /\ c \in Processes
      BY <1>8, LinesFacts
    <2>2. buf' \in [Processes -> SUBSET Lines] /\ out' \in [Lines -> Nat]
      BY <1>8, <2>1, PrintfType DEF ChildStart
    <2> QED BY <1>8, <2>2 DEF ChildStart, TypeOK
  <1>9. ASSUME NEW c \in Children, ChildExit(c) PROVE TypeOK'
    <2>1. buf' \in [Processes -> SUBSET Lines] /\ out' \in [Lines -> Nat]
      BY <1>9, PrintfExitType DEF ChildExit
    <2> QED BY <1>9, <2>1 DEF ChildExit, Ends, TypeOK
  <1>10. ASSUME NEW c \in Children, ChildKilled(c) PROVE TypeOK'
    BY <1>10 DEF ChildKilled, Ends, TypeOK
  <1>11. CASE UNCHANGED vars
    BY <1>11 DEF vars, TypeOK
  <1> QED
    BY <1>1, <1>2, <1>3, <1>4, <1>5, <1>6, <1>7, <1>8, <1>9, <1>10, <1>11
    DEF Next, Main, Child, Terminated

\* The children's invariant of the process table, step by step.
LEMMA ChildrenStep ==
  ASSUME IInv, [Next]_vars
  PROVE  ChildrenInv'
  <1> USE NAssumption DEF IInv, TypeOK, ChildrenInv, WaitInv, Forked,
          Children, Unset, Killed
  <1>1. CASE Start BY <1>1 DEF Start
  <1>2. CASE Fork BY <1>2 DEF Fork
  <1>3. CASE ForkFails BY <1>3 DEF ForkFails, Reparent
  <1>4. CASE StartWaiting BY <1>4 DEF StartWaiting
  <1>5. CASE WaitFails BY <1>5 DEF WaitFails
  <1>6. CASE Complete BY <1>6 DEF Complete, Reparent
  <1>7. ASSUME NEW c \in Children, WaitReaps(c) PROVE ChildrenInv'
    BY <1>7 DEF WaitReaps
  <1>8. ASSUME NEW c \in Children, ChildStart(c) PROVE ChildrenInv'
    BY <1>8 DEF ChildStart
  <1>9. ASSUME NEW c \in Children, ChildExit(c) \/ ChildKilled(c)
        PROVE  ChildrenInv'
    BY <1>9 DEF ChildExit, ChildKilled, Ends, ParentGone
  <1>10. CASE UNCHANGED vars BY <1>10 DEF vars
  <1> QED
    BY <1>1, <1>2, <1>3, <1>4, <1>5, <1>6, <1>7, <1>8, <1>9, <1>10
    DEF Next, Main, Child, Terminated

\* Reaped is a finite set of at most N children, and N of them are all.
LEMMA ReapedFacts ==
  ASSUME NEW S \in SUBSET Children
  PROVE  /\ IsFiniteSet(S) /\ Cardinality(S) \in Nat
         /\ Cardinality(Children) = N
         /\ Cardinality(S) = N => S = Children
  <1>1. IsFiniteSet(Children) /\ Cardinality(Children) = N
    BY FS_Interval, NAssumption DEF Children
  <1>2. IsFiniteSet(S)
    BY <1>1, FS_Subset
  <1>3. Cardinality(S) \in Nat
    BY <1>2, FS_CardinalityType
  <1>4. Cardinality(S) = N => S = Children
    BY <1>1, FS_Subset, NAssumption
  <1> QED BY <1>1, <1>2, <1>3, <1>4

\* A step that leaves the set of reaped children and the wait loop alone
\* keeps WaitInv.
LEMMA WaitStep ==
  ASSUME IInv, [Next]_vars
  PROVE  WaitInv'
  <1> USE NAssumption DEF IInv, TypeOK, WaitInv, Children, Unset, Killed
  <1>0. Reaped \in SUBSET Children
    BY DEF Reaped
  <1>1. CASE Start BY <1>1 DEF Start
  <1>2. CASE Fork BY <1>2 DEF Fork
  <1>3. CASE ForkFails BY <1>3 DEF ForkFails
  <1>4. CASE StartWaiting
    <2>1. ~ignored => Reaped' = {}
      BY <1>4 DEF StartWaiting, Reaped, ChildrenInv
    <2>2. ~ignored => Cardinality(Reaped') = 0
      BY <2>1, FS_EmptySet
    <2>3. i' = 0 /\ parent' = "wait" /\ ignored' = ignored
      BY <1>4 DEF StartWaiting
    <2> QED BY <2>2, <2>3
  <1>5. CASE WaitFails
    <2>1. Reaped = Children /\ Reaped' = Reaped
      BY <1>5 DEF WaitFails, Reaped
    <2>2. Cardinality(Reaped) = N
      BY <2>1, ReapedFacts DEF Reaped
    <2> QED BY <1>5, <2>1, <2>2 DEF WaitFails
  <1>6. CASE Complete BY <1>6 DEF Complete
  <1>7. ASSUME NEW c \in Children, WaitReaps(c) PROVE WaitInv'
    <2>1. Reaped' = Reaped \cup {c} /\ c \notin Reaped
      BY <1>7 DEF WaitReaps, Reaped
    <2>2. IsFiniteSet(Reaped)
      BY <1>0, ReapedFacts
    <2>3. Cardinality(Reaped') = Cardinality(Reaped) + 1
      BY <2>1, <2>2, FS_AddElement
    <2>4. ~ignored
      BY <1>7 DEF WaitReaps, ChildrenInv
    <2> QED BY <1>7, <2>3, <2>4 DEF WaitReaps
  <1>8. ASSUME NEW c \in Children,
               ChildStart(c) \/ ChildExit(c) \/ ChildKilled(c)
        PROVE  WaitInv'
    <2>1. i' = i /\ parent' = parent /\ ignored' = ignored
      BY <1>8 DEF ChildStart, ChildExit, ChildKilled
    <2>2. parent = "wait" /\ ~ignored => Reaped' = Reaped
      BY <1>8 DEF ChildStart, ChildExit, ChildKilled, Ends, ParentGone, Reaped
    <2>3. Reaped = Children => Reaped' = Children
      BY <1>8 DEF ChildStart, ChildExit, ChildKilled, Ends, Reaped
    <2> QED BY <2>1, <2>2, <2>3
  <1>9. CASE UNCHANGED vars BY <1>9 DEF vars, Reaped
  <1> QED
    BY <1>1, <1>2, <1>3, <1>4, <1>5, <1>6, <1>7, <1>8, <1>9
    DEF Next, Main, Child, Terminated

\* When the wait loop is over every child has been reaped.
LEMMA LoopOver ==
  ASSUME IInv, parent = "wait", i = N
  PROVE  Reaped = Children
  <1>1. CASE ignored BY <1>1, NAssumption DEF IInv, WaitInv
  <1>2. CASE ~ignored
    <2>1. Reaped \in SUBSET Children
      BY DEF Reaped
    <2> QED BY <1>2, <2>1, ReapedFacts DEF IInv, WaitInv
  <1> QED BY <1>1, <1>2

\* The parent reaches its last line only after every child was reaped, and
\* nothing happens to the children afterwards.
LEMMA CompletedStep ==
  ASSUME IInv, [Next]_vars
  PROVE  AllChildrenCompleted'
  <1> USE NAssumption DEF IInv, TypeOK, AllChildrenCompleted, Children, Unset, Killed
  <1>1. CASE Start BY <1>1 DEF Start
  <1>2. CASE Fork BY <1>2 DEF Fork
  <1>3. CASE ForkFails BY <1>3 DEF ForkFails
  <1>4. CASE StartWaiting BY <1>4 DEF StartWaiting
  <1>5. CASE WaitFails BY <1>5 DEF WaitFails
  <1>6. CASE Complete
    <2>1. \A c \in Children : st[c] = "reaped"
      BY <1>6, LoopOver DEF Complete, Reaped
    <2>2. \A c \in Children : st'[c] = "reaped" /\ status'[c] \in {c, Killed}
      BY <1>6, <2>1 DEF Complete, Reparent, ChildrenInv
    <2>3. \A c \in Children : reported'[c] = IF ignored' THEN Unset ELSE status'[c]
      BY <1>6, <2>1 DEF Complete, ChildrenInv
    <2> QED BY <2>2, <2>3
  <1>7. ASSUME NEW c \in Children, WaitReaps(c) PROVE AllChildrenCompleted'
    BY <1>7 DEF WaitReaps
  <1>8. ASSUME NEW c \in Children,
               ChildStart(c) \/ ChildExit(c) \/ ChildKilled(c)
        PROVE  AllChildrenCompleted'
    BY <1>8 DEF ChildStart, ChildExit, ChildKilled
  <1>9. CASE UNCHANGED vars BY <1>9 DEF vars
  <1> QED
    BY <1>1, <1>2, <1>3, <1>4, <1>5, <1>6, <1>7, <1>8, <1>9
    DEF Next, Main, Child, Terminated

\* The strengthening of AllChildrenCompleted holds throughout.
THEOREM Invariance == Spec => []IInv
  <1>1. Init => IInv
    <2> SUFFICES ASSUME Init PROVE IInv
      OBVIOUS
    <2>1. TypeOK
      BY NAssumption DEF Init, TypeOK, Children, Unset
    <2>2. ChildrenInv /\ WaitInv /\ AllChildrenCompleted
      BY NAssumption DEF Init, ChildrenInv, WaitInv, AllChildrenCompleted,
                         Forked, Children, Unset
    <2> QED BY <2>1, <2>2 DEF IInv
  <1>2. IInv /\ [Next]_vars => IInv'
    <2> SUFFICES ASSUME IInv, [Next]_vars PROVE IInv'
      OBVIOUS
    <2>1. TypeOK'
      BY TypeStep DEF IInv
    <2> QED BY <2>1, ChildrenStep, WaitStep, CompletedStep DEF IInv
  <1> QED BY <1>1, <1>2, PTL DEF Spec

\* For every number of children, "All children completed" is true when the
\* parent prints it and every status it reported is the child's own.
THEOREM AllChildrenCompletedCorrect == Spec => []AllChildrenCompleted
  <1>1. IInv => AllChildrenCompleted
    BY DEF IInv
  <1> QED BY <1>1, Invariance, PTL


-----------------------------------------------------------------------------
(* What is printed is written                                              *)

\* A line that process p has printed is written or still in its buffer.
Kept(p, l) == out[l] > 0 \/ l \in buf[p]

\* No line of a process that goes on is lost, none of one that has exited is
\* missing.
KeptInv ==
  /\ parent \in {"fork", "wait"}
       => \A c \in Children : c <= Forked => Kept(Parent, <<"created", c>>)
  /\ parent = "wait" /\ ~ignored
       => \A c \in Children : st[c] = "reaped" => Kept(Parent, <<"terminated", c>>)
  /\ parent = "exited"
       => /\ out[<<"completed", Parent>>] > 0
          /\ \A c \in Children : /\ out[<<"created", c>>] > 0
                                 /\ ~ignored => out[<<"terminated", c>>] > 0
  /\ \A c \in Children :
       /\ st[c] = "working" => Kept(c, <<"started", c>>)
       /\ status[c] = c => out[<<"started", c>>] > 0 /\ out[<<"exiting", c>>] > 0

\* The same of the parent's lines that belong to no child, and of those it has
\* printed when a fork() fails.
ParentInv ==
  /\ parent \in {"fork", "wait"} => Kept(Parent, <<"hello", Parent>>)
  /\ parent = "wait" => Kept(Parent, <<"waiting", Parent>>)
  /\ parent = "exited" => out[<<"waiting", Parent>>] > 0
  /\ parent \in {"exited", "failed"} =>
       /\ out[<<"hello", Parent>>] > 0
       /\ \A c \in Children : c <= Forked => out[<<"created", c>>] > 0

\* The lines whose printf() is still to come.
ToCome(l) ==
  \/ l = <<"hello", Parent>> /\ parent = "start"
  \/ l = <<"waiting", Parent>> /\ parent \in {"start", "fork"}
  \/ l = <<"completed", Parent>> /\ parent # "exited"
  \/ \E c \in Children :
       \/ l = <<"created", c>> /\ c > Forked
       \/ l = <<"started", c>> /\ st[c] \in {"none", "started"}
       \/ l = <<"exiting", c>> /\ st[c] \in {"none", "started", "working"}
       \/ l = <<"terminated", c>> /\ st[c] # "reaped"

\* On a terminal nothing is buffered, and each printf() runs once.
OnceInv ==
  tty => /\ \A p \in Processes : buf[p] = {}
         /\ \A l \in Lines : out[l] <= IF ToCome(l) THEN 0 ELSE 1

OutInv == KeptInv /\ ParentInv /\ OnceInv

\* What printf() does to the lines that are kept and, on a terminal, written.
LEMMA PrintfLines ==
  ASSUME TypeOK, NEW p \in Processes, NEW l \in Lines, Printf(p, l)
  PROVE  /\ \A q \in Processes : \A m \in Lines : Kept(q, m) => Kept(q, m)'
         /\ \A m \in Lines : out[m] > 0 => out'[m] > 0
         /\ out'[l] > 0 \/ l \in buf'[p]
         /\ tty => /\ buf' = buf
                   /\ \A m \in Lines : out'[m] = IF m \in {l} THEN out[m] + 1 ELSE out[m]
  <1>1. CASE tty
    <2>1. buf' = buf /\ \A m \in Lines : out'[m] = IF m \in {l} THEN out[m] + 1 ELSE out[m]
      BY <1>1 DEF Printf, Written
    <2>2. \A m \in Lines : out[m] \in Nat
      BY DEF TypeOK
    <2>3. \A m \in Lines : out[m] > 0 => out'[m] > 0
      BY <2>1, <2>2
    <2>4. out'[l] > 0
      BY <2>1, <2>2
    <2> QED BY <2>1, <2>3, <2>4 DEF Kept
  <1>2. CASE ~tty
    <2>1. out' = out /\ buf' = [buf EXCEPT ![p] = buf[p] \cup {l}]
      BY <1>2 DEF Printf
    <2> QED BY <1>2, <2>1 DEF Kept, TypeOK
  <1> QED BY <1>1, <1>2

\* What the flush of exit() does to them.
LEMMA PrintfExitLines ==
  ASSUME TypeOK, NEW p \in Processes, NEW ls \in SUBSET Lines, PrintfExit(p, ls)
  PROVE  /\ \A q \in Processes \ {p} : \A m \in Lines : Kept(q, m) => Kept(q, m)'
         /\ \A m \in Lines : out[m] > 0 => out'[m] > 0
         /\ \A m \in Lines : Kept(p, m) \/ m \in ls => out'[m] > 0
         /\ buf[p] = {} => /\ buf' = buf
                           /\ \A m \in Lines : out'[m] = IF m \in ls THEN out[m] + 1 ELSE out[m]
  <1>1. \A m \in Lines : out'[m] = IF m \in buf[p] \cup ls THEN out[m] + 1 ELSE out[m]
    BY DEF PrintfExit, Written
  <1>2. \A m \in Lines : out[m] \in Nat
    BY DEF TypeOK
  <1>3. \A m \in Lines : out[m] > 0 => out'[m] > 0
    BY <1>1, <1>2
  <1>4. \A m \in Lines : m \in buf[p] \cup ls => out'[m] > 0
    BY <1>1, <1>2
  <1>5. buf' = [buf EXCEPT ![p] = {}]
    BY DEF PrintfExit
  <1>6. \A q \in Processes \ {p} : \A m \in Lines : Kept(q, m) => Kept(q, m)'
    BY <1>3, <1>5 DEF Kept, TypeOK
  <1>7. buf[p] = {} => buf' = buf
    BY <1>5 DEF TypeOK
  <1>8. \A m \in Lines : Kept(p, m) \/ m \in ls => out'[m] > 0
    BY <1>3, <1>4 DEF Kept
  <1> QED BY <1>1, <1>3, <1>6, <1>7, <1>8

\* The lines of different printf() calls are different.
LEMMA LinesDiffer ==
  /\ \A a, b \in {"created", "started", "exiting", "terminated"} :
       \A c, d \in Children : <<a, c>> = <<b, d>> => a = b /\ c = d
  /\ \A a, b \in {"hello", "waiting", "completed"} : <<a, Parent>> = <<b, Parent>> => a = b
  /\ \A a \in {"hello", "waiting", "completed"} :
       \A b \in {"created", "started", "exiting", "terminated"} :
         \A c \in Children : <<a, Parent>> # <<b, c>>
  OBVIOUS

\* Lines that no step prints again keep their count.
LEMMA OnceKept ==
  ASSUME TypeOK, OnceInv, tty' = tty, NEW ls,
         tty => buf' = buf,
         tty => \A l \in Lines : out'[l] = IF l \in ls THEN out[l] + 1 ELSE out[l],
         \A l \in Lines : ToCome(l)' => ToCome(l) /\ l \notin ls,
         \A l \in Lines : l \in ls => ToCome(l)
  PROVE  OnceInv'
  <1> SUFFICES ASSUME tty PROVE (\A p \in Processes : buf'[p] = {})
                                /\ \A l \in Lines : out'[l] <= IF ToCome(l)' THEN 0 ELSE 1
    BY DEF OnceInv
  <1>1. \A p \in Processes : buf'[p] = {}
    BY DEF OnceInv
  <1>2. ASSUME NEW l \in Lines PROVE out'[l] <= IF ToCome(l)' THEN 0 ELSE 1
    <2>1. out[l] \in Nat /\ out[l] <= IF ToCome(l) THEN 0 ELSE 1
      BY DEF TypeOK, OnceInv
    <2>2. CASE l \in ls
      <3>1. ToCome(l) /\ ~ToCome(l)' /\ out'[l] = out[l] + 1
        BY <2>2
      <3> QED BY <2>1, <3>1
    <2>3. CASE l \notin ls
      <3>1. out'[l] = out[l] /\ (ToCome(l)' => ToCome(l))
        BY <2>3
      <3> QED BY <2>1, <3>1
    <2> QED BY <2>2, <2>3
  <1> QED BY <1>1, <1>2

\* No step loses a line that was printed, but for those of a child that is
\* killed; exit() writes what is left.
LEMMA KeptStep ==
  ASSUME IInv, KeptInv, [Next]_vars
  PROVE  KeptInv'
  <1> USE NAssumption DEF Children, Processes, Parent, Unset, Killed
  <1>0. TypeOK
    BY DEF IInv
  <1>1. CASE Start
    <2>1. <<"hello", Parent>> \in Lines /\ Parent \in Processes
      BY LinesFacts
    <2>2. /\ \A q \in Processes : \A m \in Lines : Kept(q, m) => Kept(q, m)'
          /\ \A m \in Lines : out[m] > 0 => out'[m] > 0
      BY <1>0, <1>1, <2>1, PrintfLines DEF Start
    <2>3. parent' = "fork" /\ UNCHANGED <<st, status, ignored>> /\ Forked' = 0
      BY <1>1 DEF Start, IInv, WaitInv, Forked
    <2>4. \A c \in Children : ~(c <= 0)
      OBVIOUS
    <2>5. \A c \in Children :
            /\ st'[c] = "working" => Kept(c, <<"started", c>>)'
            /\ status'[c] = c => out'[<<"started", c>>] > 0 /\ out'[<<"exiting", c>>] > 0
      BY <2>2, <2>3, LinesFacts DEF KeptInv
    <2> QED BY <2>3, <2>4, <2>5 DEF KeptInv
  <1>2. CASE Fork
    <2>0. i + 1 \in Children /\ Forked = i /\ Forked' = i + 1 /\ parent = "fork" /\ parent' = "fork"
      BY <1>0, <1>2 DEF Fork, TypeOK, Forked
    <2>1. <<"created", i + 1>> \in Lines
      BY <2>0, LinesFacts, Zenon
    <2>2. \A m \in Lines : out[m] \in Nat
      BY <1>0 DEF TypeOK
    <2>3. /\ \A m \in Lines : out[m] > 0 => out'[m] > 0
          /\ tty => out'[<<"created", i + 1>>] > 0
      <3>1. CASE tty
        <4>1. \A m \in Lines : out'[m] = IF m \in {<<"created", i + 1>>} THEN out[m] + 1 ELSE out[m]
          BY <1>2, <3>1 DEF Fork, Written
        <4> QED BY <2>1, <2>2, <4>1
      <3>2. CASE ~tty
        BY <1>2, <3>2 DEF Fork
      <3> QED BY <3>1, <3>2
    <2>4. /\ \A q \in Children \ {i + 1} : buf'[q] = buf[q]
          /\ buf[Parent] \subseteq buf'[Parent]
          /\ ~tty => <<"created", i + 1>> \in buf'[Parent]
      <3>1. PICK b \in SUBSET Lines :
              /\ buf' = [buf EXCEPT ![i + 1] = buf[Parent], ![Parent] = b]
              /\ b = IF tty THEN buf[Parent] ELSE buf[Parent] \cup {<<"created", i + 1>>}
        BY <1>0, <1>2, <2>1 DEF Fork, TypeOK
      <3>2. /\ i + 1 \in Processes /\ Parent \in Processes
            /\ \A q \in Children : q \in Processes /\ q # Parent
        BY <2>0
      <3> HIDE DEF Children, Processes, Parent
      <3>3. buf'[Parent] = b /\ \A q \in Children \ {i + 1} : buf'[q] = buf[q]
        <4>1. buf \in [Processes -> SUBSET Lines]
          BY <1>0 DEF TypeOK
        <4> QED BY <3>1, <3>2, <4>1
      <3>4. buf[Parent] \subseteq b /\ (~tty => <<"created", i + 1>> \in b)
        BY <3>1, Zenon
      <3> QED BY <3>3, <3>4, Zenon
    <2>5. /\ \A c \in Children \ {i + 1} : st'[c] = st[c]
          /\ st'[i + 1] = "started" /\ UNCHANGED <<status, ignored>>
      BY <1>0, <1>2, <2>0 DEF Fork, TypeOK
    <2>6. \A c \in Children : c <= i + 1 => c <= i \/ c = i + 1
      BY <1>0 DEF TypeOK
    <2>7. \A c \in Children : c <= Forked' => Kept(Parent, <<"created", c>>)'
      BY <2>0, <2>1, <2>3, <2>4, <2>6, LinesFacts DEF KeptInv, Kept
    <2>8. \A c \in Children :
            /\ st'[c] = "working" => Kept(c, <<"started", c>>)'
            /\ status'[c] = c => out'[<<"started", c>>] > 0 /\ out'[<<"exiting", c>>] > 0
      BY <2>3, <2>4, <2>5, LinesFacts DEF KeptInv, Kept
    <2> QED BY <2>0, <2>7, <2>8 DEF KeptInv
  <1>3. CASE ForkFails \/ Complete
    <2> DEFINE ls == IF parent = "wait" THEN {<<"completed", Parent>>} ELSE {}
    <2>1. ls \in SUBSET Lines /\ PrintfExit(Parent, ls)
      BY <1>3, LinesFacts DEF ForkFails, Complete
    <2>2. /\ \A q \in Processes \ {Parent} : \A m \in Lines : Kept(q, m) => Kept(q, m)'
          /\ \A m \in Lines : out[m] > 0 => out'[m] > 0
          /\ \A m \in Lines : Kept(Parent, m) \/ m \in ls => out'[m] > 0
      <3> HIDE DEF ls
      <3> QED BY <1>0, <2>1, PrintfExitLines
    <2>3. /\ \A c \in Children : st'[c] = "working" => st[c] = "working"
          /\ UNCHANGED <<status, ignored>> /\ parent' \in {"failed", "exited"}
      BY <1>0, <1>3 DEF ForkFails, Complete, Reparent, TypeOK
    <2>4. \A c \in Children : c # Parent
      OBVIOUS
    <2>5. \A c \in Children :
            /\ st'[c] = "working" => Kept(c, <<"started", c>>)'
            /\ status'[c] = c => out'[<<"started", c>>] > 0 /\ out'[<<"exiting", c>>] > 0
      BY <2>2, <2>3, <2>4, LinesFacts DEF KeptInv
    <2>6. ASSUME Complete
          PROVE  /\ out'[<<"completed", Parent>>] > 0
                 /\ \A c \in Children : /\ out'[<<"created", c>>] > 0
                                        /\ ~ignored => out'[<<"terminated", c>>] > 0
      <3>1. parent = "wait" /\ i = N /\ ls = {<<"completed", Parent>>} /\ Forked = N
        BY <2>6 DEF Complete, Forked
      <3>2. \A c \in Children : st[c] = "reaped" /\ c <= Forked
        BY <3>1, LoopOver DEF Reaped
      <3>3. \A c \in Children : /\ Kept(Parent, <<"created", c>>)
                                /\ ~ignored => Kept(Parent, <<"terminated", c>>)
        BY <3>1, <3>2 DEF KeptInv
      <3> QED BY <2>2, <3>1, <3>3, LinesFacts
    <2> QED BY <1>3, <2>3, <2>5, <2>6 DEF KeptInv, ForkFails, Complete
  <1>4. CASE StartWaiting
    <2>1. <<"waiting", Parent>> \in Lines /\ Parent \in Processes
      BY LinesFacts
    <2>2. /\ \A q \in Processes : \A m \in Lines : Kept(q, m) => Kept(q, m)'
          /\ \A m \in Lines : out[m] > 0 => out'[m] > 0
      BY <1>0, <1>4, <2>1, PrintfLines DEF StartWaiting
    <2>3. parent' = "wait" /\ UNCHANGED <<st, status, ignored>> /\ Forked' = N /\ Forked = N
      BY <1>4 DEF StartWaiting, Forked
    <2>4. ~ignored => \A c \in Children : st[c] # "reaped"
      BY <1>4 DEF StartWaiting, IInv, ChildrenInv
    <2>5. parent = "fork"
      BY <1>4 DEF StartWaiting
    <2> QED BY <2>2, <2>3, <2>4, <2>5, LinesFacts DEF KeptInv
  <1>5. CASE WaitFails
    <2>1. UNCHANGED <<parent, ignored, st, status, buf, out>> /\ Forked' = Forked
      BY <1>5 DEF WaitFails, Forked
    <2> QED BY <2>1 DEF KeptInv, Kept
  <1>6. ASSUME NEW c \in Children, WaitReaps(c) PROVE KeptInv'
    <2>1. <<"terminated", c>> \in Lines /\ Parent \in Processes
      BY <1>6, LinesFacts
    <2>2. /\ \A q \in Processes : \A m \in Lines : Kept(q, m) => Kept(q, m)'
          /\ \A m \in Lines : out[m] > 0 => out'[m] > 0
          /\ out'[<<"terminated", c>>] > 0 \/ <<"terminated", c>> \in buf'[Parent]
      BY <1>0, <1>6, <2>1, PrintfLines DEF WaitReaps
    <2>3. /\ parent = "wait" /\ parent' = "wait" /\ UNCHANGED <<status, ignored>>
          /\ Forked' = N /\ Forked = N
          /\ \A d \in Children : d # c => st'[d] = st[d]
          /\ st'[c] = "reaped"
      BY <1>0, <1>6 DEF WaitReaps, Forked, TypeOK
    <2>4. Kept(Parent, <<"terminated", c>>)'
      BY <2>2 DEF Kept
    <2> QED BY <2>2, <2>3, <2>4, LinesFacts DEF KeptInv
  <1>7. ASSUME NEW c \in Children, ChildStart(c) PROVE KeptInv'
    <2>1. <<"started", c>> \in Lines /\ c \in Processes
      BY <1>7, LinesFacts
    <2>2. /\ \A q \in Processes : \A m \in Lines : Kept(q, m) => Kept(q, m)'
          /\ \A m \in Lines : out[m] > 0 => out'[m] > 0
          /\ out'[<<"started", c>>] > 0 \/ <<"started", c>> \in buf'[c]
      BY <1>0, <1>7, <2>1, PrintfLines DEF ChildStart
    <2>3. /\ UNCHANGED <<parent, status, ignored>> /\ Forked' = Forked
          /\ \A d \in Children : d # c => st'[d] = st[d]
          /\ st'[c] = "working"
      BY <1>0, <1>7 DEF ChildStart, Forked, TypeOK
    <2>4. Kept(c, <<"started", c>>)'
      BY <2>2 DEF Kept
    <2> QED BY <2>2, <2>3, <2>4, LinesFacts DEF KeptInv
  <1>8. ASSUME NEW c \in Children, ChildExit(c) PROVE KeptInv'
    <2>1. {<<"exiting", c>>} \in SUBSET Lines /\ c \in Processes
      BY <1>8, LinesFacts
    <2>2. /\ \A q \in Processes \ {c} : \A m \in Lines : Kept(q, m) => Kept(q, m)'
          /\ \A m \in Lines : out[m] > 0 => out'[m] > 0
          /\ \A m \in Lines : Kept(c, m) \/ m \in {<<"exiting", c>>} => out'[m] > 0
      BY <1>0, <1>8, <2>1, PrintfExitLines DEF ChildExit
    <2>3. /\ UNCHANGED <<parent, ignored>> /\ Forked' = Forked
          /\ \A d \in Children : d # c => st'[d] = st[d] /\ status'[d] = status[d]
          /\ st[c] = "working" /\ st'[c] \in {"zombie", "reaped"}
          /\ parent = "wait" /\ ~ignored => st'[c] = "zombie"
      BY <1>0, <1>8 DEF ChildExit, Ends, ParentGone, Forked, TypeOK
    <2>4. out'[<<"started", c>>] > 0 /\ out'[<<"exiting", c>>] > 0
      BY <1>8, <2>2, <2>3, LinesFacts DEF KeptInv
    <2>5. Parent # c /\ Parent \in Processes
      BY <1>8
    <2>6. \A d \in Children :
            /\ st'[d] = "working" => Kept(d, <<"started", d>>)'
            /\ status'[d] = d => out'[<<"started", d>>] > 0 /\ out'[<<"exiting", d>>] > 0
      BY <2>2, <2>3, <2>4, LinesFacts DEF KeptInv
    <2> QED BY <2>2, <2>3, <2>5, <2>6, LinesFacts DEF KeptInv
  <1>9. ASSUME NEW c \in Children, ChildKilled(c) PROVE KeptInv'
    <2>1. \A q \in Processes \ {c} : \A m \in Lines : Kept(q, m) => Kept(q, m)'
      BY <1>0, <1>9 DEF ChildKilled, Kept, TypeOK
    <2>2. /\ UNCHANGED <<parent, ignored, out>> /\ Forked' = Forked
          /\ \A d \in Children : d # c => st'[d] = st[d] /\ status'[d] = status[d]
          /\ st'[c] \in {"zombie", "reaped"} /\ status'[c] # c
          /\ parent = "wait" /\ ~ignored => st'[c] = "zombie"
      BY <1>0, <1>9 DEF ChildKilled, Ends, ParentGone, Forked, TypeOK
    <2>3. Parent # c /\ Parent \in Processes
      BY <1>9
    <2> QED BY <2>1, <2>2, <2>3, LinesFacts, ZenonT(60) DEF KeptInv
  <1>10. CASE UNCHANGED vars
    BY <1>10 DEF vars, KeptInv, Kept, Forked
  <1> QED
    BY <1>1, <1>2, <1>3, <1>4, <1>5, <1>6, <1>7, <1>8, <1>9, <1>10
    DEF Next, Main, Child, Terminated

\* No step takes back what the parent has printed.
LEMMA ParentKeeps ==
  ASSUME IInv, [Next]_vars
  PROVE  /\ \A m \in Lines : out[m] > 0 => out'[m] > 0
         /\ \A m \in Lines : Kept(Parent, m) => Kept(Parent, m)'
  <1> USE NAssumption DEF Children, Processes, Parent
  <1>0. TypeOK
    BY DEF IInv
  <1>1. CASE \E p \in Processes, l \in Lines : Printf(p, l)
    BY <1>0, <1>1, PrintfLines
  <1>2. CASE \E p \in Processes, ls \in SUBSET Lines : PrintfExit(p, ls)
    <2>1. PICK p \in Processes, ls \in SUBSET Lines : PrintfExit(p, ls)
      BY <1>2
    <2>2. \A m \in Lines : out[m] > 0 => out'[m] > 0
      BY <1>0, <2>1, PrintfExitLines
    <2>3. CASE p = Parent
      <3>1. \A m \in Lines : Kept(p, m) => out'[m] > 0
        BY <1>0, <2>1, PrintfExitLines
      <3> QED BY <2>2, <2>3, <3>1 DEF Kept
    <2>4. CASE p # Parent
      BY <1>0, <2>1, <2>2, <2>4, PrintfExitLines
    <2> QED BY <2>3, <2>4
  <1>3. CASE UNCHANGED <<buf, out>>
    BY <1>3 DEF Kept
  <1>4. CASE Fork
    <2>1. i + 1 \in Children /\ i + 1 # Parent
      BY <1>0, <1>4 DEF Fork, TypeOK
    <2>2. \A m \in Lines : out[m] > 0 => out'[m] > 0
      <3>1. \A m \in Lines : out[m] \in Nat
        BY <1>0 DEF TypeOK
      <3>2. \A m \in Lines : out'[m] \in {out[m], out[m] + 1}
        BY <1>4 DEF Fork, Written
      <3> QED BY <3>1, <3>2
    <2>3. buf[Parent] \subseteq buf'[Parent]
      BY <1>0, <1>4, <2>1 DEF Fork, TypeOK
    <2> QED BY <2>2, <2>3 DEF Kept
  <1>5. ASSUME NEW c \in Children, ChildKilled(c)
        PROVE  out' = out /\ buf'[Parent] = buf[Parent]
    BY <1>0, <1>5 DEF ChildKilled, TypeOK
  <1>6. CASE \E c \in Children : ChildKilled(c)
    BY <1>5, <1>6 DEF Kept
  <1>7. CASE Main
    <2>1. CASE Start BY <1>1, <2>1, LinesFacts DEF Start
    <2>2. CASE StartWaiting BY <1>1, <2>2, LinesFacts DEF StartWaiting
    <2>3. CASE ForkFails BY <1>2, <2>3 DEF ForkFails
    <2>4. CASE Complete BY <1>2, <2>4, LinesFacts DEF Complete
    <2>5. CASE WaitFails BY <1>3, <2>5 DEF WaitFails
    <2>6. CASE \E c \in Children : WaitReaps(c) BY <1>1, <2>6, LinesFacts DEF WaitReaps
    <2> QED BY <1>4, <1>7, <2>1, <2>2, <2>3, <2>4, <2>5, <2>6 DEF Main
  <1>8. CASE \E c \in Children : Child(c)
    <2>1. PICK c \in Children : Child(c)
      BY <1>8
    <2>2. CASE ChildStart(c) BY <1>1, <2>2, LinesFacts DEF ChildStart
    <2>3. CASE ChildExit(c) BY <1>2, <2>3, LinesFacts DEF ChildExit
    <2> QED BY <2>1, <2>2, <2>3 DEF Child
  <1>9. CASE UNCHANGED vars
    BY <1>3, <1>9 DEF vars
  <1> QED BY <1>6, <1>7, <1>8, <1>9 DEF Next, Terminated

\* The parent's own lines, at every step of its code.
LEMMA ParentStep ==
  ASSUME IInv, KeptInv, ParentInv, [Next]_vars
  PROVE  ParentInv'
  <1> USE DEF Parent
  <1>0. TypeOK
    BY DEF IInv
  <1>1. /\ \A m \in Lines : out[m] > 0 => out'[m] > 0
        /\ \A m \in Lines : Kept(Parent, m) => Kept(Parent, m)'
    BY ParentKeeps
  <1>2. /\ <<"hello", Parent>> \in Lines /\ <<"waiting", Parent>> \in Lines
        /\ \A c \in Children : <<"created", c>> \in Lines
        /\ Parent \in Processes
    BY LinesFacts DEF Processes
  <1>3. CASE Start
    <2>1. Kept(Parent, <<"hello", Parent>>)'
      BY <1>0, <1>2, <1>3, PrintfLines DEF Start, Kept
    <2> QED BY <1>3, <2>1 DEF Start, ParentInv
  <1>4. CASE StartWaiting
    <2>1. Kept(Parent, <<"waiting", Parent>>)'
      BY <1>0, <1>2, <1>4, PrintfLines DEF StartWaiting, Kept
    <2> QED BY <1>1, <1>2, <1>4, <2>1 DEF StartWaiting, ParentInv
  <1>5. CASE ForkFails
    <2>1. \A m \in Lines : Kept(Parent, m) => out'[m] > 0
      BY <1>0, <1>2, <1>5, PrintfExitLines DEF ForkFails
    <2>2. parent = "fork" /\ parent' = "failed" /\ Forked' = Forked
      BY <1>5 DEF ForkFails, Forked
    <2>3. \A c \in Children : c <= Forked => Kept(Parent, <<"created", c>>)
      BY <2>2 DEF KeptInv
    <2> QED BY <1>2, <2>1, <2>2, <2>3 DEF ParentInv
  <1>6. CASE Complete
    <2>1. /\ PrintfExit(Parent, {<<"completed", Parent>>})
          /\ {<<"completed", Parent>>} \in SUBSET Lines
      BY <1>6, LinesFacts DEF Complete
    <2>2. \A m \in Lines : Kept(Parent, m) => out'[m] > 0
      BY <1>0, <1>2, <2>1, PrintfExitLines
    <2>3. parent = "wait" /\ parent' = "exited" /\ Forked' = Forked
      BY <1>6 DEF Complete, Forked
    <2>4. \A c \in Children : c <= Forked => Kept(Parent, <<"created", c>>)
      BY <2>3 DEF KeptInv
    <2> QED BY <1>2, <2>2, <2>3, <2>4 DEF ParentInv
  <1>7. CASE UNCHANGED parent /\ (parent \in {"exited", "failed"} => UNCHANGED i)
    <2>1. parent \in {"exited", "failed"} => Forked' = Forked
      BY <1>7 DEF Forked
    <2> QED BY <1>1, <1>2, <1>7, <2>1 DEF ParentInv
  <1>8. CASE Main
    BY <1>3, <1>4, <1>5, <1>6, <1>7, <1>8 DEF Main, Fork, WaitFails, WaitReaps
  <1>9. CASE \E c \in Children : Child(c) \/ ChildKilled(c)
    BY <1>7, <1>9 DEF Child, ChildStart, ChildExit, ChildKilled
  <1>10. CASE UNCHANGED vars
    BY <1>7, <1>10 DEF vars
  <1> QED BY <1>8, <1>9, <1>10 DEF Next, Terminated

\* The printf() calls lie ahead of each process in the order of its code.
LEMMA OnceStep ==
  ASSUME IInv, OnceInv, [Next]_vars
  PROVE  OnceInv'
  <1> USE NAssumption DEF Children, Processes, Parent, Unset, Killed
  <1>0. TypeOK /\ ChildrenInv
    BY DEF IInv
  <1>1. CASE Start
    <2> DEFINE l == <<"hello", Parent>>
    <2>1. l \in Lines /\ tty' = tty
      BY <1>1, LinesFacts DEF Start
    <2>2. tty => buf' = buf /\ \A m \in Lines : out'[m] = IF m \in {l} THEN out[m] + 1 ELSE out[m]
      BY <1>0, <1>1, <2>1, PrintfLines DEF Start
    <2>3. parent = "start" /\ parent' = "fork" /\ st' = st /\ Forked' = Forked
      BY <1>1 DEF Start, Forked
    <2>4. \A m \in Lines : ToCome(m)' => ToCome(m)
      BY <2>3 DEF ToCome
    <2>5. ToCome(l)
      BY <2>3 DEF ToCome
    <2>6. \A m \in Lines : ToCome(m)' => m \notin {l}
      BY <2>3, LinesDiffer DEF ToCome
    <2> HIDE DEF l
    <2> QED BY <1>0, <2>1, <2>2, <2>4, <2>5, <2>6, OnceKept
  <1>2. CASE Fork
    <2> DEFINE l == <<"created", i + 1>>
    <2>0. /\ i + 1 \in Children /\ Forked = i /\ Forked' = i + 1 /\ tty' = tty
          /\ parent = "fork" /\ parent' = parent
      BY <1>0, <1>2 DEF Fork, TypeOK, Forked
    <2>1. l \in Lines
      BY <2>0, LinesFacts, Zenon
    <2>2. OnceInv /\ tty => buf' = buf
      <3> SUFFICES ASSUME OnceInv, tty PROVE buf' = buf
        OBVIOUS
      <3>1. \A p \in Processes : buf[p] = {}
        BY DEF OnceInv
      <3> QED BY <1>0, <1>2, <3>1 DEF Fork, TypeOK
    <2>3. tty => \A m \in Lines : out'[m] = IF m \in {l} THEN out[m] + 1 ELSE out[m]
      BY <1>2 DEF Fork, Written
    <2>4. /\ st[i + 1] = "none" /\ st'[i + 1] = "started"
          /\ \A c \in Children : c # i + 1 => st'[c] = st[c]
      BY <1>0, <1>2, <2>0 DEF Fork, TypeOK, ChildrenInv
    <2>5. /\ \A c \in Children : c > i + 1 => c > i
          /\ i + 1 > i /\ ~(i + 1 > i + 1)
      BY <1>0 DEF TypeOK
    <2>6. \A m \in Lines : ToCome(m)' => ToCome(m)
      BY <2>0, <2>4, <2>5 DEF ToCome
    <2>7. ToCome(l)
      BY <2>0, <2>5 DEF ToCome
    <2>8. \A m \in Lines : ToCome(m)' => m \notin {l}
      BY <2>0, <2>5, LinesDiffer DEF ToCome
    <2> HIDE DEF l
    <2> QED BY <1>0, <2>0, <2>1, <2>2, <2>3, <2>6, <2>7, <2>8, OnceKept
  <1>3. CASE ForkFails \/ Complete
    <2> DEFINE ls == IF parent = "wait" THEN {<<"completed", Parent>>} ELSE {}
    <2>1. ls \in SUBSET Lines /\ PrintfExit(Parent, ls) /\ tty' = tty
      BY <1>3, LinesFacts DEF ForkFails, Complete
    <2>2. tty => /\ buf' = buf
                 /\ \A m \in Lines : out'[m] = IF m \in ls THEN out[m] + 1 ELSE out[m]
      <3> HIDE DEF ls
      <3>1. tty => buf[Parent] = {}
        BY DEF OnceInv
      <3> QED BY <1>0, <2>1, <3>1, PrintfExitLines
    <2>3. /\ \A c \in Children : st'[c] = st[c] \/ st'[c] = "reaped"
          /\ Forked' = Forked /\ parent \in {"fork", "wait"}
          /\ parent' = IF parent = "wait" THEN "exited" ELSE "failed"
      BY <1>0, <1>3 DEF ForkFails, Complete, Reparent, TypeOK, Forked
    <2>4. \A m \in Lines : ToCome(m)' => ToCome(m)
      BY <2>3 DEF ToCome
    <2>5. \A m \in Lines : m \in ls => ToCome(m)
      BY <2>3 DEF ToCome
    <2>6. \A m \in Lines : ToCome(m)' => m \notin ls
      BY <2>3, LinesDiffer DEF ToCome
    <2> HIDE DEF ls
    <2> QED BY <1>0, <2>1, <2>2, <2>4, <2>5, <2>6, OnceKept
  <1>4. CASE StartWaiting
    <2> DEFINE l == <<"waiting", Parent>>
    <2>1. l \in Lines /\ tty' = tty
      BY <1>4, LinesFacts DEF StartWaiting
    <2>2. tty => buf' = buf /\ \A m \in Lines : out'[m] = IF m \in {l} THEN out[m] + 1 ELSE out[m]
      BY <1>0, <1>4, <2>1, PrintfLines DEF StartWaiting
    <2>3. parent = "fork" /\ parent' = "wait" /\ st' = st /\ Forked' = Forked
      BY <1>4 DEF StartWaiting, Forked
    <2>4. \A m \in Lines : ToCome(m)' => ToCome(m)
      BY <2>3 DEF ToCome
    <2>5. ToCome(l)
      BY <2>3 DEF ToCome
    <2>6. \A m \in Lines : ToCome(m)' => m \notin {l}
      BY <2>3, LinesDiffer DEF ToCome
    <2> HIDE DEF l
    <2> QED BY <1>0, <2>1, <2>2, <2>4, <2>5, <2>6, OnceKept
  <1>5. CASE WaitFails \/ UNCHANGED vars
    <2>1. UNCHANGED <<tty, parent, st, buf, out>> /\ Forked' = Forked
      BY <1>5 DEF WaitFails, Forked, vars
    <2> QED BY <2>1 DEF OnceInv, ToCome
  <1>6. ASSUME NEW c \in Children, WaitReaps(c) PROVE OnceInv'
    <2> DEFINE l == <<"terminated", c>>
    <2>1. l \in Lines /\ tty' = tty
      BY <1>6, LinesFacts DEF WaitReaps
    <2>2. tty => buf' = buf /\ \A m \in Lines : out'[m] = IF m \in {l} THEN out[m] + 1 ELSE out[m]
      BY <1>0, <1>6, <2>1, PrintfLines DEF WaitReaps
    <2>3. /\ parent' = parent /\ Forked' = Forked /\ st[c] = "zombie" /\ st'[c] = "reaped"
          /\ \A d \in Children : d # c => st'[d] = st[d]
      BY <1>0, <1>6 DEF WaitReaps, Forked, TypeOK
    <2>4. \A m \in Lines : ToCome(m)' => ToCome(m)
      BY <2>3 DEF ToCome
    <2>5. ToCome(l)
      BY <2>3 DEF ToCome
    <2>6. \A m \in Lines : ToCome(m)' => m \notin {l}
      BY <2>3, LinesDiffer DEF ToCome
    <2> HIDE DEF l
    <2> QED BY <1>0, <2>1, <2>2, <2>4, <2>5, <2>6, OnceKept
  <1>7. ASSUME NEW c \in Children, ChildStart(c) PROVE OnceInv'
    <2> DEFINE l == <<"started", c>>
    <2>1. l \in Lines /\ tty' = tty
      BY <1>7, LinesFacts DEF ChildStart
    <2>2. tty => buf' = buf /\ \A m \in Lines : out'[m] = IF m \in {l} THEN out[m] + 1 ELSE out[m]
      BY <1>0, <1>7, <2>1, PrintfLines DEF ChildStart
    <2>3. /\ parent' = parent /\ Forked' = Forked /\ st[c] = "started" /\ st'[c] = "working"
          /\ \A d \in Children : d # c => st'[d] = st[d]
      BY <1>0, <1>7 DEF ChildStart, Forked, TypeOK
    <2>4. \A m \in Lines : ToCome(m)' => ToCome(m)
      BY <2>3 DEF ToCome
    <2>5. ToCome(l)
      BY <2>3 DEF ToCome
    <2>6. \A m \in Lines : ToCome(m)' => m \notin {l}
      BY <2>3, LinesDiffer DEF ToCome
    <2> HIDE DEF l
    <2> QED BY <1>0, <2>1, <2>2, <2>4, <2>5, <2>6, OnceKept
  <1>8. ASSUME NEW c \in Children, ChildExit(c) PROVE OnceInv'
    <2> DEFINE ls == {<<"exiting", c>>}
    <2>1. ls \in SUBSET Lines /\ PrintfExit(c, ls) /\ tty' = tty
      BY <1>8, LinesFacts DEF ChildExit
    <2>2. tty => /\ buf' = buf
                 /\ \A m \in Lines : out'[m] = IF m \in ls THEN out[m] + 1 ELSE out[m]
      <3> HIDE DEF ls
      <3>1. tty => buf[c] = {}
        BY <1>8 DEF OnceInv
      <3> QED BY <1>0, <1>8, <2>1, <3>1, PrintfExitLines
    <2>3. /\ parent' = parent /\ Forked' = Forked
          /\ st[c] = "working" /\ st'[c] \in {"zombie", "reaped"}
          /\ \A d \in Children : d # c => st'[d] = st[d]
      BY <1>0, <1>8 DEF ChildExit, Ends, Forked, TypeOK
    <2>4. \A m \in Lines : ToCome(m)' => ToCome(m)
      BY <2>3 DEF ToCome
    <2>5. ToCome(<<"exiting", c>>) /\ ~ToCome(<<"exiting", c>>)'
      BY <2>3, LinesDiffer DEF ToCome
    <2>6. \A m \in Lines : m \in ls => ToCome(m) /\ ~ToCome(m)'
      BY <2>5
    <2> HIDE DEF ls
    <2> QED BY <1>0, <2>1, <2>2, <2>4, <2>6, OnceKept
  <1>9. ASSUME NEW c \in Children, ChildKilled(c) PROVE OnceInv'
    <2>1. tty' = tty /\ out' = out
      BY <1>9 DEF ChildKilled
    <2>2. tty => buf' = buf
      BY <1>0, <1>9 DEF ChildKilled, OnceInv, TypeOK
    <2>3. /\ parent' = parent /\ Forked' = Forked
          /\ st[c] \in {"started", "working"} /\ st'[c] \in {"zombie", "reaped"}
          /\ \A d \in Children : d # c => st'[d] = st[d]
      BY <1>0, <1>9 DEF ChildKilled, Ends, Forked, TypeOK
    <2>4. \A m \in Lines : ToCome(m)' => ToCome(m)
      BY <2>3 DEF ToCome
    <2> DEFINE ls == {}
    <2>5. \A m \in Lines : m \notin ls
      OBVIOUS
    <2> HIDE DEF ls
    <2>6. \A m \in Lines : out'[m] = IF m \in ls THEN out[m] + 1 ELSE out[m]
      BY <2>1, <2>5
    <2> QED BY <1>0, <2>1, <2>2, <2>4, <2>5, <2>6, OnceKept
  <1> QED
    BY <1>1, <1>2, <1>3, <1>4, <1>5, <1>6, <1>7, <1>8, <1>9
    DEF Next, Main, Child, Terminated

\* For every number of children, no line of a process that left through exit(),
\* after a failed fork() too, is missing, and on a terminal none appears twice.
THEOREM OutputCompleteCorrect == Spec => []OutputComplete
  <1>1. Init => OutInv
    <2> SUFFICES ASSUME Init PROVE OutInv
      OBVIOUS
    <2>1. KeptInv
      BY NAssumption DEF Init, KeptInv, Children, Unset
    <2>2. OnceInv
      BY DEF Init, OnceInv
    <2>3. ParentInv
      BY DEF Init, ParentInv
    <2> QED BY <2>1, <2>2, <2>3 DEF OutInv
  <1>2. IInv /\ OutInv /\ [Next]_vars => OutInv'
    BY KeptStep, ParentStep, OnceStep DEF OutInv
  <1>3. IInv /\ OutInv => OutputComplete
    <2> SUFFICES ASSUME IInv, OutInv PROVE OutputComplete
      OBVIOUS
    <2>1. tty => \A l \in Lines : out[l] <= 1
      <3> SUFFICES ASSUME tty, NEW l \in Lines PROVE out[l] <= 1
        OBVIOUS
      <3>1. out[l] \in Nat /\ out[l] <= IF ToCome(l) THEN 0 ELSE 1
        BY DEF OutInv, OnceInv, IInv, TypeOK
      <3> QED BY <3>1
    <2>2. \A c \in Children : st[c] # "none" => c <= Forked
      BY NAssumption DEF IInv, TypeOK, ChildrenInv, Forked, Children
    <2> QED BY <2>1, <2>2 DEF OutInv, KeptInv, ParentInv, ParentGone, OutputComplete
  <1> QED BY <1>1, <1>2, <1>3, Invariance, PTL DEF Spec

\* For every number of children, the calls of wait() that are left and the
\* children to reap are as many: wait() fails only if SIGCHLD is ignored.
THEOREM CallsMatchChildrenCorrect == Spec => []CallsMatchChildren
  <1>1. ASSUME IInv PROVE CallsMatchChildren
    <2> SUFFICES ASSUME parent = "wait", ~ignored
                 PROVE  Cardinality({c \in Children : st[c] # "reaped"}) = N - i
      BY DEF CallsMatchChildren
    <2>1. Reaped \in SUBSET Children /\ Children \cap Reaped = Reaped
      BY DEF Reaped
    <2>2. {c \in Children : st[c] # "reaped"} = Children \ Reaped
      BY DEF Reaped
    <2>3. IsFiniteSet(Children) /\ Cardinality(Children) = N
      BY FS_Interval, NAssumption DEF Children
    <2>4. Cardinality(Children \ Reaped) = Cardinality(Children) - Cardinality(Reaped)
      BY <2>1, <2>3, FS_Difference
    <2>5. Cardinality(Reaped) = i
      BY <1>1 DEF IInv, WaitInv
    <2> QED BY <2>2, <2>3, <2>4, <2>5
  <1> QED BY <1>1, Invariance, PTL

\* For every number of children the wait loop makes one call for each child and
\* ends with all of them reaped and reported.
THEOREM EachChildWaitedForCorrect == Spec => []EachChildWaitedFor
  <1>1. CallsMatchChildren /\ AllChildrenCompleted => EachChildWaitedFor
    BY DEF EachChildWaitedFor
  <1> QED BY <1>1, CallsMatchChildrenCorrect, AllChildrenCompletedCorrect, PTL

=============================================================================
