------------------------------ MODULE ShmDemo ------------------------------
(***************************************************************************)
(* The whole of examples/shm_demo.c: main runs demonstrate_basic_shm of    *)
(* ShmSegment and then the demos of ShmCounter.  Copies of the program     *)
(* meet in the segment of SHM_KEY only.  The later demos use private       *)
(* segments and children of their own and so commute with every step of    *)
(* another copy: one copy is followed through them, when all copies are    *)
(* through with the first.                                                 *)
(***************************************************************************)
EXTENDS ShmCounter, FiniteSets

CONSTANT Instances      \* running copies of the program

ASSUME InstancesAssumption == IsFiniteSet(Instances) /\ Instances # {}

VARIABLES shmid, bound, keyPc, keySeg, mem, keyAttached, childSaw, parentSaw

Key == INSTANCE ShmSegment WITH pc <- keyPc, seg <- keySeg, attached <- keyAttached

keyVars == <<shmid, bound, keyPc, keySeg, mem, keyAttached, childSaw, parentSaw>>
demoVars == <<vars, keyVars>>

DemoInit == Init /\ Key!Init

\* main calls the other demos when demonstrate_basic_shm has returned.
DemoMain ==
  /\ Key!Ended
  /\ Main /\ UNCHANGED keyVars

Counting(c) == Child(c) /\ UNCHANGED keyVars
KeyParent(n) == Key!Parent(n) /\ UNCHANGED vars
KeyChild(n) == Key!Child(n) /\ UNCHANGED vars

DemoEnded == pc = "ended" /\ Key!Ended

DemoNext ==
  \/ DemoMain
  \/ \E c \in Children : Counting(c)
  \/ \E n \in Instances : KeyParent(n) \/ KeyChild(n)
  \/ DemoEnded /\ UNCHANGED demoVars

\* The scheduler runs every process; sleep() and usleep() return.
DemoFairness ==
  /\ WF_demoVars(DemoMain)
  /\ \A c \in Children : WF_demoVars(Counting(c))
  /\ \A n \in Instances : WF_demoVars(KeyParent(n)) /\ WF_demoVars(KeyChild(n))

DemoSpec == DemoInit /\ [][DemoNext]_demoVars /\ DemoFairness

-----------------------------------------------------------------------------
(* Properties, beside those of ShmCounter                                  *)

\* No keyed segment outlives the copies that used it, whichever calls failed
\* and however the copies interleave, also one that a killed run had left; and
\* none vanishes under a process that has it mapped.
KeyedSegmentsRemoved == Key!NothingLeft /\ Key!MappedMemoryExists

\* The same of all three segments of the program: what is left when a copy and
\* when main return is what the code means to leave, which is nothing.
SegmentsRemoved == KeyedSegmentsRemoved /\ NothingLeft

\* A child prints what its parent stored before the fork, never what an
\* earlier run left, if no other copy has found the key.
ChildReadsInitial == Key!ChildReadsInitial

\* The parent prints what its child wrote, all of it, if the child was in time
\* and no other copy found the key before the parent had read.
ParentReadsModified == Key!ParentReadsModified

\* Every copy ends: no wait() or waitpid() blocks forever, also not after a
\* fork() that failed or a child that an earlier waitpid(-1) has reaped.
AllEnd == <>DemoEnded

=============================================================================
