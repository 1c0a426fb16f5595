--------------------------- MODULE ShmDemoProofs ---------------------------
(***************************************************************************)
(* What demonstrate_multiple_attachments() can print, and what the copies  *)
(* of the program leave behind, for every number of increments and of      *)
(* copies.                                                                 *)
(*                                                                         *)
(* FinalCounter is not inductive: the inductive invariant says where the   *)
(* children are when the parent reads the counter, and bounds the counter  *)
(* and the loaded values by the increments made so far.                    *)
(*                                                                         *)
(* Nor is what is said of the keyed segment.  Its invariant says who has   *)
(* it mapped at which point, that the key leads to the one segment not yet *)
(* marked for removal, and what a copy finds there that no other shares.   *)
(* With it goes an action property: a parent whose child was in time sees  *)
(* all of what the child wrote.                                            *)
(***************************************************************************)
EXTENDS ShmDemo, FiniteSetTheorems, TLAPS

Other(c) == 3 - c

Started == {"reset", "fork1", "fork2", "wait1", "wait2", "final", "detach"}
Waited == {"final", "detach", "remove", "complete", "ended"}

Shape ==
  /\ pc \in {"info:shmget", "info:stat", "shmget", "shmat", "reset", "fork1",
             "fork2", "wait1", "wait2", "final", "detach", "remove", "complete",
             "ended"}
  /\ cpc \in [Children -> {"none", "load", "store", "exit", "zombie", "reaped"}]
  /\ pid \in [Children -> BOOLEAN]
  /\ done \in [Children -> Nat]
  /\ reg \in [Children -> Nat]
  /\ info \in {"absent", "live"}
  /\ seg \in {"absent", "live", "marked"}
  /\ attached \subseteq {Parent, 1, 2}
  /\ shared \in Nat
  /\ final \in Nat \cup {NotPrinted}

\* A child's program point agrees with its loop variable and its mapping.
ChildState ==
  \A c \in Children :
    /\ pid[c] <=> cpc[c] # "none"
    /\ cpc[c] = "none" => done[c] = 0
    /\ cpc[c] \in {"load", "store"} => done[c] < Increments
    /\ cpc[c] \in {"exit", "zombie", "reaped"} => done[c] = Increments
    /\ c \in attached <=> cpc[c] \in {"load", "store", "exit"}

\* What fork() and waitpid() have done by each point of the parent.
ParentState ==
  /\ pc \in {"info:shmget", "info:stat", "shmget", "shmat", "reset", "fork1"} =>
       cpc[1] = "none"
  /\ pc \in {"info:shmget", "info:stat", "shmget", "shmat", "reset", "fork1",
             "fork2"} => cpc[2] = "none"
  /\ pc = "wait2" => /\ cpc[1] \in {"none", "reaped"}
                     /\ pid[1] \/ cpc[2] \in {"none", "reaped"}
  /\ pc \in Waited => \A c \in Children : cpc[c] \in {"none", "reaped"}
  /\ Parent \in attached <=> pc \in Started
  /\ final = NotPrinted \/ pc \in Waited \ {"final"}
  /\ pc = "info:stat" \/ info = "absent"
  /\ pc \in Started \cup {"shmat", "remove"} \/ seg = "absent"

\* No increment is invented, a store by any child leaves at least one, and a
\* child alone, or the last to finish after an earlier store, loses nothing.
Bounds ==
  /\ shared <= done[1] + done[2]
  /\ \A c \in Children :
       /\ cpc[c] = "store" => reg[c] <= done[1] + done[2]
       /\ done[c] > 0 => shared > 0
       /\ cpc[c] = "store" /\ done[c] > 0 => reg[c] > 0
       /\ ~pid[Other(c)] => /\ shared = done[c]
                            /\ cpc[c] = "store" => reg[c] = done[c]
  /\ Increments > 1 /\ done[1] = Increments /\ done[2] = Increments => shared > 1

IInv == Shape /\ ChildState /\ ParentState /\ Bounds /\ FinalCounter

-----------------------------------------------------------------------------

\* IInv holds when demonstrate_shm_info is entered.
LEMMA InitIInv == Init => IInv
  BY IncrementsAssumption
  DEF Init, IInv, Shape, ChildState, ParentState, Bounds, FinalCounter, Started,
      Waited, Other, Children, Parent, NotPrinted

\* Every step of a child preserves IInv.
LEMMA ChildIInv ==
  ASSUME IInv, NEW c \in Children, Child(c)
  PROVE  IInv'
  <1> USE IncrementsAssumption DEF Children
  <1>1. CASE Load(c)
    <2>1. Shape' BY <1>1 DEF Load, IInv, Shape
    <2>2. ChildState' BY <1>1 DEF Load, IInv, Shape, ChildState
    <2>3. ParentState'
      BY <1>1 DEF Load, IInv, Shape, ParentState, ChildState, Started, Waited
    <2>4. Bounds' BY <1>1 DEF Load, IInv, Shape, ChildState, Bounds, Other
    <2>5. FinalCounter' BY <1>1 DEF Load, IInv, FinalCounter
    <2> QED BY <2>1, <2>2, <2>3, <2>4, <2>5 DEF IInv
  <1>2. CASE Store(c)
    <2>1. Shape' BY <1>2 DEF Store, IInv, Shape
    <2>2. ChildState' BY <1>2 DEF Store, IInv, Shape, ChildState
    <2>3. ParentState'
      BY <1>2 DEF Store, IInv, Shape, ParentState, ChildState, Started, Waited
    <2>4. Bounds' BY <1>2 DEF Store, IInv, Shape, ChildState, Bounds, Other
    <2>5. FinalCounter' BY <1>2 DEF Store, IInv, FinalCounter
    <2> QED BY <2>1, <2>2, <2>3, <2>4, <2>5 DEF IInv
  <1>3. CASE ChildExit(c)
    <2>1. Shape' BY <1>3 DEF ChildExit, IInv, Shape
    <2>2. ChildState' BY <1>3 DEF ChildExit, IInv, Shape, ChildState
    <2>3. ParentState'
      BY <1>3 DEF ChildExit, IInv, Shape, ParentState, ChildState, Started, Waited,
                  Parent
    <2>4. Bounds' BY <1>3 DEF ChildExit, IInv, Shape, ChildState, Bounds, Other
    <2>5. FinalCounter' BY <1>3 DEF ChildExit, IInv, FinalCounter
    <2> QED BY <2>1, <2>2, <2>3, <2>4, <2>5 DEF IInv
  <1> QED BY <1>1, <1>2, <1>3 DEF Child

\* fork(), succeeding or not, preserves IInv.
LEMMA ForkIInv ==
  ASSUME IInv, NEW c \in Children, NEW at, NEW next, Fork(c, at, next),
         \/ c = 1 /\ at = "fork1" /\ next = "fork2"
         \/ c = 2 /\ at = "fork2" /\ next = "wait1"
  PROVE  IInv'
  <1> USE IncrementsAssumption DEF Children, Fork
  <1>1. Shape' BY ZenonT(60) DEF IInv, Shape
  <1>2. ChildState' BY DEF IInv, Shape, ChildState, ParentState
  <1>3. ParentState'
    BY DEF IInv, Shape, ParentState, ChildState, Started, Waited, Parent
  <1>4. Bounds' BY DEF IInv, Shape, ChildState, ParentState, Bounds, Other
  <1>5. FinalCounter' BY DEF IInv, FinalCounter, ParentState, Waited
  <1> QED BY <1>1, <1>2, <1>3, <1>4, <1>5 DEF IInv

\* waitpid(), reaping a child or failing with ECHILD, preserves IInv.
LEMMA WaitpidIInv ==
  ASSUME IInv, NEW c \in Children, NEW at, NEW next, Waitpid(c, at, next),
         \/ c = 1 /\ at = "wait1" /\ next = "wait2"
         \/ c = 2 /\ at = "wait2" /\ next = "final"
  PROVE  IInv'
  <1> USE IncrementsAssumption DEF Children, Waitpid, Named
  <1>1. Shape' BY DEF IInv, Shape
  <1>2. ChildState' BY DEF IInv, Shape, ChildState
  <1>3. ParentState'
    BY DEF IInv, Shape, ParentState, ChildState, Started, Waited, Parent
  <1>4. Bounds' BY DEF IInv, Shape, ChildState, Bounds, Other
  <1>5. FinalCounter' BY DEF IInv, FinalCounter
  <1> QED BY <1>1, <1>2, <1>3, <1>4, <1>5 DEF IInv

\* When the parent prints, every child it forked has made all its increments.
LEMMA PrintIInv ==
  ASSUME IInv, PrintFinal
  PROVE  IInv'
  <1> USE IncrementsAssumption DEF Children, childVars, PrintFinal
  <1>1. Shape' BY DEF IInv, Shape
  <1>2. ChildState' BY DEF IInv, ChildState
  <1>3. ParentState' BY DEF IInv, ParentState, Started, Waited
  <1>4. Bounds' BY DEF IInv, Bounds, Other
  <1>5. FinalCounter'
    <2>1. \A c \in Children : pid[c] => done[c] = Increments
      BY DEF IInv, Shape, ChildState, ParentState, Waited
    <2>2. \A c \in Children : ~pid[c] => done[c] = 0
      BY DEF IInv, Shape, ChildState
    <2> QED BY <2>1, <2>2 DEF IInv, Shape, Bounds, Other, FinalCounter
  <1> QED BY <1>1, <1>2, <1>3, <1>4, <1>5 DEF IInv

\* The steps of the parent that touch neither children nor output.
LEMMA RestIInv ==
  ASSUME IInv,
         InfoShmget \/ InfoStat \/ Shmget \/ Shmat \/ Reset \/ Detach \/ Remove
           \/ Complete
  PROVE  IInv'
  <1> USE IncrementsAssumption
      DEF Children, childVars, InfoShmget, InfoStat, Shmget, Shmat, Reset, Detach,
          Remove, Complete
  <1>1. Shape'
    <2>1. attached' \subseteq {Parent, 1, 2} BY DEF IInv, Shape
    <2> QED BY <2>1 DEF IInv, Shape
  <1>2. ChildState' BY DEF IInv, ChildState, ParentState, Shape, Parent
  <1>3. ParentState'
    BY DEF IInv, Shape, ParentState, ChildState, Started, Waited, Parent
  <1>4. Bounds' BY DEF IInv, Shape, ChildState, ParentState, Bounds, Other
  <1>5. FinalCounter' BY DEF IInv, FinalCounter
  <1> QED BY <1>1, <1>2, <1>3, <1>4, <1>5 DEF IInv

\* Every step of the counter demo keeps its invariant.
LEMMA StepIInv == IInv /\ [Next]_vars => IInv'
  <1> SUFFICES ASSUME IInv, [Next]_vars PROVE IInv'
    OBVIOUS
  <1>1. CASE Main
    BY <1>1, ForkIInv, WaitpidIInv, PrintIInv, RestIInv DEF Main, Children
  <1>2. CASE \E c \in Children : Child(c) BY <1>2, ChildIInv
  <1>3. CASE UNCHANGED vars
    BY <1>3 DEF vars, IInv, Shape, ChildState, ParentState, Bounds, FinalCounter
  <1> QED BY <1>1, <1>2, <1>3 DEF Next, Terminated

-----------------------------------------------------------------------------
(* The keyed segment                                                       *)

ParentMaps == {"init:counter", "init:message", "init:writer", "fork", "sleep",
               "see:counter", "see:message", "see:writer", "wait", "detach"}
ChildMaps == {"see:counter", "see:message", "set:counter", "set:message", "set:writer",
              "detach"}
BeforeFork == {"shmget", "shmat", "init:counter", "init:message", "init:writer", "fork"}
ParentPoints == BeforeFork \cup ParentMaps \cup {"remove", "returned"}
ChildPoints == ChildMaps \cup {"none", "zombie", "reaped"}

Data == [counter : {0, 42}, message : {"", "initial", "modified"}, writer : {0, 1}]

KeyTypes ==
  /\ keyPc \in [Key!Processes -> ParentPoints \cup ChildPoints]
  /\ shmid \in [Instances -> Key!Ids \cup {Key!NoId}]
  /\ bound \in Key!Ids \cup {Key!NoId}
  /\ keySeg \in [Key!Ids -> {"absent", "live", "marked"}]
  /\ mem \in [Key!Ids -> Data]
  /\ keyAttached \in [Key!Ids -> SUBSET Key!Processes]
  /\ childSaw \in [Instances -> Data]

\* How far parent and child of copy n are, and whether shmget has returned.
Roles(n) ==
  /\ keyPc[Key!P(n)] \in ParentPoints /\ keyPc[Key!C(n)] \in ChildPoints
  /\ keyPc[Key!P(n)] = "shmget" => shmid[n] = Key!NoId
  /\ shmid[n] = Key!NoId => keyPc[Key!C(n)] = "none"
  /\ keyPc[Key!P(n)] \in ParentMaps \cup {"shmat", "remove"} => shmid[n] # Key!NoId
  /\ keyPc[Key!P(n)] \in BeforeFork => keyPc[Key!C(n)] = "none"
  /\ keyPc[Key!P(n)] \in {"detach", "remove", "returned"}
       => keyPc[Key!C(n)] \in {"none", "reaped"}

\* Each has its own segment mapped between shmat or fork and shmdt.
Mappings(n) ==
  \A id \in Key!Ids :
    /\ Key!P(n) \in keyAttached[id] <=> id = shmid[n] /\ keyPc[Key!P(n)] \in ParentMaps
    /\ Key!C(n) \in keyAttached[id] <=> id = shmid[n] /\ keyPc[Key!C(n)] \in ChildMaps

\* A segment is there while it is mapped; the one the key leads to is the only
\* one not marked for removal.
Segment(id) ==
  /\ keyAttached[id] # {} => keySeg[id] # "absent"
  /\ keySeg[id] = "marked" => keyAttached[id] # {}
  /\ keySeg[id] = "live" <=> bound = id

\* The key never leads to the segment of a copy that is through with it.
Unbound(n) == keyPc[Key!P(n)] = "returned" /\ shmid[n] # Key!NoId => bound # shmid[n]

ChildLooks(n) == keyPc[Key!C(n)] \in {"see:counter", "see:message"}

\* What a copy that has its segment to itself finds there.
Contents(n) ==
  /\ keyPc[Key!C(n)] \in {"none", "see:counter"} => childSaw[n] = Key!Initial
  /\ Key!Alone(n) =>
       /\ childSaw[n] = Key!Initial
       /\ (keyPc[Key!P(n)] \in {"init:message", "init:writer", "fork"} \/ ChildLooks(n))
             => mem[shmid[n]].counter = 0
       /\ (keyPc[Key!P(n)] \in {"init:writer", "fork"} \/ ChildLooks(n))
             => mem[shmid[n]].message = "initial"

KeyInv ==
  /\ KeyTypes /\ \A id \in Key!Ids : Segment(id)
  /\ \A n \in Instances : Roles(n) /\ Mappings(n) /\ Unbound(n) /\ Contents(n)

\* The processes are told apart.
LEMMA KeyNames ==
  /\ \A n \in Instances : Key!P(n) \in Key!Processes /\ Key!C(n) \in Key!Processes
  /\ \A n, j \in Instances : /\ Key!P(n) # Key!C(j)
                             /\ Key!P(n) = Key!P(j) => n = j
                             /\ Key!C(n) = Key!C(j) => n = j
  /\ \A n \in Instances : Key!P(n)[1] = n /\ Key!C(n)[1] = n
  /\ \A p \in Key!Processes : \E n \in Instances : p = Key!P(n) \/ p = Key!C(n)
  BY DEF Key!Processes, Key!P, Key!C

\* ShmSegment counts the copies the way this module does.
LEMMA KeyCardinality == Key!Cardinality(Instances) = Cardinality(Instances)
  BY DEF Key!Cardinality, Cardinality

\* The identifiers are told apart.
LEMMA KeyIds ==
  Key!NoId \notin Key!Ids /\ Key!Leftover \notin Key!NewIds /\ Key!Leftover \in Key!Ids
      /\ Key!NewIds \subseteq Key!Ids
  <1>1. Cardinality(Instances) \in Nat
    BY InstancesAssumption, FS_CardinalityType
  <1> QED BY <1>1, KeyCardinality DEF Key!NoId, Key!Leftover, Key!NewIds, Key!Ids

\* There is an identifier left for a copy that has none: with as many new
\* identifiers as copies, two would belong to the same copy otherwise.
LEMMA FreshId ==
  ASSUME NEW n \in Instances, shmid[n] = Key!NoId
  PROVE  \E id \in Key!NewIds : id \notin {shmid[j] : j \in Instances}
  <1> SUFFICES ASSUME \A id \in Key!NewIds : \E j \in Instances : shmid[j] = id
               PROVE  FALSE
    OBVIOUS
  <1> DEFINE owner == [id \in Key!NewIds |-> CHOOSE j \in Instances : shmid[j] = id]
             T == Instances \ {n}
  <1>1. \A id \in Key!NewIds : owner[id] \in Instances /\ shmid[owner[id]] = id
    OBVIOUS
  <1>2. owner \in [Key!NewIds -> T]
    BY <1>1, KeyIds
  <1>3. Cardinality(Instances) \in Nat /\ Cardinality(Instances) > 0
    BY InstancesAssumption, FS_CardinalityType, FS_EmptySet
  <1>4. IsFiniteSet(Key!NewIds) /\ Cardinality(Key!NewIds) = Cardinality(Instances)
    BY <1>3, KeyCardinality, FS_Interval DEF Key!NewIds
  <1>5. IsFiniteSet(T) /\ Cardinality(T) = Cardinality(Instances) - 1
    BY InstancesAssumption, FS_RemoveElement
  <1>6. Cardinality(T) < Cardinality(Key!NewIds)
    BY <1>3, <1>4, <1>5
  <1> HIDE DEF owner, T
  <1>7. \E x, y \in Key!NewIds : x # y /\ owner[x] = owner[y]
    BY <1>2, <1>4, <1>5, <1>6, FS_PigeonHole
  <1> QED BY <1>1, <1>7

\* KeyInv holds at the start, also if a killed run has left its segment.
LEMMA KeyInit == Key!Init => KeyInv
  <1> SUFFICES ASSUME Key!Init PROVE KeyInv
    OBVIOUS
  <1>1. \A n \in Instances : keyPc[Key!P(n)] = "shmget" /\ keyPc[Key!C(n)] = "none"
      /\ shmid[n] = Key!NoId
    BY DEF Key!Init, Key!Processes, Key!P, Key!C
  <1>2. Key!Initial \in Data /\ Key!Zeroed \in Data /\ Key!Modified \in Data
    BY DEF Key!Initial, Key!Zeroed, Key!Modified, Data
  <1>3. KeyTypes
    <2>1. keyPc \in [Key!Processes -> ParentPoints \cup ChildPoints]
      BY DEF Key!Init, ParentPoints, ChildPoints, BeforeFork
    <2> QED BY <1>2, <2>1, KeyIds DEF Key!Init, KeyTypes
  <1>4. \A id \in Key!Ids : Segment(id)
    BY DEF Key!Init, Segment
  <1>5. \A n \in Instances : Roles(n)
    BY <1>1 DEF Roles, ParentPoints, ChildPoints, BeforeFork, ParentMaps
  <1>6. \A n \in Instances : Mappings(n) /\ Unbound(n)
    BY <1>1, KeyIds DEF Key!Init, Mappings, Unbound
  <1>7. \A n \in Instances : Contents(n)
    BY <1>1 DEF Key!Init, Contents, ChildLooks
  <1> QED BY <1>3, <1>4, <1>5, <1>6, <1>7 DEF KeyInv

\* A step of copy n: what it leaves alone of the others.
Moves(n) ==
  /\ shmid'[n] = shmid[n] \/ shmid[n] = Key!NoId
  /\ \A id \in Key!Ids : id # shmid'[n] => mem'[id] = mem[id]
  /\ \A j \in Instances \ {n} :
       /\ keyPc'[Key!P(j)] = keyPc[Key!P(j)] /\ keyPc'[Key!C(j)] = keyPc[Key!C(j)]
       /\ shmid'[j] = shmid[j] /\ childSaw'[j] = childSaw[j]
       /\ \A id \in Key!Ids :
            /\ Key!P(j) \in keyAttached'[id] <=> Key!P(j) \in keyAttached[id]
            /\ Key!C(j) \in keyAttached'[id] <=> Key!C(j) \in keyAttached[id]
       /\ bound' \in {bound, Key!NoId} \/ bound' # shmid[j]

\* From the copy that moves to all copies.
LEMMA FromOne ==
  ASSUME KeyInv, NEW n \in Instances, Moves(n), KeyTypes', \A id \in Key!Ids : Segment(id)',
         Roles(n)', Mappings(n)', Unbound(n)', Contents(n)'
  PROVE  KeyInv'
  <1> SUFFICES ASSUME NEW j \in Instances \ {n}
               PROVE  Roles(j)' /\ Mappings(j)' /\ Unbound(j)' /\ Contents(j)'
    BY DEF KeyInv
  <1>0. /\ Roles(j) /\ Mappings(j) /\ Unbound(j) /\ Contents(j)
        /\ shmid[j] \in Key!Ids \cup {Key!NoId}
    BY DEF KeyInv, KeyTypes
  <1>1. /\ keyPc'[Key!P(j)] = keyPc[Key!P(j)] /\ keyPc'[Key!C(j)] = keyPc[Key!C(j)]
        /\ shmid'[j] = shmid[j] /\ childSaw'[j] = childSaw[j]
    BY DEF Moves
  <1>2. Roles(j)'
    BY <1>0, <1>1 DEF Roles
  <1>3. Mappings(j)'
    BY <1>0, <1>1 DEF Mappings, Moves
  <1>4. Unbound(j)'
    BY <1>0, <1>1 DEF Unbound, Moves
  <1>5. ASSUME Key!Alone(j)', shmid[j] # Key!NoId
        PROVE  Key!Alone(j) /\ mem'[shmid[j]] = mem[shmid[j]]
    <2>1. shmid'[n] # shmid[j] /\ \A l \in Instances \ {j, n} : shmid[l] # shmid[j]
      BY <1>1, <1>5 DEF Key!Alone, Moves
    <2>2. mem'[shmid[j]] = mem[shmid[j]]
      BY <1>0, <1>5, <2>1 DEF Moves
    <2>3. shmid[n] # shmid[j]
      BY <1>5, <2>1 DEF Moves
    <2> QED BY <2>1, <2>2, <2>3 DEF Key!Alone
  <1>6. Contents(j)'
    <2>1. CASE shmid[j] = Key!NoId
      BY <1>0, <1>1, <2>1 DEF Contents, Roles, ChildLooks, ParentMaps
    <2>2. CASE shmid[j] # Key!NoId
      BY <1>0, <1>1, <1>5, <2>2 DEF Contents, ChildLooks
    <2> QED BY <2>1, <2>2
  <1> QED BY <1>2, <1>3, <1>4, <1>6

\* A step of copy n that concerns no segment but its own, and that only by its
\* contents.
LEMMA QuietStep ==
  ASSUME KeyInv, NEW n \in Instances, UNCHANGED <<shmid, bound, keySeg, keyAttached>>,
         keyPc' \in [Key!Processes -> ParentPoints \cup ChildPoints],
         \A p \in Key!Processes \ {Key!P(n), Key!C(n)} : keyPc'[p] = keyPc[p],
         keyPc[Key!P(n)] \in ParentMaps, keyPc'[Key!P(n)] \in ParentMaps,
         keyPc'[Key!C(n)] \in ChildMaps <=> keyPc[Key!C(n)] \in ChildMaps,
         mem' \in [Key!Ids -> Data], \A id \in Key!Ids \ {shmid[n]} : mem'[id] = mem[id],
         childSaw' \in [Instances -> Data],
         \A j \in Instances \ {n} : childSaw'[j] = childSaw[j],
         Roles(n)', Contents(n)'
  PROVE  KeyInv'
  <1>1. KeyTypes'
    BY DEF KeyInv, KeyTypes
  <1>2. \A id \in Key!Ids : Segment(id)'
    BY DEF KeyInv, Segment
  <1>3. Mappings(n)'
    BY DEF KeyInv, Mappings
  <1>4. Unbound(n)'
    BY DEF Unbound, ParentMaps
  <1>5. Moves(n)
    BY KeyNames DEF Moves
  <1> QED BY <1>1, <1>2, <1>3, <1>4, <1>5, FromOne

\* Reading and writing the shared structure, sleep and wait.
LEMMA AccessStep ==
  ASSUME KeyInv, NEW n \in Instances,
         \/ Key!Initialize(n) \/ Key!Awake(n) \/ Key!Wait(n) \/ Key!Modify(n)
         \/ Key!ParentReads(n, "see:counter", "counter", "see:message")
         \/ Key!ParentReads(n, "see:message", "message", "see:writer")
         \/ Key!ParentReads(n, "see:writer", "writer", "wait")
         \/ Key!ChildReads(n, "see:counter", "counter", "see:message")
         \/ Key!ChildReads(n, "see:message", "message", "set:counter")
  PROVE  KeyInv'
  <1> USE DEF ParentMaps, ChildMaps, BeforeFork, ParentPoints, ChildPoints
  <1>0. /\ KeyTypes /\ Roles(n) /\ Contents(n) /\ Key!P(n) \in Key!Processes
             /\ Key!C(n) \in Key!Processes
        /\ Key!P(n) # Key!C(n) /\ Key!P(n)[1] = n /\ Key!C(n)[1] = n
    BY KeyNames DEF KeyInv
  <1>1. keyPc[Key!P(n)] \in ParentMaps /\ shmid[n] \in Key!Ids
        /\ UNCHANGED <<shmid, bound, keySeg, keyAttached>>
    BY <1>0 DEF Key!Initialize, Key!Awake, Key!Wait, Key!Modify, Key!ParentReads,
        Key!ChildReads, Key!Store, Roles, KeyTypes
  <1>2. Key!Alone(n)' <=> Key!Alone(n)
    BY <1>1 DEF Key!Alone
  <1>3. ASSUME NEW p \in {Key!P(n), Key!C(n)}, NEW at \in ParentPoints \cup ChildPoints,
      Key!Goto(p, at)
        PROVE  /\ keyPc' \in [Key!Processes -> ParentPoints \cup ChildPoints]
               /\ keyPc'[p] = at /\ \A q \in Key!Processes \ {p} : keyPc'[q] = keyPc[q]
    BY <1>0, <1>3 DEF Key!Goto, KeyTypes
  \* An assignment to a field changes that field of the copy's own segment.
  <1>4. ASSUME NEW p \in {Key!P(n), Key!C(n)}, NEW at, NEW field, NEW value, NEW next,
               Key!Store(p, at, field, value, next),
               \/ field = "counter" /\ value \in {0, 42}
               \/ field = "message" /\ value \in {"initial", "modified"}
               \/ field = "writer" /\ value \in {0, 1}
        PROVE  /\ mem' \in [Key!Ids -> Data]
               /\ \A id \in Key!Ids \ {shmid[n]} : mem'[id] = mem[id]
               /\ mem'[shmid[n]].counter
                    = IF field = "counter" THEN value ELSE mem[shmid[n]].counter
               /\ mem'[shmid[n]].message
                    = IF field = "message" THEN value ELSE mem[shmid[n]].message
               /\ childSaw' = childSaw /\ keyPc[p] = at /\ Key!Goto(p, next)
    <2>1. mem \in [Key!Ids -> Data] /\ mem' = [mem EXCEPT ![shmid[n]][field] = value]
      BY <1>0, <1>4 DEF Key!Store, KeyTypes
    <2> DEFINE r == [mem[shmid[n]] EXCEPT ![field] = value]
    <2>2. /\ r \in Data
          /\ r.counter = IF field = "counter" THEN value ELSE mem[shmid[n]].counter
          /\ r.message = IF field = "message" THEN value ELSE mem[shmid[n]].message
      <3>1. mem[shmid[n]] \in Data
        BY <1>1, <2>1
      <3>2. CASE field = "counter" /\ value \in {0, 42}
        BY <3>1, <3>2 DEF Data
      <3>3. CASE field = "message" /\ value \in {"initial", "modified"}
        BY <3>1, <3>3 DEF Data
      <3>4. CASE field = "writer" /\ value \in {0, 1}
        BY <3>1, <3>4 DEF Data
      <3> QED BY <1>4, <3>2, <3>3, <3>4
    <2>3. mem' = [mem EXCEPT ![shmid[n]] = r]
      BY <2>1
    <2> HIDE DEF r
    <2> QED BY <1>1, <1>4, <2>1, <2>2, <2>3 DEF Key!Store
  <1>5. CASE Key!Initialize(n)
    <2> USE DEF Key!Initialize
    <2>0. mem \in [Key!Ids -> Data] /\ mem[shmid[n]] \in Data /\ childSaw \in [Instances -> Data]
      BY <1>0, <1>1 DEF KeyTypes
    <2>1. CASE Key!Store(Key!P(n), "init:counter", "counter", 0, "init:message")
      <3>1. /\ mem' \in [Key!Ids -> Data] /\ \A id \in Key!Ids \ {shmid[n]} : mem'[id] = mem[id]
            /\ mem'[shmid[n]].counter = 0
            /\ childSaw' = childSaw /\ keyPc[Key!P(n)] = "init:counter"
                 /\ Key!Goto(Key!P(n), "init:message")
        BY <1>4, <2>1
      <3>2. /\ keyPc' \in [Key!Processes -> ParentPoints \cup ChildPoints]
                 /\ keyPc'[Key!P(n)] = "init:message"
            /\ \A q \in Key!Processes \ {Key!P(n)} : keyPc'[q] = keyPc[q]
        BY <1>3, <3>1
      <3>3. Roles(n)' /\ Contents(n)'
        BY <1>0, <1>1, <1>2, <3>1, <3>2 DEF Roles, Contents, ChildLooks
      <3> QED BY <1>0, <1>1, <2>0, <3>1, <3>2, <3>3, QuietStep
    <2>2. CASE Key!Store(Key!P(n), "init:message", "message", "initial", "init:writer")
      <3>1. /\ mem' \in [Key!Ids -> Data] /\ \A id \in Key!Ids \ {shmid[n]} : mem'[id] = mem[id]
            /\ mem'[shmid[n]].counter = mem[shmid[n]].counter
            /\ mem'[shmid[n]].message = "initial"
            /\ childSaw' = childSaw /\ keyPc[Key!P(n)] = "init:message"
                 /\ Key!Goto(Key!P(n), "init:writer")
        BY <1>4, <2>2
      <3>2. /\ keyPc' \in [Key!Processes -> ParentPoints \cup ChildPoints]
                 /\ keyPc'[Key!P(n)] = "init:writer"
            /\ \A q \in Key!Processes \ {Key!P(n)} : keyPc'[q] = keyPc[q]
        BY <1>3, <3>1
      <3>3. Roles(n)' /\ Contents(n)'
        BY <1>0, <1>1, <1>2, <3>1, <3>2 DEF Roles, Contents, ChildLooks
      <3> QED BY <1>0, <1>1, <2>0, <3>1, <3>2, <3>3, QuietStep
    <2>3. CASE Key!Store(Key!P(n), "init:writer", "writer", 0, "fork")
      <3>1. /\ mem' \in [Key!Ids -> Data] /\ \A id \in Key!Ids \ {shmid[n]} : mem'[id] = mem[id]
            /\ mem'[shmid[n]].counter = mem[shmid[n]].counter
            /\ mem'[shmid[n]].message = mem[shmid[n]].message
            /\ childSaw' = childSaw /\ keyPc[Key!P(n)] = "init:writer"
                 /\ Key!Goto(Key!P(n), "fork")
        BY <1>4, <2>3
      <3>2. /\ keyPc' \in [Key!Processes -> ParentPoints \cup ChildPoints]
                 /\ keyPc'[Key!P(n)] = "fork"
            /\ \A q \in Key!Processes \ {Key!P(n)} : keyPc'[q] = keyPc[q]
        BY <1>3, <3>1
      <3>3. Roles(n)' /\ Contents(n)'
        BY <1>0, <1>1, <1>2, <3>1, <3>2 DEF Roles, Contents, ChildLooks
      <3> QED BY <1>0, <1>1, <2>0, <3>1, <3>2, <3>3, QuietStep
    <2> QED BY <1>5, <2>1, <2>2, <2>3
  <1>6. CASE Key!Modify(n)
    <2>1. PICK at \in {"set:counter", "set:message", "set:writer"},
               next \in {"set:message", "set:writer", "detach"} :
            /\ mem' \in [Key!Ids -> Data] /\ \A id \in Key!Ids \ {shmid[n]} : mem'[id] = mem[id]
            /\ childSaw' = childSaw /\ keyPc[Key!C(n)] = at /\ Key!Goto(Key!C(n), next)
      BY <1>4, <1>6 DEF Key!Modify
    <2>2. /\ keyPc' \in [Key!Processes -> ParentPoints \cup ChildPoints]
               /\ keyPc'[Key!C(n)] = next
          /\ \A q \in Key!Processes \ {Key!C(n)} : keyPc'[q] = keyPc[q]
      BY <1>3, <2>1
    <2>3. Roles(n)' /\ Contents(n)'
      BY <1>0, <1>1, <1>2, <2>1, <2>2 DEF Roles, Contents, ChildLooks
    <2>4. childSaw \in [Instances -> Data]
      BY <1>0 DEF KeyTypes
    <2> QED BY <1>0, <1>1, <2>1, <2>2, <2>3, <2>4, QuietStep
  <1>7. CASE \/ Key!Awake(n)
             \/ Key!ParentReads(n, "see:counter", "counter", "see:message")
             \/ Key!ParentReads(n, "see:message", "message", "see:writer")
             \/ Key!ParentReads(n, "see:writer", "writer", "wait")
    <2>1. PICK next \in {"see:counter", "see:message", "see:writer", "wait"} :
            /\ keyPc[Key!P(n)] \in {"sleep", "see:counter", "see:message", "see:writer"}
            /\ Key!Goto(Key!P(n), next) /\ UNCHANGED <<mem, childSaw>>
      BY <1>7 DEF Key!Awake, Key!ParentReads
    <2>2. /\ keyPc' \in [Key!Processes -> ParentPoints \cup ChildPoints]
               /\ keyPc'[Key!P(n)] = next
          /\ \A q \in Key!Processes \ {Key!P(n)} : keyPc'[q] = keyPc[q]
      BY <1>3, <2>1
    <2>3. Roles(n)' /\ Contents(n)'
      BY <1>0, <1>1, <1>2, <2>1, <2>2 DEF Roles, Contents, ChildLooks
    <2>4. mem \in [Key!Ids -> Data] /\ childSaw \in [Instances -> Data]
      BY <1>0 DEF KeyTypes
    <2> QED BY <1>0, <1>1, <2>1, <2>2, <2>3, <2>4, QuietStep
  <1>8. CASE Key!Wait(n)
    <2>1. /\ keyPc[Key!P(n)] = "wait" /\ keyPc[Key!C(n)] = "zombie" /\ UNCHANGED <<mem, childSaw>>
          /\ keyPc' = [keyPc EXCEPT ![Key!P(n)] = "detach", ![Key!C(n)] = "reaped"]
      BY <1>8 DEF Key!Wait
    <2>2. /\ keyPc' \in [Key!Processes -> ParentPoints \cup ChildPoints]
          /\ keyPc'[Key!P(n)] = "detach" /\ keyPc'[Key!C(n)] = "reaped"
          /\ \A q \in Key!Processes \ {Key!P(n), Key!C(n)} : keyPc'[q] = keyPc[q]
      BY <1>0, <2>1 DEF KeyTypes
    <2>3. Roles(n)' /\ Contents(n)'
      BY <1>0, <1>1, <1>2, <2>1, <2>2 DEF Roles, Contents, ChildLooks
    <2>4. mem \in [Key!Ids -> Data] /\ childSaw \in [Instances -> Data]
      BY <1>0 DEF KeyTypes
    <2> QED BY <1>0, <1>1, <2>1, <2>2, <2>3, <2>4, QuietStep
  <1>9. CASE \/ Key!ChildReads(n, "see:counter", "counter", "see:message")
             \/ Key!ChildReads(n, "see:message", "message", "set:counter")
    <2>0. mem \in [Key!Ids -> Data] /\ mem[shmid[n]] \in Data /\ childSaw \in [Instances -> Data]
      BY <1>0, <1>1 DEF KeyTypes
    <2>1. PICK field \in {"counter", "message"}, next \in {"see:message", "set:counter"} :
            /\ keyPc[Key!C(n)] = IF field = "counter" THEN "see:counter" ELSE "see:message"
            /\ next = IF field = "counter" THEN "see:message" ELSE "set:counter"
            /\ Key!Goto(Key!C(n), next) /\ UNCHANGED mem
            /\ childSaw' = [childSaw EXCEPT ![n][field] = mem[shmid[n]][field]]
      BY <1>9 DEF Key!ChildReads
    <2>2. /\ keyPc' \in [Key!Processes -> ParentPoints \cup ChildPoints]
               /\ keyPc'[Key!C(n)] = next
          /\ \A q \in Key!Processes \ {Key!C(n)} : keyPc'[q] = keyPc[q]
      BY <1>3, <2>1
    <2>3. /\ childSaw'[n] = [childSaw[n] EXCEPT ![field] = mem[shmid[n]][field]]
          /\ childSaw'[n] \in Data
          /\ childSaw' \in [Instances -> Data]
          /\ \A j \in Instances \ {n} : childSaw'[j] = childSaw[j]
      <3>1. childSaw[n] \in Data
        BY <2>0
      <3>2. [childSaw[n] EXCEPT ![field] = mem[shmid[n]][field]] \in Data
        <4>1. CASE field = "counter" BY <2>0, <3>1, <4>1 DEF Data
        <4>2. CASE field = "message" BY <2>0, <3>1, <4>2 DEF Data
        <4> QED BY <2>1, <4>1, <4>2
      <3> QED BY <2>0, <2>1, <3>2
    <2>4. Key!Alone(n) => childSaw'[n] = Key!Initial
      <3>1. ASSUME Key!Alone(n)
            PROVE  /\ childSaw[n] = Key!Initial
                   /\ mem[shmid[n]].counter = 0 /\ mem[shmid[n]].message = "initial"
        BY <1>0, <2>1, <3>1 DEF Contents, ChildLooks
      <3>2. CASE field = "counter" BY <2>3, <3>1, <3>2 DEF Key!Initial
      <3>3. CASE field = "message" BY <2>3, <3>1, <3>3 DEF Key!Initial
      <3> QED BY <2>1, <3>2, <3>3
    <2>5. Roles(n)'
      BY <1>0, <1>1, <2>1, <2>2 DEF Roles
    <2>6. Contents(n)'
      BY <1>0, <1>1, <1>2, <2>1, <2>2, <2>4 DEF Contents, ChildLooks, Roles
    <2> QED BY <1>0, <1>1, <2>0, <2>1, <2>2, <2>3, <2>5, <2>6, QuietStep
  <1> QED BY <1>5, <1>6, <1>7, <1>8, <1>9

\* Unmapping keeps the facts about every segment.
LEMMA DetachSegments ==
  ASSUME KeyInv, NEW id \in Key!Ids, NEW p \in Key!Processes, Key!Detach(id, p), UNCHANGED bound
  PROVE  /\ keySeg' \in [Key!Ids -> {"absent", "live", "marked"}] /\ mem' \in [Key!Ids -> Data]
         /\ keyAttached' \in [Key!Ids -> SUBSET Key!Processes]
         /\ \A x \in Key!Ids : Segment(x)'
         /\ \A x \in Key!Ids \ {id} : mem'[x] = mem[x] /\ keyAttached'[x] = keyAttached[x]
         /\ keyAttached'[id] = keyAttached[id] \ {p}
  <1>1. KeyTypes /\ \A x \in Key!Ids : Segment(x)
    BY DEF KeyInv
  <1>2. PICK s \in {"absent", "live", "marked"} :
          /\ s = IF keySeg[id] = "marked"
               /\ keyAttached[id] \subseteq {p} THEN "absent" ELSE keySeg[id]
          /\ Key!Becomes(id, s) /\ keyAttached' = [keyAttached EXCEPT ![id] = @ \ {p}]
    BY <1>1 DEF Key!Detach, KeyTypes
  <1>3. /\ keySeg' \in [Key!Ids -> {"absent", "live", "marked"}] /\ keySeg'[id] = s
        /\ \A x \in Key!Ids \ {id} : keySeg'[x] = keySeg[x]
    BY <1>1, <1>2 DEF Key!Becomes, KeyTypes
  <1>4. mem' \in [Key!Ids -> Data] /\ \A x \in Key!Ids \ {id} : mem'[x] = mem[x]
    <2>1. Key!Zeroed \in Data
      BY DEF Key!Zeroed, Data
    <2> QED BY <1>1, <1>2, <2>1 DEF Key!Becomes, KeyTypes
  <1>5. /\ keyAttached' \in [Key!Ids -> SUBSET Key!Processes]
        /\ \A x \in Key!Ids \ {id} : keyAttached'[x] = keyAttached[x]
        /\ keyAttached'[id] = keyAttached[id] \ {p}
    BY <1>1, <1>2 DEF KeyTypes
  <1>6. \A x \in Key!Ids : Segment(x)'
    <2>1. \A x \in Key!Ids \ {id} : Segment(x)'
      BY <1>1, <1>3, <1>5 DEF Segment
    <2>2. Segment(id)'
      BY <1>1, <1>2, <1>3, <1>5 DEF Segment
    <2> QED BY <2>1, <2>2
  <1> QED BY <1>3, <1>4, <1>5, <1>6

\* IPC_RMID keeps them, too.
LEMMA RemoveSegments ==
  ASSUME KeyInv, NEW id \in Key!Ids, Key!Remove(id), UNCHANGED keyAttached
  PROVE  /\ keySeg' \in [Key!Ids -> {"absent", "live", "marked"}] /\ mem' \in [Key!Ids -> Data]
         /\ \A x \in Key!Ids : Segment(x)'
         /\ \A x \in Key!Ids \ {id} : mem'[x] = mem[x]
         /\ bound' \in {bound, Key!NoId} /\ bound' # id
  <1>1. KeyTypes /\ \A x \in Key!Ids : Segment(x)
    BY DEF KeyInv
  <1>2. PICK s \in {"absent", "marked"} :
          /\ s = IF keySeg[id] = "absent" \/ keyAttached[id] = {} THEN "absent" ELSE "marked"
          /\ Key!Becomes(id, s)
    BY DEF Key!Remove
  <1>3. /\ keySeg' \in [Key!Ids -> {"absent", "live", "marked"}] /\ keySeg'[id] = s
        /\ \A x \in Key!Ids \ {id} : keySeg'[x] = keySeg[x]
    BY <1>1, <1>2 DEF Key!Becomes, KeyTypes
  <1>4. mem' \in [Key!Ids -> Data] /\ \A x \in Key!Ids \ {id} : mem'[x] = mem[x]
    <2>1. Key!Zeroed \in Data
      BY DEF Key!Zeroed, Data
    <2> QED BY <1>1, <1>2, <2>1 DEF Key!Becomes, KeyTypes
  <1>5. bound' = IF bound = id THEN Key!NoId ELSE bound
    BY DEF Key!Remove
  <1>6. \A x \in Key!Ids : Segment(x)'
    <2>1. \A x \in Key!Ids \ {id} : Segment(x)'
      BY <1>1, <1>3, <1>5, KeyIds DEF Segment
    <2>2. Segment(id)'
      BY <1>1, <1>2, <1>3, <1>5, KeyIds DEF Segment
    <2> QED BY <2>1, <2>2
  <1> QED BY <1>3, <1>4, <1>5, <1>6, KeyIds

\* The steps that map, unmap and remove a segment.
LEMMA MappingStep ==
  ASSUME KeyInv, NEW n \in Instances,
         \/ Key!Shmat(n) \/ Key!Fork(n) \/ Key!ParentDetach(n) \/ Key!ParentRemove(n)
              \/ Key!ChildExit(n)
  PROVE  KeyInv'
  <1> USE DEF ParentMaps, ChildMaps, BeforeFork, ParentPoints, ChildPoints
  <1>0. /\ KeyTypes /\ Roles(n) /\ Mappings(n) /\ Unbound(n) /\ Contents(n)
        /\ \A x \in Key!Ids : Segment(x)
        /\ Key!P(n) \in Key!Processes /\ Key!C(n) \in Key!Processes /\ Key!P(n) # Key!C(n)
        /\ \A j \in Instances \ {n} : {Key!P(j), Key!C(j)} \cap {Key!P(n), Key!C(n)} = {}
        /\ \A j \in Instances \ {n} : Key!P(j) \in Key!Processes /\ Key!C(j) \in Key!Processes
    BY KeyNames DEF KeyInv
  <1>1. shmid[n] \in Key!Ids /\ UNCHANGED shmid
    BY <1>0 DEF Key!Shmat, Key!Fork, Key!ParentDetach, Key!ParentRemove, Key!ChildExit, Roles,
        KeyTypes
  <1>2. Key!Alone(n)' <=> Key!Alone(n)
    BY <1>1 DEF Key!Alone
  <1>3. ASSUME NEW p \in {Key!P(n), Key!C(n)}, NEW at \in ParentPoints \cup ChildPoints,
      Key!Goto(p, at)
        PROVE  /\ keyPc' \in [Key!Processes -> ParentPoints \cup ChildPoints]
               /\ keyPc'[p] = at /\ \A q \in Key!Processes \ {p} : keyPc'[q] = keyPc[q]
    BY <1>0, <1>3 DEF Key!Goto, KeyTypes
  \* What the five steps have in common.
  <1>4. ASSUME keyPc' \in [Key!Processes -> ParentPoints \cup ChildPoints],
               \A q \in Key!Processes \ {Key!P(n), Key!C(n)} : keyPc'[q] = keyPc[q],
               keySeg' \in [Key!Ids -> {"absent", "live", "marked"}], mem' \in [Key!Ids -> Data],
               keyAttached' \in [Key!Ids -> SUBSET Key!Processes],
               \A x \in Key!Ids \ {shmid[n]} : mem'[x] = mem[x]
                   /\ keyAttached'[x] = keyAttached[x],
               \A q \in Key!Processes \ {Key!P(n), Key!C(n)} :
                 q \in keyAttached'[shmid[n]] <=> q \in keyAttached[shmid[n]],
               bound' \in {bound, Key!NoId},
               childSaw' \in [Instances -> Data],
               \A j \in Instances \ {n} : childSaw'[j] = childSaw[j],
               \A x \in Key!Ids : Segment(x)',
               Roles(n)', Mappings(n)', Unbound(n)', Contents(n)'
        PROVE  KeyInv'
    <2>1. KeyTypes'
      BY <1>0, <1>1, <1>4 DEF KeyTypes
    <2>2. Moves(n)
      BY <1>0, <1>1, <1>4 DEF Moves
    <2> QED BY <1>4, <2>1, <2>2, FromOne
  <1>5. mem \in [Key!Ids -> Data] /\ childSaw \in [Instances -> Data]
        /\ keySeg \in [Key!Ids -> {"absent", "live", "marked"}]
        /\ keyAttached \in [Key!Ids -> SUBSET Key!Processes]
    BY <1>0 DEF KeyTypes
  <1>6. CASE Key!Shmat(n)
    <2>1. keyPc[Key!P(n)] = "shmat" /\ UNCHANGED <<shmid, bound, keySeg, mem, childSaw>>
      BY <1>6 DEF Key!Shmat
    <2>2. CASE Key!Goto(Key!P(n), "remove") /\ UNCHANGED keyAttached
      <3>1. /\ keyPc' \in [Key!Processes -> ParentPoints \cup ChildPoints]
                 /\ keyPc'[Key!P(n)] = "remove"
            /\ \A q \in Key!Processes \ {Key!P(n)} : keyPc'[q] = keyPc[q]
        BY <1>3, <2>2
      <3>2. Roles(n)' /\ Contents(n)' /\ Unbound(n)'
        BY <1>0, <1>1, <1>2, <2>1, <3>1 DEF Roles, Contents, ChildLooks, Unbound
      <3>3. Mappings(n)'
        BY <1>0, <1>1, <2>1, <2>2, <3>1 DEF Mappings
      <3>4. \A x \in Key!Ids : Segment(x)'
        BY <1>0, <2>1, <2>2 DEF Segment
      <3> QED BY <1>4, <1>5, <2>1, <2>2, <3>1, <3>2, <3>3, <3>4
    <2>3. CASE /\ keySeg[shmid[n]] # "absent" /\ Key!Goto(Key!P(n), "init:counter")
               /\ keyAttached' = [keyAttached EXCEPT ![shmid[n]] = @ \cup {Key!P(n)}]
      <3>1. /\ keyPc' \in [Key!Processes -> ParentPoints \cup ChildPoints]
                 /\ keyPc'[Key!P(n)] = "init:counter"
            /\ \A q \in Key!Processes \ {Key!P(n)} : keyPc'[q] = keyPc[q]
        BY <1>3, <2>3
      <3>2. Roles(n)' /\ Contents(n)' /\ Unbound(n)'
        BY <1>0, <1>1, <1>2, <2>1, <3>1 DEF Roles, Contents, ChildLooks, Unbound
      <3>3. /\ keyAttached' \in [Key!Ids -> SUBSET Key!Processes]
            /\ keyAttached'[shmid[n]] = keyAttached[shmid[n]] \cup {Key!P(n)}
            /\ \A x \in Key!Ids \ {shmid[n]} : keyAttached'[x] = keyAttached[x]
        BY <1>0, <1>1, <1>5, <2>3
      <3>4. Mappings(n)'
        BY <1>0, <1>1, <2>1, <3>1, <3>3 DEF Mappings
      <3>5. \A x \in Key!Ids : Segment(x)'
        BY <1>0, <2>1, <2>3, <3>3 DEF Segment
      <3> QED BY <1>4, <1>5, <2>1, <3>1, <3>2, <3>3, <3>4, <3>5
    <2> QED BY <1>6, <2>2, <2>3 DEF Key!Shmat
  <1>7. CASE Key!Fork(n)
    <2>1. keyPc[Key!P(n)] = "fork" /\ UNCHANGED <<shmid, bound, keySeg, mem, childSaw>>
      BY <1>7 DEF Key!Fork
    <2>2. CASE Key!Goto(Key!P(n), "detach") /\ UNCHANGED keyAttached
      <3>1. /\ keyPc' \in [Key!Processes -> ParentPoints \cup ChildPoints]
                 /\ keyPc'[Key!P(n)] = "detach"
            /\ \A q \in Key!Processes \ {Key!P(n)} : keyPc'[q] = keyPc[q]
        BY <1>3, <2>2
      <3>2. Roles(n)' /\ Contents(n)' /\ Unbound(n)'
        BY <1>0, <1>1, <1>2, <2>1, <3>1 DEF Roles, Contents, ChildLooks, Unbound
      <3>3. Mappings(n)'
        BY <1>0, <1>1, <2>1, <2>2, <3>1 DEF Mappings
      <3>4. \A x \in Key!Ids : Segment(x)'
        BY <1>0, <2>1, <2>2 DEF Segment
      <3> QED BY <1>4, <1>5, <2>1, <2>2, <3>1, <3>2, <3>3, <3>4
    <2>3. CASE /\ keyPc' = [keyPc EXCEPT ![Key!P(n)] = "sleep", ![Key!C(n)] = "see:counter"]
               /\ keyAttached' = [keyAttached EXCEPT ![shmid[n]] = @ \cup {Key!C(n)}]
      <3>1. /\ keyPc' \in [Key!Processes -> ParentPoints \cup ChildPoints]
            /\ keyPc'[Key!P(n)] = "sleep" /\ keyPc'[Key!C(n)] = "see:counter"
            /\ \A q \in Key!Processes \ {Key!P(n), Key!C(n)} : keyPc'[q] = keyPc[q]
        BY <1>0, <2>3 DEF KeyTypes
      <3>2. Roles(n)' /\ Contents(n)' /\ Unbound(n)'
        BY <1>0, <1>1, <1>2, <2>1, <3>1, KeyIds DEF Roles, Contents, ChildLooks, Unbound
      <3>3. /\ keyAttached' \in [Key!Ids -> SUBSET Key!Processes]
            /\ keyAttached'[shmid[n]] = keyAttached[shmid[n]] \cup {Key!C(n)}
            /\ \A x \in Key!Ids \ {shmid[n]} : keyAttached'[x] = keyAttached[x]
        BY <1>0, <1>1, <1>5, <2>3
      <3>4. Mappings(n)'
        BY <1>0, <1>1, <2>1, <3>1, <3>3 DEF Mappings
      <3>5. \A x \in Key!Ids : Segment(x)'
        <4>1. keyAttached[shmid[n]] # {}
          BY <1>0, <1>1, <2>1 DEF Mappings
        <4> QED BY <1>0, <1>1, <2>1, <3>3, <4>1 DEF Segment
      <3> QED BY <1>4, <1>5, <2>1, <3>1, <3>2, <3>3, <3>4, <3>5
    <2> QED BY <1>7, <2>2, <2>3 DEF Key!Fork
  <1>8. CASE Key!ParentDetach(n)
    <2>1. /\ keyPc[Key!P(n)] = "detach" /\ UNCHANGED <<shmid, bound, childSaw>>
          /\ Key!Detach(shmid[n], Key!P(n)) /\ Key!Goto(Key!P(n), "remove")
      BY <1>8 DEF Key!ParentDetach
    <2>2. /\ keyPc' \in [Key!Processes -> ParentPoints \cup ChildPoints]
               /\ keyPc'[Key!P(n)] = "remove"
          /\ \A q \in Key!Processes \ {Key!P(n)} : keyPc'[q] = keyPc[q]
      BY <1>3, <2>1
    <2>3. /\ keySeg' \in [Key!Ids -> {"absent", "live", "marked"}] /\ mem' \in [Key!Ids -> Data]
          /\ keyAttached' \in [Key!Ids -> SUBSET Key!Processes]
          /\ \A x \in Key!Ids : Segment(x)'
          /\ \A x \in Key!Ids \ {shmid[n]} : mem'[x] = mem[x] /\ keyAttached'[x] = keyAttached[x]
          /\ keyAttached'[shmid[n]] = keyAttached[shmid[n]] \ {Key!P(n)}
      BY <1>0, <1>1, <2>1, DetachSegments
    <2>4. Roles(n)' /\ Contents(n)' /\ Unbound(n)'
      BY <1>0, <1>1, <1>2, <2>1, <2>2 DEF Roles, Contents, ChildLooks, Unbound
    <2>5. Mappings(n)'
      BY <1>0, <1>1, <2>1, <2>2, <2>3 DEF Mappings
    <2> QED BY <1>4, <1>5, <2>1, <2>2, <2>3, <2>4, <2>5
  <1>9. CASE Key!ChildExit(n)
    <2>1. /\ keyPc[Key!C(n)] = "detach" /\ UNCHANGED <<shmid, bound, childSaw>>
          /\ Key!Detach(shmid[n], Key!C(n)) /\ Key!Goto(Key!C(n), "zombie")
      BY <1>9 DEF Key!ChildExit
    <2>2. /\ keyPc' \in [Key!Processes -> ParentPoints \cup ChildPoints]
               /\ keyPc'[Key!C(n)] = "zombie"
          /\ \A q \in Key!Processes \ {Key!C(n)} : keyPc'[q] = keyPc[q]
      BY <1>3, <2>1
    <2>3. /\ keySeg' \in [Key!Ids -> {"absent", "live", "marked"}] /\ mem' \in [Key!Ids -> Data]
          /\ keyAttached' \in [Key!Ids -> SUBSET Key!Processes]
          /\ \A x \in Key!Ids : Segment(x)'
          /\ \A x \in Key!Ids \ {shmid[n]} : mem'[x] = mem[x] /\ keyAttached'[x] = keyAttached[x]
          /\ keyAttached'[shmid[n]] = keyAttached[shmid[n]] \ {Key!C(n)}
      BY <1>0, <1>1, <2>1, DetachSegments
    <2>4. Roles(n)' /\ Contents(n)' /\ Unbound(n)'
      BY <1>0, <1>1, <1>2, <2>1, <2>2 DEF Roles, Contents, ChildLooks, Unbound
    <2>5. Mappings(n)'
      BY <1>0, <1>1, <2>1, <2>2, <2>3 DEF Mappings
    <2> QED BY <1>4, <1>5, <2>1, <2>2, <2>3, <2>4, <2>5
  <1>10. CASE Key!ParentRemove(n)
    <2>1. /\ keyPc[Key!P(n)] = "remove" /\ UNCHANGED <<shmid, keyAttached>>
          /\ Key!Remove(shmid[n]) /\ Key!Goto(Key!P(n), "returned")
          /\ childSaw' = [childSaw EXCEPT ![n] = Key!Initial]
      BY <1>10 DEF Key!ParentRemove
    <2>2. /\ keyPc' \in [Key!Processes -> ParentPoints \cup ChildPoints]
               /\ keyPc'[Key!P(n)] = "returned"
          /\ \A q \in Key!Processes \ {Key!P(n)} : keyPc'[q] = keyPc[q]
      BY <1>3, <2>1
    <2>3. /\ keySeg' \in [Key!Ids -> {"absent", "live", "marked"}] /\ mem' \in [Key!Ids -> Data]
          /\ \A x \in Key!Ids : Segment(x)'
          /\ \A x \in Key!Ids \ {shmid[n]} : mem'[x] = mem[x]
          /\ bound' \in {bound, Key!NoId} /\ bound' # shmid[n]
      BY <1>1, <2>1, RemoveSegments
    <2>4. /\ childSaw'[n] = Key!Initial /\ childSaw' \in [Instances -> Data]
          /\ \A j \in Instances \ {n} : childSaw'[j] = childSaw[j]
      <3>1. Key!Initial \in Data
        BY DEF Key!Initial, Data
      <3> QED BY <1>5, <2>1, <3>1
    <2>5. Roles(n)' /\ Contents(n)' /\ Unbound(n)'
      BY <1>0, <1>1, <1>2, <2>1, <2>2, <2>3, <2>4 DEF Roles, Contents, ChildLooks, Unbound
    <2>6. Mappings(n)'
      BY <1>0, <1>1, <2>1, <2>2 DEF Mappings
    <2> QED BY <1>4, <1>5, <2>1, <2>2, <2>3, <2>4, <2>5, <2>6
  <1> QED BY <1>6, <1>7, <1>8, <1>9, <1>10

\* shmget finds the segment of the key or creates one nobody has.
LEMMA ShmgetStep ==
  ASSUME KeyInv, NEW n \in Instances, Key!Shmget(n)
  PROVE  KeyInv'
  <1> USE DEF ParentMaps, ChildMaps, BeforeFork, ParentPoints, ChildPoints
  <1>0. /\ KeyTypes /\ Roles(n) /\ Mappings(n) /\ Unbound(n) /\ Contents(n)
        /\ \A x \in Key!Ids : Segment(x)
        /\ Key!P(n) \in Key!Processes /\ Key!C(n) \in Key!Processes /\ Key!P(n) # Key!C(n)
        /\ \A j \in Instances \ {n} : {Key!P(j), Key!C(j)} \cap {Key!P(n), Key!C(n)} = {}
        /\ \A j \in Instances \ {n} : Key!P(j) \in Key!Processes /\ Key!C(j) \in Key!Processes
    BY KeyNames DEF KeyInv
  <1>1. /\ keyPc[Key!P(n)] = "shmget" /\ shmid[n] = Key!NoId /\ keyPc[Key!C(n)] = "none"
        /\ UNCHANGED <<keyAttached, childSaw>>
    BY <1>0 DEF Key!Shmget, Roles
  <1>2. PICK at \in {"shmat", "returned"} : Key!Goto(Key!P(n), at)
    BY DEF Key!Shmget
  <1>3. /\ keyPc' \in [Key!Processes -> ParentPoints \cup ChildPoints] /\ keyPc'[Key!P(n)] = at
        /\ \A q \in Key!Processes \ {Key!P(n)} : keyPc'[q] = keyPc[q]
    BY <1>0, <1>2 DEF Key!Goto, KeyTypes
  <1>4. ASSUME NEW id \in Key!Ids \cup {Key!NoId}, shmid' = [shmid EXCEPT ![n] = id],
               at = "shmat" <=> id # Key!NoId,
               keySeg' \in [Key!Ids -> {"absent", "live", "marked"}], mem' \in [Key!Ids -> Data],
               \A x \in Key!Ids : x # id => mem'[x] = mem[x],
               bound' \in Key!Ids \cup {Key!NoId},
               bound' = bound \/ \A j \in Instances : bound' # shmid[j],
               \A x \in Key!Ids : Segment(x)'
        PROVE  KeyInv'
    <2>1. shmid' \in [Instances -> Key!Ids \cup {Key!NoId}] /\ shmid'[n] = id
          /\ \A j \in Instances \ {n} : shmid'[j] = shmid[j]
      BY <1>0, <1>4 DEF KeyTypes
    <2>2. KeyTypes'
      BY <1>0, <1>1, <1>3, <1>4, <2>1 DEF KeyTypes
    <2>3. Moves(n)
      BY <1>0, <1>1, <1>3, <1>4, <2>1 DEF Moves
    <2>4. Roles(n)' /\ Unbound(n)'
      BY <1>0, <1>1, <1>2, <1>3, <1>4, <2>1 DEF Roles, Unbound
    <2>5. Contents(n)'
      BY <1>0, <1>1, <1>2, <1>3 DEF Contents, ChildLooks
    <2>6. Mappings(n)'
      BY <1>0, <1>1, <1>2, <1>3 DEF Mappings
    <2> QED BY <1>4, <2>2, <2>3, <2>4, <2>5, <2>6, FromOne
  <1>5. keySeg \in [Key!Ids -> {"absent", "live", "marked"}] /\ mem \in [Key!Ids -> Data]
        /\ bound \in Key!Ids \cup {Key!NoId} /\ shmid \in [Instances -> Key!Ids \cup {Key!NoId}]
        /\ keyAttached \in [Key!Ids -> SUBSET Key!Processes]
    BY <1>0 DEF KeyTypes
  <1>6. keyPc[Key!P(n)] # "shmat" /\ keyPc'[Key!P(n)] = at
    BY <1>1, <1>3
  <1>7. CASE /\ bound # Key!NoId /\ shmid' = [shmid EXCEPT ![n] = bound]
             /\ Key!Goto(Key!P(n), "shmat") /\ UNCHANGED <<bound, keySeg, mem>>
    <2>1. at = "shmat"
      BY <1>0, <1>3, <1>7 DEF Key!Goto, KeyTypes
    <2>2. \A x \in Key!Ids : Segment(x)'
      BY <1>0, <1>1, <1>7 DEF Segment
    <2> QED BY <1>4, <1>5, <1>7, <2>1, <2>2
  <1>8. CASE Key!Goto(Key!P(n), "returned") /\ UNCHANGED <<shmid, bound, keySeg, mem>>
    <2>1. at = "returned"
      BY <1>0, <1>3, <1>8 DEF Key!Goto, KeyTypes
    <2>2. \A x \in Key!Ids : Segment(x)'
      BY <1>0, <1>1, <1>8 DEF Segment
    <2>3. shmid' = [shmid EXCEPT ![n] = Key!NoId]
      BY <1>1, <1>5, <1>8
    <2> QED BY <1>4, <1>5, <1>8, <2>1, <2>2, <2>3
  <1> DEFINE id == CHOOSE x \in Key!NewIds : x \notin {shmid[j] : j \in Instances}
  <1>9. CASE /\ bound = Key!NoId /\ shmid' = [shmid EXCEPT ![n] = id]
             /\ bound' = id /\ keySeg' = [keySeg EXCEPT ![id] = "live"]
             /\ mem' = [mem EXCEPT ![id] = Key!Zeroed] /\ Key!Goto(Key!P(n), "shmat")
    <2>1. id \in Key!NewIds /\ id \notin {shmid[j] : j \in Instances}
      BY <1>1, FreshId
    <2> HIDE DEF id
    <2>2. id \in Key!Ids /\ id # Key!NoId /\ \A j \in Instances : id # shmid[j]
      BY <2>1, KeyIds
    <2>3. at = "shmat"
      BY <1>0, <1>3, <1>9 DEF Key!Goto, KeyTypes
    <2>4. Key!Zeroed \in Data
      BY DEF Key!Zeroed, Data
    <2>5. /\ keySeg' \in [Key!Ids -> {"absent", "live", "marked"}] /\ mem' \in [Key!Ids -> Data]
          /\ \A x \in Key!Ids : x # id => mem'[x] = mem[x] /\ keySeg'[x] = keySeg[x]
          /\ keySeg'[id] = "live"
      BY <1>5, <1>9, <2>2, <2>4
    <2>6. keyAttached[id] = {}
      <3>1. \A j \in Instances : Key!P(j) \notin keyAttached[id]
          /\ Key!C(j) \notin keyAttached[id]
        BY <2>2 DEF KeyInv, Mappings
      <3> QED BY <1>5, <2>2, <3>1, KeyNames
    <2>7. \A x \in Key!Ids : Segment(x)'
      BY <1>0, <1>1, <1>9, <2>2, <2>5, <2>6, KeyIds DEF Segment
    <2> QED BY <1>4, <1>9, <2>2, <2>3, <2>5, <2>7
  <1> QED BY <1>7, <1>8, <1>9 DEF Key!Shmget

\* Every step of any copy keeps KeyInv.
LEMMA KeyStep == KeyInv /\ [Key!Next]_(Key!vars) => KeyInv'
  <1> SUFFICES ASSUME KeyInv, [Key!Next]_(Key!vars) PROVE KeyInv'
    OBVIOUS
  <1>1. ASSUME NEW n \in Instances, Key!Parent(n) \/ Key!Child(n) PROVE KeyInv'
    BY <1>1, AccessStep, MappingStep, ShmgetStep DEF Key!Parent, Key!Child
  <1>2. CASE UNCHANGED Key!vars
    BY <1>2 DEF Key!vars, KeyInv, KeyTypes, Segment, Roles, Mappings, Unbound, Contents,
                ChildLooks, Key!Alone
  <1> QED BY <1>1, <1>2 DEF Key!Next, Key!Terminated

-----------------------------------------------------------------------------
(* What the parent reads                                                   *)

\* What the child of copy n has written so far is in the segment, if no other
\* copy was given it.
Wrote(n) ==
  Key!Alone(n) =>
    /\ keyPc[Key!C(n)] \in {"set:message", "set:writer", "detach", "zombie"}
         => mem[shmid[n]].counter = 42
    /\ keyPc[Key!C(n)] \in {"set:writer", "detach", "zombie"}
         => mem[shmid[n]].message = "modified"
    /\ keyPc[Key!C(n)] \in {"detach", "zombie"} => mem[shmid[n]].writer = 1

SawTypes == parentSaw \in [Instances -> Data]

ReadInv == SawTypes /\ \A n \in Instances : Wrote(n)

\* A step of copy j changes no segment but its own, and nothing another copy
\* keeps for itself.
LEMMA StepOfOther ==
  ASSUME KeyInv, SawTypes, NEW j \in Instances, Key!Parent(j) \/ Key!Child(j),
         NEW n \in Instances \ {j}, shmid[n] # Key!NoId
  PROVE  /\ UNCHANGED <<keyPc[Key!P(n)], keyPc[Key!C(n)], shmid[n], parentSaw[n]>>
         /\ Key!Alone(n)' => Key!Alone(n) /\ mem'[shmid[n]] = mem[shmid[n]]
  <1>0. /\ KeyTypes /\ Roles(j) /\ Key!P(n) \in Key!Processes /\ Key!C(n) \in Key!Processes
        /\ {Key!P(n), Key!C(n)} \cap {Key!P(j), Key!C(j)} = {} /\ shmid[n] \in Key!Ids
        /\ Key!P(j)[1] = j /\ Key!C(j)[1] = j
    BY KeyNames DEF KeyInv, KeyTypes
  <1> DEFINE Local == /\ keyPc'[Key!P(n)] = keyPc[Key!P(n)]
                      /\ keyPc'[Key!C(n)] = keyPc[Key!C(n)]
                      /\ shmid'[n] = shmid[n] /\ parentSaw'[n] = parentSaw[n]
                      /\ \A l \in Instances \ {j} : shmid'[l] = shmid[l]
                      /\ shmid[j] \in {Key!NoId, shmid'[j]}
                      /\ shmid'[j] # shmid[n] => mem'[shmid[n]] = mem[shmid[n]]
  <1> SUFFICES Local
    BY DEF Key!Alone
  <1> USE DEF KeyTypes, SawTypes, Key!Goto
  <1>1. CASE Key!Shmget(j)
    <2>1. shmid[j] = Key!NoId
      BY <1>0, <1>1 DEF Roles, Key!Shmget
    <2> DEFINE id == CHOOSE x \in Key!NewIds : x \notin {shmid[l] : l \in Instances}
    <2>2. id # shmid[n]
      BY <2>1, FreshId
    <2> HIDE DEF id
    <2>3. CASE UNCHANGED mem
      BY <1>0, <1>1, <2>1, <2>3 DEF Key!Shmget
    <2>4. CASE mem' = [mem EXCEPT ![id] = Key!Zeroed] /\ shmid' = [shmid EXCEPT ![j] = id]
      BY <1>0, <1>1, <2>1, <2>2, <2>4 DEF Key!Shmget
    <2> QED BY <1>1, <2>3, <2>4 DEF Key!Shmget, id
  <1>2. CASE Key!Shmat(j) BY <1>0, <1>2 DEF Key!Shmat
  <1>3. CASE Key!Initialize(j) BY <1>0, <1>3, ZenonT(60) DEF Key!Initialize, Key!Store
  <1>4. CASE Key!Fork(j) BY <1>0, <1>4 DEF Key!Fork
  <1>5. CASE Key!Awake(j) BY <1>0, <1>5 DEF Key!Awake
  <1>6. CASE \/ Key!ParentReads(j, "see:counter", "counter", "see:message")
             \/ Key!ParentReads(j, "see:message", "message", "see:writer")
             \/ Key!ParentReads(j, "see:writer", "writer", "wait")
    BY <1>0, <1>6 DEF Key!ParentReads
  <1>7. CASE Key!Wait(j) BY <1>0, <1>7 DEF Key!Wait
  <1>8. CASE Key!ParentDetach(j)
    BY <1>0, <1>8 DEF Key!ParentDetach, Key!Detach, Key!Becomes
  <1>9. CASE Key!ParentRemove(j)
    BY <1>0, <1>9 DEF Key!ParentRemove, Key!Remove, Key!Becomes
  <1>10. CASE Key!Modify(j) BY <1>0, <1>10, ZenonT(60) DEF Key!Modify, Key!Store
  <1>11. CASE Key!ChildExit(j)
    BY <1>0, <1>11 DEF Key!ChildExit, Key!Detach, Key!Becomes
  <1>12. CASE \/ Key!ChildReads(j, "see:counter", "counter", "see:message")
              \/ Key!ChildReads(j, "see:message", "message", "set:counter")
    BY <1>0, <1>12 DEF Key!ChildReads
  <1> QED BY <1>1, <1>2, <1>3, <1>4, <1>5, <1>6, <1>7, <1>8, <1>9, <1>10, <1>11, <1>12
          DEF Key!Parent, Key!Child

\* The child's three assignments, one field each.
LEMMA ModifyFields ==
  ASSUME KeyInv, NEW n \in Instances, NEW at, NEW field, NEW value, NEW next,
         Key!Store(Key!C(n), at, field, value, next), shmid[n] \in Key!Ids,
         \/ field = "counter" /\ value = 42
         \/ field = "message" /\ value = "modified"
         \/ field = "writer" /\ value = 1
  PROVE  /\ mem'[shmid[n]].counter
              = IF field = "counter" THEN 42 ELSE mem[shmid[n]].counter
         /\ mem'[shmid[n]].message
              = IF field = "message" THEN "modified" ELSE mem[shmid[n]].message
         /\ mem'[shmid[n]].writer
              = IF field = "writer" THEN 1 ELSE mem[shmid[n]].writer
  <1>1. mem \in [Key!Ids -> Data] /\ mem' = [mem EXCEPT ![shmid[n]][field] = value]
    BY KeyNames DEF Key!Store, KeyInv, KeyTypes
  <1>2. mem'[shmid[n]] = [mem[shmid[n]] EXCEPT ![field] = value] /\ mem[shmid[n]] \in Data
    BY <1>1
  <1>3. CASE field = "counter" /\ value = 42 BY <1>2, <1>3 DEF Data
  <1>4. CASE field = "message" /\ value = "modified" BY <1>2, <1>4 DEF Data
  <1>5. CASE field = "writer" /\ value = 1 BY <1>2, <1>5 DEF Data
  <1> QED BY <1>3, <1>4, <1>5

\* A step of copy n keeps what its child has written.
LEMMA OwnWrote ==
  ASSUME KeyInv, NEW n \in Instances, Wrote(n), Key!Parent(n) \/ Key!Child(n)
  PROVE  Wrote(n)'
  <1> USE DEF ParentMaps, ChildMaps, BeforeFork, ParentPoints, ChildPoints
  <1>0. /\ KeyTypes /\ Roles(n) /\ Mappings(n) /\ Key!P(n) \in Key!Processes
        /\ Key!C(n) \in Key!Processes /\ Key!P(n) # Key!C(n) /\ Key!C(n)[1] = n
    BY KeyNames DEF KeyInv
  <1>1. CASE keyPc'[Key!C(n)] \in {"none", "reaped", "see:counter", "see:message",
                                   "set:counter"}
    BY <1>1 DEF Wrote
  <1>2. CASE Key!Modify(n)
    <2>1. shmid[n] \in Key!Ids /\ UNCHANGED shmid
      BY <1>0, <1>2 DEF Key!Modify, Key!Store, Roles, KeyTypes
    <2>2. Key!Alone(n)' <=> Key!Alone(n)
      BY <2>1 DEF Key!Alone
    <2>3. CASE Key!Store(Key!C(n), "set:counter", "counter", 42, "set:message")
      <3>1. keyPc'[Key!C(n)] = "set:message"
        BY <1>0, <2>3 DEF Key!Store, Key!Goto, KeyTypes
      <3>2. mem'[shmid[n]].counter = 42
        BY <2>1, <2>3, ModifyFields
      <3> QED BY <2>1, <3>1, <3>2 DEF Wrote
    <2>4. CASE Key!Store(Key!C(n), "set:message", "message", "modified", "set:writer")
      <3>1. keyPc[Key!C(n)] = "set:message" /\ keyPc'[Key!C(n)] = "set:writer"
        BY <1>0, <2>4 DEF Key!Store, Key!Goto, KeyTypes
      <3>2. /\ mem'[shmid[n]].counter = mem[shmid[n]].counter
            /\ mem'[shmid[n]].message = "modified"
        BY <2>1, <2>4, ModifyFields
      <3> QED BY <2>1, <2>2, <3>1, <3>2 DEF Wrote
    <2>5. CASE Key!Store(Key!C(n), "set:writer", "writer", 1, "detach")
      <3>1. keyPc[Key!C(n)] = "set:writer" /\ keyPc'[Key!C(n)] = "detach"
        BY <1>0, <2>5 DEF Key!Store, Key!Goto, KeyTypes
      <3>2. /\ mem'[shmid[n]].counter = mem[shmid[n]].counter
            /\ mem'[shmid[n]].message = mem[shmid[n]].message
            /\ mem'[shmid[n]].writer = 1
        BY <2>1, <2>5, ModifyFields
      <3> QED BY <2>1, <2>2, <3>1, <3>2 DEF Wrote
    <2> QED BY <1>2, <2>3, <2>4, <2>5 DEF Key!Modify
  <1>3. CASE Key!ChildExit(n)
    <2>1. /\ keyPc[Key!C(n)] = "detach" /\ keyPc'[Key!C(n)] = "zombie" /\ UNCHANGED shmid
          /\ keyPc[Key!P(n)] \in ParentMaps
      BY <1>0, <1>3 DEF Key!ChildExit, Key!Goto, Roles, KeyTypes
    <2>2. shmid[n] \in Key!Ids /\ Key!P(n) \in keyAttached[shmid[n]]
      BY <1>0, <2>1 DEF Roles, Mappings, KeyTypes
    <2>3. UNCHANGED mem
      <3>1. ~(keyAttached[shmid[n]] \subseteq {Key!C(n)})
        BY <1>0, <2>2
      <3>2. keySeg[shmid[n]] # "absent"
        BY <2>2 DEF KeyInv, Segment
      <3> QED BY <1>3, <3>1, <3>2 DEF Key!ChildExit, Key!Detach, Key!Becomes
    <2>4. Key!Alone(n)' <=> Key!Alone(n)
      BY <2>1 DEF Key!Alone
    <2> QED BY <2>1, <2>3, <2>4 DEF Wrote
  <1>4. CASE \/ Key!Awake(n)
             \/ Key!ParentReads(n, "see:counter", "counter", "see:message")
             \/ Key!ParentReads(n, "see:message", "message", "see:writer")
             \/ Key!ParentReads(n, "see:writer", "writer", "wait")
    <2>1. UNCHANGED <<mem, shmid>> /\ keyPc'[Key!C(n)] = keyPc[Key!C(n)]
      BY <1>0, <1>4 DEF Key!Awake, Key!ParentReads, Key!Goto, KeyTypes
    <2>2. Key!Alone(n)' <=> Key!Alone(n)
      BY <2>1 DEF Key!Alone
    <2> QED BY <2>1, <2>2 DEF Wrote
  <1>5. CASE \/ Key!ChildReads(n, "see:counter", "counter", "see:message")
             \/ Key!ChildReads(n, "see:message", "message", "set:counter")
    <2>1. keyPc'[Key!C(n)] \in {"see:message", "set:counter"}
      BY <1>0, <1>5 DEF Key!ChildReads, Key!Goto, KeyTypes
    <2> QED BY <1>1, <2>1
  <1>6. CASE \/ Key!Shmget(n) \/ Key!Shmat(n) \/ Key!Initialize(n) \/ Key!Fork(n)
             \/ Key!Wait(n) \/ Key!ParentDetach(n) \/ Key!ParentRemove(n)
    <2>1. keyPc'[Key!C(n)] \in {"none", "reaped", "see:counter"}
      BY <1>0, <1>6 DEF Key!Shmget, Key!Shmat, Key!Initialize, Key!Store, Key!Fork, Key!Wait,
         Key!ParentDetach, Key!ParentRemove, Key!Goto, KeyTypes, Roles
    <2> QED BY <1>1, <2>1
  <1> QED BY <1>2, <1>3, <1>4, <1>5, <1>6 DEF Key!Parent, Key!Child

\* What the parent has printed are fields of the structure.
LEMMA SawStep ==
  ASSUME KeyInv, SawTypes, [Key!Next]_(Key!vars)
  PROVE  SawTypes'
  <1>1. mem \in [Key!Ids -> Data] /\ Key!Zeroed \in Data
    BY DEF KeyInv, KeyTypes, Key!Zeroed, Data
  <1>2. ASSUME NEW n \in Instances, NEW at, NEW field \in {"counter", "message", "writer"},
               NEW next, Key!ParentReads(n, at, field, next), shmid[n] \in Key!Ids
        PROVE  SawTypes'
    <2>1. parentSaw' = [parentSaw EXCEPT ![n][field] = mem[shmid[n]][field]]
      BY <1>2 DEF Key!ParentReads
    <2>2. [parentSaw[n] EXCEPT ![field] = mem[shmid[n]][field]] \in Data
      <3>1. parentSaw[n] \in Data /\ mem[shmid[n]] \in Data
        BY <1>1, <1>2 DEF SawTypes
      <3>2. CASE field = "counter" BY <3>1, <3>2 DEF Data
      <3>3. CASE field = "message" BY <3>1, <3>3 DEF Data
      <3>4. CASE field = "writer" BY <3>1, <3>4 DEF Data
      <3> QED BY <1>2, <3>2, <3>3, <3>4
    <2> QED BY <2>1, <2>2 DEF SawTypes
  <1>3. ASSUME NEW n \in Instances, Key!Parent(n) PROVE SawTypes'
    <2>1. CASE \/ Key!ParentReads(n, "see:counter", "counter", "see:message")
               \/ Key!ParentReads(n, "see:message", "message", "see:writer")
               \/ Key!ParentReads(n, "see:writer", "writer", "wait")
      <3>1. shmid[n] \in Key!Ids
        BY <2>1 DEF Key!ParentReads, KeyInv, KeyTypes, Roles, ParentMaps
      <3> QED BY <1>2, <2>1, <3>1
    <2>2. CASE Key!ParentRemove(n)
      BY <1>1, <2>2 DEF Key!ParentRemove, SawTypes
    <2>3. CASE UNCHANGED parentSaw
      BY <2>3 DEF SawTypes
    <2> QED BY <1>3, <2>1, <2>2, <2>3 DEF Key!Parent, Key!Shmget, Key!Shmat, Key!Initialize,
           Key!Store, Key!Fork, Key!Awake, Key!Wait, Key!ParentDetach
  <1>4. ASSUME NEW n \in Instances, Key!Child(n) PROVE SawTypes'
    BY <1>4 DEF Key!Child, Key!ChildReads, Key!Modify, Key!Store, Key!ChildExit, SawTypes
  <1>5. CASE UNCHANGED Key!vars
    BY <1>5 DEF Key!vars, SawTypes
  <1> QED BY <1>3, <1>4, <1>5 DEF Key!Next, Key!Terminated

\* ReadInv holds throughout.
LEMMA ReadStep == KeyInv /\ ReadInv /\ [Key!Next]_(Key!vars) => ReadInv'
  <1> SUFFICES ASSUME KeyInv, ReadInv, [Key!Next]_(Key!vars) PROVE ReadInv'
    OBVIOUS
  <1>1. SawTypes'
    BY SawStep DEF ReadInv
  <1>2. ASSUME NEW j \in Instances, Key!Parent(j) \/ Key!Child(j), NEW n \in Instances
        PROVE  Wrote(n)'
    <2>1. CASE n = j
      BY <1>2, <2>1, OwnWrote DEF ReadInv
    <2>2. CASE n # j /\ shmid[n] # Key!NoId
      <3>1. /\ keyPc'[Key!C(n)] = keyPc[Key!C(n)] /\ shmid'[n] = shmid[n]
            /\ Key!Alone(n)' => Key!Alone(n) /\ mem'[shmid[n]] = mem[shmid[n]]
        BY <1>2, <2>2, StepOfOther DEF ReadInv
      <3> QED BY <1>2, <3>1 DEF ReadInv, Wrote
    <2>3. CASE n # j /\ shmid[n] = Key!NoId
      <3>1. keyPc[Key!C(n)] = "none"
        BY <2>3 DEF KeyInv, Roles
      <3>2. keyPc'[Key!C(n)] = keyPc[Key!C(n)]
        <4>1. /\ Key!C(n) # Key!P(j) /\ Key!C(n) # Key!C(j) /\ Key!C(n) \in Key!Processes
              /\ KeyTypes
          BY <2>3, KeyNames DEF KeyInv
        <4> QED BY <1>2, <4>1 DEF Key!Parent, Key!Child, Key!Shmget, Key!Shmat,
              Key!Initialize, Key!Store, Key!Fork, Key!Awake, Key!ParentReads, Key!Wait,
              Key!ParentDetach, Key!ParentRemove, Key!Modify, Key!ChildReads,
              Key!ChildExit, Key!Goto, KeyTypes
      <3> QED BY <3>1, <3>2 DEF Wrote
    <2> QED BY <2>1, <2>2, <2>3
  <1>3. CASE UNCHANGED Key!vars
    BY <1>1, <1>3 DEF Key!vars, ReadInv, Wrote, Key!Alone
  <1> QED BY <1>1, <1>2, <1>3 DEF Key!Next, Key!Terminated, ReadInv

\* The child of copy n was done when sleep(1) returned, no other copy was given
\* the segment, and what the parent has printed so far is what the child wrote.
InTime(n) ==
  /\ Key!Alone(n) /\ keyPc[Key!C(n)] \in {"detach", "zombie"}
  /\ keyPc[Key!P(n)] \in {"see:counter", "see:message", "see:writer", "wait"}
  /\ keyPc[Key!P(n)] # "see:counter" => parentSaw[n].counter = 42
  /\ keyPc[Key!P(n)] \in {"see:writer", "wait"} => parentSaw[n].message = "modified"
  /\ keyPc[Key!P(n)] = "wait" => parentSaw[n].writer = 1

\* InTime is left only by another copy that finds the key, or by wait() when
\* all has been read.
StaysInTime(n) ==
  InTime(n) => \/ InTime(n)' \/ ~Key!Alone(n)'
               \/ keyPc[Key!P(n)] = "wait" /\ parentSaw[n] = Key!Modified

\* All three fields read are the whole of what the child wrote.
LEMMA WaitInTime ==
  ASSUME SawTypes, NEW n \in Instances, InTime(n), keyPc[Key!P(n)] = "wait"
  PROVE  parentSaw[n] = Key!Modified
  BY DEF SawTypes, InTime, Data, Key!Modified

\* A read of one field.
LEMMA FieldRead ==
  ASSUME SawTypes, NEW n \in Instances, NEW at, NEW next, Key!P(n) \in Key!Processes, KeyTypes,
         NEW field \in {"counter", "message", "writer"}, Key!ParentReads(n, at, field, next)
  PROVE  /\ keyPc[Key!P(n)] = at /\ keyPc'[Key!P(n)] = next /\ UNCHANGED <<shmid, mem>>
         /\ \A p \in Key!Processes \ {Key!P(n)} : keyPc'[p] = keyPc[p]
         /\ parentSaw'[n].counter
              = IF field = "counter" THEN mem[shmid[n]].counter ELSE parentSaw[n].counter
         /\ parentSaw'[n].message
              = IF field = "message" THEN mem[shmid[n]].message ELSE parentSaw[n].message
         /\ parentSaw'[n].writer
              = IF field = "writer" THEN mem[shmid[n]].writer ELSE parentSaw[n].writer
  <1>1. /\ keyPc[Key!P(n)] = at /\ keyPc'[Key!P(n)] = next /\ UNCHANGED <<shmid, mem>>
        /\ \A p \in Key!Processes \ {Key!P(n)} : keyPc'[p] = keyPc[p]
    BY DEF Key!ParentReads, Key!Goto, KeyTypes
  <1>2. parentSaw'[n] = [parentSaw[n] EXCEPT ![field] = mem[shmid[n]][field]]
        /\ parentSaw[n] \in Data
    BY DEF Key!ParentReads, SawTypes
  <1>3. CASE field = "counter" BY <1>1, <1>2, <1>3 DEF Data
  <1>4. CASE field = "message" BY <1>1, <1>2, <1>4 DEF Data
  <1>5. CASE field = "writer" BY <1>1, <1>2, <1>5 DEF Data
  <1> QED BY <1>3, <1>4, <1>5

\* Every step of any copy keeps a parent that is in time in time.
LEMMA InTimeStep ==
  ASSUME KeyInv, ReadInv, [Key!Next]_(Key!vars), NEW n \in Instances
  PROVE  StaysInTime(n)
  <1> SUFFICES ASSUME InTime(n), Key!Alone(n)',
                      ~(keyPc[Key!P(n)] = "wait" /\ parentSaw[n] = Key!Modified)
               PROVE  InTime(n)'
    BY DEF StaysInTime
  <1>0. /\ KeyTypes /\ SawTypes /\ Roles(n) /\ Wrote(n) /\ Key!P(n) \in Key!Processes
        /\ Key!C(n) \in Key!Processes /\ Key!P(n) # Key!C(n)
    BY KeyNames DEF KeyInv, ReadInv
  <1>1. keyPc[Key!P(n)] # "wait"
    BY <1>0, WaitInTime
  <1>2. /\ mem[shmid[n]].counter = 42 /\ mem[shmid[n]].message = "modified"
        /\ mem[shmid[n]].writer = 1 /\ keyPc[Key!C(n)] \in {"detach", "zombie"}
        /\ keyPc[Key!P(n)] \in {"see:counter", "see:message", "see:writer"}
    BY <1>0, <1>1 DEF InTime, Wrote
  <1>3. ASSUME NEW j \in Instances \ {n}, Key!Parent(j) \/ Key!Child(j) PROVE InTime(n)'
    <2>1. shmid[n] # Key!NoId
      BY <1>0, <1>2 DEF Roles
    <2>2. UNCHANGED <<keyPc[Key!P(n)], keyPc[Key!C(n)], shmid[n], parentSaw[n]>>
      BY <1>0, <1>3, <2>1, StepOfOther
    <2> QED BY <2>2 DEF InTime
  <1>4. CASE Key!Parent(n)
    <2>1. \/ Key!ParentReads(n, "see:counter", "counter", "see:message")
          \/ Key!ParentReads(n, "see:message", "message", "see:writer")
          \/ Key!ParentReads(n, "see:writer", "writer", "wait")
      BY <1>2, <1>4 DEF Key!Parent, Key!Shmget, Key!Shmat, Key!Initialize, Key!Store, Key!Fork,
         Key!Awake, Key!Wait, Key!ParentDetach, Key!ParentRemove
    <2>2. CASE Key!ParentReads(n, "see:counter", "counter", "see:message")
      <3>1. /\ keyPc'[Key!P(n)] = "see:message" /\ keyPc'[Key!C(n)] = keyPc[Key!C(n)]
            /\ parentSaw'[n].counter = 42
        BY <1>0, <1>2, <2>2, FieldRead
      <3> QED BY <1>2, <3>1 DEF InTime
    <2>3. CASE Key!ParentReads(n, "see:message", "message", "see:writer")
      <3>1. /\ keyPc[Key!P(n)] = "see:message"
            /\ keyPc'[Key!P(n)] = "see:writer" /\ keyPc'[Key!C(n)] = keyPc[Key!C(n)]
            /\ parentSaw'[n].counter = parentSaw[n].counter
            /\ parentSaw'[n].message = "modified"
        BY <1>0, <1>2, <2>3, FieldRead
      <3> QED BY <1>2, <3>1 DEF InTime
    <2>4. CASE Key!ParentReads(n, "see:writer", "writer", "wait")
      <3>1. /\ keyPc[Key!P(n)] = "see:writer"
            /\ keyPc'[Key!P(n)] = "wait" /\ keyPc'[Key!C(n)] = keyPc[Key!C(n)]
            /\ parentSaw'[n].counter = parentSaw[n].counter
            /\ parentSaw'[n].message = parentSaw[n].message
            /\ parentSaw'[n].writer = 1
        BY <1>0, <1>2, <2>4, FieldRead
      <3> QED BY <1>2, <3>1 DEF InTime
    <2> QED BY <2>1, <2>2, <2>3, <2>4
  <1>5. CASE Key!Child(n)
    <2>1. Key!ChildExit(n)
      BY <1>2, <1>5 DEF Key!Child, Key!ChildReads, Key!Modify, Key!Store
    <2>2. /\ keyPc'[Key!C(n)] = "zombie" /\ keyPc'[Key!P(n)] = keyPc[Key!P(n)]
          /\ UNCHANGED parentSaw
      BY <1>0, <2>1 DEF Key!ChildExit, Key!Goto, KeyTypes
    <2> QED BY <2>2 DEF InTime
  <1>6. CASE UNCHANGED Key!vars
    BY <1>6 DEF Key!vars, InTime
  <1> QED BY <1>3, <1>4, <1>5, <1>6 DEF Key!Next, Key!Terminated

-----------------------------------------------------------------------------
(* What follows for shm_demo.c as a whole                                  *)

\* Every step of the program is one of the keyed demo or of the others, and
\* leaves the other part alone.
LEMMA DemoStep == [DemoNext]_demoVars => [Next]_vars /\ [Key!Next]_(Key!vars)
  <1> SUFFICES ASSUME [DemoNext]_demoVars PROVE [Next]_vars /\ [Key!Next]_(Key!vars)
    OBVIOUS
  <1> USE DEF keyVars, Key!vars
  <1>1. CASE DemoMain BY <1>1 DEF DemoMain, Next
  <1>2. CASE \E c \in Children : Counting(c) BY <1>2 DEF Counting, Next
  <1>3. CASE \E n \in Instances : KeyParent(n) \/ KeyChild(n)
    BY <1>3 DEF KeyParent, KeyChild, Key!Next
  <1>4. CASE UNCHANGED demoVars BY <1>4 DEF demoVars
  <1> QED BY <1>1, <1>2, <1>3, <1>4 DEF DemoNext

\* The program runs both parts as their modules specify them.
THEOREM ImplementsBothParts == DemoSpec => Spec /\ Key!Spec
  <1>1. DemoInit => Init /\ Key!Init
    BY DEF DemoInit
  <1> QED BY <1>1, DemoStep, PTL DEF DemoSpec, Spec, Key!Spec

\* Both inductive invariants hold throughout.
THEOREM Invariance == DemoSpec => [](IInv /\ KeyInv)
  <1>1. Spec => []IInv
    BY InitIInv, StepIInv, PTL DEF Spec
  <1>2. Key!Spec => []KeyInv
    BY KeyInit, KeyStep, PTL DEF Key!Spec
  <1> QED BY <1>1, <1>2, ImplementsBothParts, PTL

\* For every number of increments the counter the parent prints lacks none if
\* one child ran, and keeps at least two (one if each made one) if both did.
THEOREM FinalCounterCorrect == DemoSpec => []FinalCounter
  <1>1. IInv => FinalCounter BY DEF IInv
  <1> QED BY <1>1, Invariance, PTL

\* When main returns, no private segment, mapping or unreaped child is left,
\* whichever of shmget, shmat, shmctl(IPC_STAT) and fork failed.
THEOREM NothingLeftCorrect == DemoSpec => []NothingLeft
  <1>1. IInv => NothingLeft
    BY DEF IInv, Shape, ChildState, ParentState, Started, Waited, Children, Parent,
           NothingLeft
  <1> QED BY <1>1, Invariance, PTL

\* However many copies share the key and whichever calls fail, no segment
\* vanishes while it is mapped, and none is left when all copies are through.
THEOREM KeyedSegmentsRemovedCorrect == DemoSpec => []KeyedSegmentsRemoved
  <1>1. KeyInv => Key!MappedMemoryExists
    BY KeyIds DEF KeyInv, KeyTypes, Segment, Key!MappedMemoryExists
  <1>2. ASSUME KeyInv, NEW n \in Instances, keyPc[Key!P(n)] = "returned"
        PROVE  /\ keyPc[Key!C(n)] \in {"none", "reaped"}
               /\ \A id \in Key!Ids : {Key!P(n), Key!C(n)} \cap keyAttached[id] = {}
    <2>1. Roles(n) /\ Mappings(n)
      BY <1>2 DEF KeyInv
    <2> QED BY <1>2, <2>1 DEF Roles, Mappings, ParentMaps, ChildMaps
  <1>3. ASSUME KeyInv, Key!Ended, NEW n \in Instances, shmid[n] # Key!NoId
        PROVE  bound # shmid[n] /\ keySeg[shmid[n]] = "absent"
    <2>1. /\ shmid[n] \in Key!Ids /\ Segment(shmid[n]) /\ Unbound(n)
          /\ keyAttached[shmid[n]] \subseteq Key!Processes
          /\ keySeg[shmid[n]] \in {"absent", "live", "marked"}
      BY <1>3 DEF KeyInv, KeyTypes
    <2>2. bound # shmid[n]
      BY <1>3, <2>1 DEF Unbound, Key!Ended
    <2>3. \A j \in Instances : /\ Key!P(j) \notin keyAttached[shmid[n]]
                               /\ Key!C(j) \notin keyAttached[shmid[n]]
      BY <1>2, <1>3, <2>1 DEF Key!Ended
    <2>4. keyAttached[shmid[n]] = {}
      BY <2>1, <2>3, KeyNames
    <2> QED BY <2>1, <2>2, <2>4 DEF Segment
  <1>4. KeyInv => Key!NothingLeft
    BY <1>2, <1>3 DEF Key!NothingLeft
  <1>5. KeyInv => KeyedSegmentsRemoved
    BY <1>1, <1>4 DEF KeyedSegmentsRemoved
  <1> QED BY <1>5, Invariance, PTL

\* No segment of the program is left, keyed or private, for any number of
\* copies and of increments.
THEOREM SegmentsRemovedCorrect == DemoSpec => []SegmentsRemoved
  <1>1. KeyedSegmentsRemoved /\ NothingLeft => SegmentsRemoved
    BY DEF SegmentsRemoved
  <1> QED BY <1>1, KeyedSegmentsRemovedCorrect, NothingLeftCorrect, PTL

\* However many copies run, a child whose segment no other copy was given
\* prints what its parent stored.
THEOREM ChildReadsInitialCorrect == DemoSpec => []ChildReadsInitial
  <1>1. KeyInv => ChildReadsInitial
    BY DEF KeyInv, Contents, ChildReadsInitial, Key!ChildReadsInitial
  <1> QED BY <1>1, Invariance, PTL

\* The safety half of ParentReadsModified, for any number of copies: at every
\* point the segment of a copy that has it to itself holds what its child has
\* written, and a parent that begins to read when its child is done goes on to
\* print all of what the child wrote, field by field, unless another copy is
\* given the segment first.
THEOREM ParentStaysInTime ==
  DemoSpec =>
    /\ [](\A n \in Instances : Wrote(n))
    /\ [](\A n \in Instances :
            keyPc[Key!P(n)] = "see:counter" /\ keyPc[Key!C(n)] \in {"detach", "zombie"}
              /\ Key!Alone(n) => InTime(n))
    /\ [][\A n \in Instances : StaysInTime(n)]_demoVars
  <1>1. Key!Init => ReadInv
    <2> SUFFICES ASSUME Key!Init PROVE ReadInv
      OBVIOUS
    <2>1. Key!Zeroed \in Data
      BY DEF Key!Zeroed, Data
    <2>2. \A n \in Instances : keyPc[Key!C(n)] = "none"
      BY DEF Key!Init, Key!Processes, Key!C
    <2> QED BY <2>1, <2>2 DEF Key!Init, ReadInv, SawTypes, Wrote
  <1>2. \A n \in Instances :
          keyPc[Key!P(n)] = "see:counter" /\ keyPc[Key!C(n)] \in {"detach", "zombie"}
            /\ Key!Alone(n) => InTime(n)
    BY DEF InTime
  <1>3. KeyInv /\ ReadInv /\ [Key!Next]_(Key!vars) => \A n \in Instances : StaysInTime(n)
    BY InTimeStep
  <1>4. KeyInv /\ ReadInv /\ [DemoNext]_demoVars =>
          [\A n \in Instances : StaysInTime(n)]_demoVars
    BY <1>3, DemoStep
  <1>5. ReadInv => \A n \in Instances : Wrote(n)
    BY DEF ReadInv
  <1> QED BY <1>1, <1>2, <1>4, <1>5, ReadStep, Invariance, ImplementsBothParts, DemoStep, PTL
          DEF DemoSpec, Key!Spec

=============================================================================
