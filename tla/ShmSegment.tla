----------------------------- MODULE ShmSegment -----------------------------
(***************************************************************************)
(* demonstrate_basic_shm() of examples/shm_demo.c, run by one or several   *)
(* instances of the program at the same time: a System V segment found by  *)
(* the fixed key SHM_KEY, attached, initialised, inherited and modified by *)
(* a child, read by the parent after sleep(1), detached and removed.       *)
(*                                                                         *)
(* The structure is read and written field by field with no                *)
(* synchronisation.  Every call that can fail may fail.                    *)
(***************************************************************************)
EXTENDS Integers, FiniteSets

CONSTANT Instances      \* running copies of the program, finitely many

NoId == 0
NewIds == 1..Cardinality(Instances)     \* each copy calls shmget once
Leftover == Cardinality(Instances) + 1  \* of a run killed before IPC_RMID
Ids == NewIds \cup {Leftover}
Processes == Instances \X {"parent", "child"}
P(i) == <<i, "parent">>
C(i) == <<i, "child">>
Zeroed == [counter |-> 0, message |-> "", writer |-> 0]
Initial == [counter |-> 0, message |-> "initial", writer |-> 0]

Modified == [counter |-> 42, message |-> "modified", writer |-> 1]

VARIABLES
  pc,                   \* pc[p]: program point of each process
  shmid,                \* shmid[i]: what shmget returned to instance i
  bound,                \* the identifier SHM_KEY is bound to, or NoId
  seg,                  \* seg[id]: "absent", "live" or "marked" for removal
  mem,                  \* mem[id]: contents of the segment
  attached,             \* attached[id]: processes that have it mapped
  childSaw, parentSaw   \* the fields instance i's processes printed

vars == <<pc, shmid, bound, seg, mem, attached, childSaw, parentSaw>>

\* The key may still lead to the segment of an earlier run that was killed.
Init ==
  /\ pc = [p \in Processes |-> IF p[2] = "parent" THEN "shmget" ELSE "none"]
  /\ shmid = [i \in Instances |-> NoId]
  /\ bound \in {NoId, Leftover}
  /\ seg = [id \in Ids |-> IF id = bound THEN "live" ELSE "absent"]
  /\ mem = [id \in Ids |-> IF id = bound THEN Modified ELSE Zeroed]
  /\ attached = [id \in Ids |-> {}]
  /\ childSaw = [i \in Instances |-> Initial]
  /\ parentSaw = [i \in Instances |-> Zeroed]

Goto(p, next) == pc' = [pc EXCEPT ![p] = next]

-----------------------------------------------------------------------------
(* The kernel's segments                                                   *)

\* The segment's state becomes state, its contents go with it when it is
\* destroyed.
Becomes(id, state) ==
  /\ seg' = [seg EXCEPT ![id] = state]
  /\ mem' = IF state = "absent" THEN [mem EXCEPT ![id] = Zeroed] ELSE mem

\* Process p unmaps the segment; the last one to leave a marked segment
\* destroys it.
Detach(id, p) ==
  /\ attached' = [attached EXCEPT ![id] = @ \ {p}]
  /\ Becomes(id, IF seg[id] = "marked" /\ attached[id] \subseteq {p} THEN "absent"
                                                                 ELSE seg[id])

\* shmctl(IPC_RMID): unbinds the key and destroys the segment, or marks it if
\* somebody has it mapped; fails if it is gone already.
Remove(id) ==
  /\ Becomes(id, IF seg[id] = "absent" \/ attached[id] = {} THEN "absent"
                                                           ELSE "marked")
  /\ bound' = IF bound = id THEN NoId ELSE bound

-----------------------------------------------------------------------------
(* The parent                                                              *)

\* shmget(SHM_KEY, ..., IPC_CREAT): the segment bound to the key, or a new one.
Shmget(i) ==
  /\ pc[P(i)] = "shmget"
  /\ \/ /\ bound # NoId
        /\ shmid' = [shmid EXCEPT ![i] = bound]
        /\ Goto(P(i), "shmat")
        /\ UNCHANGED <<bound, seg, mem>>
     \/ /\ bound = NoId
        /\ LET id == CHOOSE n \in NewIds : n \notin {shmid[j] : j \in Instances}
           IN  /\ shmid' = [shmid EXCEPT ![i] = id]
               /\ bound' = id
               /\ seg' = [seg EXCEPT ![id] = "live"]
               /\ mem' = [mem EXCEPT ![id] = Zeroed]
        /\ Goto(P(i), "shmat")
     \/ Goto(P(i), "returned") /\ UNCHANGED <<shmid, bound, seg, mem>>
  /\ UNCHANGED <<attached, childSaw, parentSaw>>

\* Mutant of Shmat: the segment is not removed when it cannot be mapped.
ShmatFailsKeeping(i) ==
  /\ pc[P(i)] = "shmat"
  /\ \/ /\ seg[shmid[i]] # "absent"
        /\ attached' = [attached EXCEPT ![shmid[i]] = @ \cup {P(i)}]
        /\ Goto(P(i), "init:counter")
     \/ Goto(P(i), "returned") /\ UNCHANGED attached
  /\ UNCHANGED <<shmid, bound, seg, mem, childSaw, parentSaw>>

\* shmat: fails if the other instance has destroyed the segment meanwhile, or
\* for lack of address space.
Shmat(i) ==
  /\ pc[P(i)] = "shmat"
  /\ \/ /\ seg[shmid[i]] # "absent"
        /\ attached' = [attached EXCEPT ![shmid[i]] = @ \cup {P(i)}]
        /\ Goto(P(i), "init:counter")
     \/ Goto(P(i), "remove") /\ UNCHANGED attached
  /\ UNCHANGED <<shmid, bound, seg, mem, childSaw, parentSaw>>

\* One assignment to a field of the shared structure.
Store(p, at, field, value, next) ==
  /\ pc[p] = at
  /\ mem' = [mem EXCEPT ![shmid[p[1]]][field] = value]
  /\ Goto(p, next)
  /\ UNCHANGED <<shmid, bound, seg, attached, childSaw, parentSaw>>

\* Mutant of Initialize: the message is left as it was.
InitializeNoMessage(i) ==
  \/ Store(P(i), "init:counter", "counter", 0, "init:writer")
  \/ Store(P(i), "init:writer", "writer", 0, "fork")

Initialize(i) ==
  \/ Store(P(i), "init:counter", "counter", 0, "init:message")
  \/ Store(P(i), "init:message", "message", "initial", "init:writer")
  \/ Store(P(i), "init:writer", "writer", 0, "fork")

\* The child inherits the mapping.
Fork(i) ==
  /\ pc[P(i)] = "fork"
  /\ \/ /\ pc' = [pc EXCEPT ![P(i)] = "sleep", ![C(i)] = "see:counter"]
        /\ attached' = [attached EXCEPT ![shmid[i]] = @ \cup {C(i)}]
     \/ Goto(P(i), "detach") /\ UNCHANGED attached
  /\ UNCHANGED <<shmid, bound, seg, mem, childSaw, parentSaw>>

\* sleep(1) is over; it orders nothing.
Awake(i) ==
  /\ pc[P(i)] = "sleep"
  /\ Goto(P(i), "see:counter")
  /\ UNCHANGED <<shmid, bound, seg, mem, attached, childSaw, parentSaw>>

ParentReads(i, at, field, next) ==
  /\ pc[P(i)] = at
  /\ parentSaw' = [parentSaw EXCEPT ![i][field] = mem[shmid[i]][field]]
  /\ Goto(P(i), next)
  /\ UNCHANGED <<shmid, bound, seg, mem, attached, childSaw>>

Wait(i) ==
  /\ pc[P(i)] = "wait" /\ pc[C(i)] = "zombie"
  /\ pc' = [pc EXCEPT ![P(i)] = "detach", ![C(i)] = "reaped"]
  /\ UNCHANGED <<shmid, bound, seg, mem, attached, childSaw, parentSaw>>

ParentDetach(i) ==
  /\ pc[P(i)] = "detach"
  /\ Detach(shmid[i], P(i))
  /\ Goto(P(i), "remove")
  /\ UNCHANGED <<shmid, bound, childSaw, parentSaw>>

\* What was printed is forgotten when the function returns.
ParentRemove(i) ==
  /\ pc[P(i)] = "remove"
  /\ Remove(shmid[i])
  /\ Goto(P(i), "returned")
  /\ childSaw' = [childSaw EXCEPT ![i] = Initial]
  /\ parentSaw' = [parentSaw EXCEPT ![i] = Zeroed]
  /\ UNCHANGED <<shmid, attached>>

Parent(i) ==
  \/ Shmget(i) \/ Shmat(i) \/ Initialize(i) \/ Fork(i) \/ Awake(i)
  \/ ParentReads(i, "see:counter", "counter", "see:message")
  \/ ParentReads(i, "see:message", "message", "see:writer")
  \/ ParentReads(i, "see:writer", "writer", "wait")
  \/ Wait(i) \/ ParentDetach(i) \/ ParentRemove(i)

-----------------------------------------------------------------------------
(* The child                                                               *)

ChildReads(i, at, field, next) ==
  /\ pc[C(i)] = at
  /\ childSaw' = [childSaw EXCEPT ![i][field] = mem[shmid[i]][field]]
  /\ Goto(C(i), next)
  /\ UNCHANGED <<shmid, bound, seg, mem, attached, parentSaw>>

\* Mutant of Modify: the writer's pid is not stored.
ModifyNoWriter(i) ==
  \/ Store(C(i), "set:counter", "counter", 42, "set:message")
  \/ Store(C(i), "set:message", "message", "modified", "detach")

Modify(i) ==
  \/ Store(C(i), "set:counter", "counter", 42, "set:message")
  \/ Store(C(i), "set:message", "message", "modified", "set:writer")
  \/ Store(C(i), "set:writer", "writer", 1, "detach")

\* shmdt, exit(0).
ChildExit(i) ==
  /\ pc[C(i)] = "detach"
  /\ Detach(shmid[i], C(i))
  /\ Goto(C(i), "zombie")
  /\ UNCHANGED <<shmid, bound, childSaw, parentSaw>>

Child(i) ==
  \/ ChildReads(i, "see:counter", "counter", "see:message")
  \/ ChildReads(i, "see:message", "message", "set:counter")
  \/ Modify(i) \/ ChildExit(i)

-----------------------------------------------------------------------------

Ended == \A i \in Instances : pc[P(i)] = "returned" /\ pc[C(i)] \in {"none", "reaped"}

Terminated == Ended /\ UNCHANGED vars

Next == (\E i \in Instances : Parent(i) \/ Child(i)) \/ Terminated

Spec == Init /\ [][Next]_vars

-----------------------------------------------------------------------------
(* Properties                                                              *)

\* The memory a process has mapped is there until it unmaps it, although any
\* instance may remove the segment; the key never leads to a removed one.
MappedMemoryExists ==
  /\ \A id \in Ids : attached[id] # {} => seg[id] # "absent"
  /\ bound # NoId => seg[bound] = "live"

\* demonstrate_basic_shm returns with its child reaped and nothing mapped, and
\* no segment outlives the programs that were given it, whichever of the calls
\* failed and however two instances that share the key interleave: once all
\* have ended it is destroyed, by whoever was last, the leftover of a killed
\* run included.
NothingLeft ==
  /\ \A i \in Instances :
       pc[P(i)] = "returned" =>
         /\ pc[C(i)] \in {"none", "reaped"}
         /\ \A id \in Ids : {P(i), C(i)} \cap attached[id] = {}
  /\ Ended => \A i \in Instances :
       shmid[i] # NoId => bound # shmid[i] /\ seg[shmid[i]] = "absent"

\* No other instance has been given the segment of i.
Alone(i) == \A j \in Instances \ {i} : shmid[j] # shmid[i]

\* "[Child] Reading initial data": what the child prints is what its parent
\* stored before the fork, if no other instance has found the key.
ChildReadsInitial == \A i \in Instances : Alone(i) => childSaw[i] = Initial

\* "[Parent] Reading data after child modified": what the parent prints is
\* what its child wrote, all of it, if the child was done when sleep(1)
\* returned and no other instance found the key before the parent had read.
ParentReadsModified ==
  \A i \in Instances :
    (pc[P(i)] = "see:counter" /\ pc[C(i)] \in {"detach", "zombie"} /\ Alone(i))
      ~> \/ pc[P(i)] = "wait" /\ parentSaw[i] = Modified
         \/ ~Alone(i)

=============================================================================
