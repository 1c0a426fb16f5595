----------------------------- MODULE ShmCounter -----------------------------
(***************************************************************************)
(* demonstrate_shm_info(), demonstrate_multiple_attachments() and the end  *)
(* of main() in examples/shm_demo.c.  The first creates a private segment, *)
(* asks the kernel about it and removes it.  The second shares a counter   *)
(* with two children that increment it without synchronisation, waits for  *)
(* both and prints what is left of their increments.                       *)
(*                                                                         *)
(* shmget, shmat and shmctl may fail, and so may either fork(), whose      *)
(* result is not checked: waitpid(-1) then waits for any child.            *)
(***************************************************************************)
EXTENDS Integers

CONSTANT Increments     \* increments per child, 3 in the code

ASSUME IncrementsAssumption == Increments \in Nat \ {0}

Children == {1, 2}
Parent == 0              \* beside the children in the set attached
NotPrinted == -1

VARIABLES
  pc,           \* program point of main
  cpc,          \* cpc[c]: program point of each child
  pid,          \* pid[c]: did fork() return a process, or -1
  done,         \* done[c]: the loop variable i of each child
  reg,          \* reg[c]: the value (*shared)++ has loaded
  info,         \* the segment of demonstrate_shm_info
  seg,          \* the segment of the counter: "absent" or "live"
  attached,     \* processes that have the counter mapped
  shared,       \* the counter
  final         \* the value the parent prints

vars == <<pc, cpc, pid, done, reg, info, seg, attached, shared, final>>
childVars == <<cpc, done, reg>>

Init ==
  /\ pc = "info:shmget"
  /\ cpc = [c \in Children |-> "none"]
  /\ pid = [c \in Children |-> FALSE]
  /\ done = [c \in Children |-> 0]
  /\ reg = [c \in Children |-> 0]
  /\ info = "absent" /\ seg = "absent"
  /\ attached = {}
  /\ shared = 0
  /\ final = NotPrinted

-----------------------------------------------------------------------------
(* demonstrate_shm_info                                                    *)

\* A failing shmget returns to main.
InfoShmget ==
  /\ pc = "info:shmget"
  /\ \/ info' = "live" /\ pc' = "info:stat"
     \/ info' = info /\ pc' = "shmget"
  /\ UNCHANGED <<childVars, pid, seg, attached, shared, final>>

\* Mutant of InfoStat: a failing IPC_STAT returns without IPC_RMID.
InfoStatReturns ==
  /\ pc = "info:stat"
  /\ \/ info' = "absent"
     \/ info' = info
  /\ pc' = "shmget"
  /\ UNCHANGED <<childVars, pid, seg, attached, shared, final>>

\* shmctl(IPC_STAT) succeeds or fails; nobody has the segment mapped, and
\* IPC_RMID destroys it either way.
InfoStat ==
  /\ pc = "info:stat"
  /\ info' = "absent"
  /\ pc' = "shmget"
  /\ UNCHANGED <<childVars, pid, seg, attached, shared, final>>

-----------------------------------------------------------------------------
(* demonstrate_multiple_attachments                                        *)

Shmget ==
  /\ pc = "shmget"
  /\ \/ seg' = "live" /\ pc' = "shmat"
     \/ seg' = seg /\ pc' = "complete"
  /\ UNCHANGED <<childVars, pid, info, attached, shared, final>>

\* A failing shmat removes the segment and returns.
Shmat ==
  /\ pc = "shmat"
  /\ \/ attached' = {Parent} /\ pc' = "reset" /\ seg' = seg
     \/ seg' = "absent" /\ pc' = "complete" /\ attached' = attached
  /\ UNCHANGED <<childVars, pid, info, shared, final>>

Reset ==
  /\ pc = "reset"
  /\ shared' = 0
  /\ pc' = "fork1"
  /\ UNCHANGED <<childVars, pid, info, seg, attached, final>>

\* The child inherits the mapping; the parent goes on whatever fork() returns.
Fork(c, at, next) ==
  /\ pc = at
  /\ \/ /\ cpc' = [cpc EXCEPT ![c] = "load"]
        /\ pid' = [pid EXCEPT ![c] = TRUE]
        /\ attached' = attached \cup {c}
     \/ UNCHANGED <<cpc, pid, attached>>
  /\ pc' = next
  /\ UNCHANGED <<done, reg, info, seg, shared, final>>

\* The children that pid[c] names as an argument of waitpid().
Named(c) == IF pid[c] THEN {c} ELSE Children

\* Mutant of Waitpid: the parent waits only for a child that has ended already.
WaitpidNoHang(c, at, next) ==
  /\ pc = at
  /\ cpc' = [cpc EXCEPT ![c] = IF @ = "zombie" THEN "reaped" ELSE @]
  /\ pc' = next
  /\ UNCHANGED <<pid, done, reg, info, seg, attached, shared, final>>

\* Mutant of Waitpid: the call is repeated until the child is reaped by it.
WaitpidUntilReaped(c, at, next) ==
  /\ pc = at
  /\ cpc[c] = "zombie"
  /\ cpc' = [cpc EXCEPT ![c] = "reaped"]
  /\ pc' = next
  /\ UNCHANGED <<pid, done, reg, info, seg, attached, shared, final>>

\* waitpid(pid): blocks until that child, or with pid -1 any child, has ended,
\* and reaps it; fails with ECHILD at once if there is no such child.
Waitpid(c, at, next) ==
  /\ pc = at
  /\ \/ \E d \in Named(c) : /\ cpc[d] = "zombie"
                            /\ cpc' = [cpc EXCEPT ![d] = "reaped"]
     \/ /\ \A d \in Named(c) : cpc[d] \in {"none", "reaped"}
        /\ cpc' = cpc
  /\ pc' = next
  /\ UNCHANGED <<pid, done, reg, info, seg, attached, shared, final>>

PrintFinal ==
  /\ pc = "final"
  /\ final' = shared
  /\ pc' = "detach"
  /\ UNCHANGED <<childVars, pid, info, seg, attached, shared>>

Detach ==
  /\ pc = "detach"
  /\ attached' = attached \ {Parent}
  /\ pc' = "remove"
  /\ UNCHANGED <<childVars, pid, info, seg, shared, final>>

\* IPC_RMID: while a process has the segment mapped it is only marked.
Remove ==
  /\ pc = "remove"
  /\ seg' = IF attached = {} THEN "absent" ELSE "marked"
  /\ pc' = "complete"
  /\ UNCHANGED <<childVars, pid, info, attached, shared, final>>

\* main prints "=== Demo Complete ===" and returns.
Complete ==
  /\ pc = "complete"
  /\ pc' = "ended"
  /\ UNCHANGED <<childVars, pid, info, seg, attached, shared, final>>

Main ==
  \/ InfoShmget \/ InfoStat
  \/ Shmget \/ Shmat \/ Reset
  \/ Fork(1, "fork1", "fork2") \/ Fork(2, "fork2", "wait1")
  \/ Waitpid(1, "wait1", "wait2") \/ Waitpid(2, "wait2", "final")
  \/ PrintFinal \/ Detach \/ Remove \/ Complete

-----------------------------------------------------------------------------
(* The children                                                            *)

Load(c) ==
  /\ cpc[c] = "load"
  /\ reg' = [reg EXCEPT ![c] = shared]
  /\ cpc' = [cpc EXCEPT ![c] = "store"]
  /\ UNCHANGED <<pc, pid, done, info, seg, attached, shared, final>>

\* The rest of the iteration, printf and usleep, changes nothing.
Store(c) ==
  /\ cpc[c] = "store"
  /\ shared' = reg[c] + 1
  /\ done' = [done EXCEPT ![c] = @ + 1]
  /\ cpc' = [cpc EXCEPT ![c] = IF done'[c] < Increments THEN "load" ELSE "exit"]
  /\ UNCHANGED <<pc, pid, reg, info, seg, attached, final>>

\* shmdt, exit(0).
ChildExit(c) ==
  /\ cpc[c] = "exit"
  /\ attached' = attached \ {c}
  /\ cpc' = [cpc EXCEPT ![c] = "zombie"]
  /\ UNCHANGED <<pc, pid, done, reg, info, seg, shared, final>>

Child(c) == Load(c) \/ Store(c) \/ ChildExit(c)

-----------------------------------------------------------------------------

Terminated == pc = "ended" /\ UNCHANGED vars

Next == Main \/ (\E c \in Children : Child(c)) \/ Terminated

Spec == Init /\ [][Next]_vars

-----------------------------------------------------------------------------
(* Properties                                                              *)

\* "Without synchronization, results may vary!", and by how much: one child
\* alone loses nothing, two children may lose all but two of their increments
\* (all but one if each makes a single one) and invent none.
FinalCounter ==
  final # NotPrinted =>
    /\ ~pid[1] /\ ~pid[2] => final = 0
    /\ pid[1] # pid[2] => final = Increments
    /\ pid[1] /\ pid[2] =>
         final \in (IF Increments = 1 THEN 1 ELSE 2)..(2 * Increments)

\* Nothing is left when main returns, whichever call failed: both private
\* segments are destroyed, no process has the counter mapped and every child
\* was reaped, also the one that only waitpid(-1) names.
NothingLeft ==
  pc = "ended" => /\ info = "absent" /\ seg = "absent" /\ attached = {}
                  /\ \A c \in Children : cpc[c] \in {"none", "reaped"}

=============================================================================
