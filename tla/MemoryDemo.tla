----------------------------- MODULE MemoryDemo -----------------------------
(***************************************************************************)
(* examples/memory_demo.c, run by one or several instances in the same     *)
(* directory: brk, an anonymous mapping, the shared mapping of             *)
(* mmap_test.txt, mprotect.  The file is what instances share: each        *)
(* truncates and rewrites it, and touching a mapped page beyond its end    *)
(* raises SIGBUS (the file is shorter than a page, so the page is there    *)
(* unless the file is empty).  Every call may fail; fwrite, fclose and     *)
(* munmap go unchecked.  (Names that FileOperations has too begin with     *)
(* Memory, so that one module can extend both.)                            *)
(***************************************************************************)
EXTENDS Integers

CONSTANTS
  Instances,    \* running copies of the program
  TextLength    \* strlen(content), 42 in the code

ASSUME MemoryAssumption == TextLength \in Nat

VARIABLES
  st,           \* st[i]: program point and variables of instance i
  length,       \* length of mmap_test.txt
  changed       \* its bytes that differ from content

memoryVars == <<st, length, changed>>
fileVars == <<length, changed>>

Start == [pc |-> "brk", heap |-> 0,     \* pages added to the heap
          mapped |-> {},                \* mappings it has
          stuck |-> {},                 \* those that munmap() did not remove
          fd |-> FALSE,                 \* the file is open
          size |-> 0,                   \* sb.st_size
          rewrote |-> FALSE,            \* it has truncated the file
          cut |-> FALSE]                \* another did since its fstat()

MemoryInit ==
  /\ st = [i \in Instances |-> Start]
  /\ length = 0 /\ changed = {}

At(i, at) == st[i].pc = at
Become(i, state) == st' = [st EXCEPT ![i] = state]
Goto(i, next) == Become(i, [st[i] EXCEPT !.pc = next])

-----------------------------------------------------------------------------
(* brk, anonymous memory, mprotect                                         *)

Brk(i) ==
  /\ At(i, "brk")
  /\ Become(i, [st[i] EXCEPT !.pc = "anon", !.heap = 1]) \/ Goto(i, "anon")
  /\ UNCHANGED fileVars

Mmap(i, at, m, next, onFailure) ==
  /\ At(i, at)
  /\ \/ Become(i, [st[i] EXCEPT !.pc = next, !.mapped = @ \cup {m}])
     \/ Goto(i, onFailure)
  /\ UNCHANGED fileVars

Munmap(i, at, m, next) ==
  /\ At(i, at)
  /\ \/ Become(i, [st[i] EXCEPT !.pc = next, !.mapped = @ \ {m}])
     \/ Become(i, [st[i] EXCEPT !.pc = next, !.stuck = @ \cup {m}])
  /\ UNCHANGED fileVars

AnonymousDemo(i) ==
  Mmap(i, "anon", "anonymous", "anon:munmap", "fopen") \/ Munmap(i, "anon:munmap", "anonymous", "fopen")

\* Mutant of Mprotect: the error path returns without munmap().
MprotectReturns(i) ==
  /\ At(i, "page:mprotect") /\ (Goto(i, "page:munmap") \/ Goto(i, "ended"))
  /\ UNCHANGED fileVars

\* Reading the page, or the error path: munmap() follows either way.
Mprotect(i) ==
  /\ At(i, "page:mprotect") /\ Goto(i, "page:munmap")
  /\ UNCHANGED fileVars

MprotectDemo(i) ==
  \/ Mmap(i, "page", "page", "page:mprotect", "ended")
  \/ Mprotect(i)
  \/ Munmap(i, "page:munmap", "page", "ended")

-----------------------------------------------------------------------------
(* The file mapping                                                        *)

\* Between fstat() and munmap().
Uses(i) == st[i].pc \in {"mmap", "close", "look", "store0", "store5", "look again", "munmap"}

\* fopen(filename, "w") truncates the file for everybody.
Fopen(i) ==
  /\ At(i, "fopen")
  /\ \/ /\ st' = [j \in Instances |->
                    IF j = i THEN [st[i] EXCEPT !.pc = "fclose", !.rewrote = TRUE]
                             ELSE [st[j] EXCEPT !.cut = @ \/ Uses(j)]]
        /\ length' = 0 /\ changed' = {}
     \/ Goto(i, "page") /\ UNCHANGED fileVars

\* fclose() writes what fwrite() has buffered, or a part on a full disk.
Fclose(i) ==
  /\ At(i, "fclose") /\ Goto(i, "open")
  /\ \E n \in 0..TextLength : /\ length' = IF n > length THEN n ELSE length
                          /\ changed' = {k \in changed : k >= n}

Open(i) ==
  /\ At(i, "open")
  /\ Become(i, [st[i] EXCEPT !.pc = "fstat", !.fd = TRUE]) \/ Goto(i, "page")
  /\ UNCHANGED fileVars

Fstat(i) ==
  /\ At(i, "fstat")
  /\ \/ Become(i, [st[i] EXCEPT !.pc = "mmap", !.size = length])
     \/ Become(i, [st[i] EXCEPT !.pc = "page", !.fd = FALSE])
  /\ UNCHANGED fileVars

\* Mutant of MapFile: the length of content instead of st_size.
MapContent(i) ==
  /\ At(i, "mmap")
  /\ \/ Become(i, [st[i] EXCEPT !.pc = "close", !.mapped = @ \cup {"file"}])
     \/ Become(i, [st[i] EXCEPT !.pc = "page", !.fd = FALSE])
  /\ UNCHANGED fileVars

\* mmap() of 0 bytes fails.
MapFile(i) ==
  /\ At(i, "mmap")
  /\ \/ st[i].size > 0 /\ Become(i, [st[i] EXCEPT !.pc = "close", !.mapped = @ \cup {"file"}])
     \/ Become(i, [st[i] EXCEPT !.pc = "page", !.fd = FALSE])
  /\ UNCHANGED fileVars

CloseFile(i) ==
  /\ At(i, "close") /\ Become(i, [st[i] EXCEPT !.pc = "look", !.fd = FALSE])
  /\ UNCHANGED fileVars

\* The kernel ends the process and takes its mappings.
Sigbus(i) == Become(i, [st[i] EXCEPT !.pc = "killed", !.mapped = {}, !.stuck = {}])

Look(i, at, next) ==
  /\ At(i, at) /\ UNCHANGED fileVars
  /\ IF length = 0 THEN Sigbus(i) ELSE Goto(i, next)

\* mapped[k] = ...: a byte of the page behind the end of the file is not kept.
Store(i, at, k, next) ==
  /\ At(i, at) /\ UNCHANGED length
  /\ IF length = 0 THEN Sigbus(i) /\ UNCHANGED changed
                   ELSE /\ changed' = IF k < length THEN changed \cup {k} ELSE changed
                        /\ Goto(i, next)

\* Mutant of Modify: an off-by-one in the test of the size.
ModifyFive(i) ==
  \/ st[i].size >= 5 /\ Store(i, "store0", 0, "store5")
  \/ Store(i, "store5", 5, "look again")
  \/ st[i].size < 5 /\ At(i, "store0") /\ Goto(i, "look again") /\ UNCHANGED fileVars

Modify(i) ==
  \/ st[i].size > 5 /\ Store(i, "store0", 0, "store5")
  \/ Store(i, "store5", 5, "look again")
  \/ st[i].size <= 5 /\ At(i, "store0") /\ Goto(i, "look again") /\ UNCHANGED fileVars

\* msync() changes nothing that another process could see.
FileDemo(i) ==
  \/ Fopen(i) \/ Fclose(i) \/ Open(i) \/ Fstat(i) \/ MapFile(i) \/ CloseFile(i)
  \/ Look(i, "look", "store0") \/ Modify(i) \/ Look(i, "look again", "munmap")
  \/ Munmap(i, "munmap", "file", "page")

MemoryMain(i) == Brk(i) \/ AnonymousDemo(i) \/ FileDemo(i) \/ MprotectDemo(i)

MemoryTerminated ==
  (\A i \in Instances : st[i].pc \in {"ended", "killed"}) /\ UNCHANGED memoryVars

MemoryNext == (\E i \in Instances : MemoryMain(i)) \/ MemoryTerminated

MemorySpec == MemoryInit /\ [][MemoryNext]_memoryVars

-----------------------------------------------------------------------------
(* Properties                                                              *)

\* A program that ends has closed the file and unmapped whatever munmap() did
\* not refuse to unmap, on every error path of every demo.
AllReleased ==
  \A i \in Instances : st[i].pc \in {"ended", "killed"} => ~st[i].fd /\ st[i].mapped = st[i].stuck

\* Touching the mapping is safe, for a file that could not be written as well,
\* unless another instance truncates the file under it.
KilledOnlyIfTruncated == \A i \in Instances : st[i].pc = "killed" => st[i].cut

\* "Changes written to file via mmap!": an instance no other has rewritten the
\* file of finds both of its stores in the file, or with a file of five bytes
\* or less neither.
ChangesReachFile ==
  \A i \in Instances :
    (At(i, "munmap") /\ \A j \in Instances \ {i} : ~st[j].rewrote) =>
      changed = IF length > 5 THEN {0, 5} ELSE {}

=============================================================================
