-------------------------- MODULE MemoryDemoProofs --------------------------
(***************************************************************************)
(* The properties of memory_demo.c for any number of copies of the program *)
(* in one directory and a text of any length.                              *)
(*                                                                         *)
(* None of them is inductive.  AllReleased needs which mapping a copy has  *)
(* at each point; KilledOnlyIfTruncated that the file does not become      *)
(* shorter than st_size said, unless another copy truncates it;            *)
(* ChangesReachFile that copies which have not written the file do not     *)
(* touch it either.                                                        *)
(***************************************************************************)
EXTENDS MemoryDemo, TLAPS

BeforeFile == {"brk", "anon", "anon:munmap", "fopen"}
Mapped == {"close", "look", "store0", "store5", "look again", "munmap"}
AfterFile == {"page", "page:mprotect", "page:munmap", "ended"}
Points == BeforeFile \cup {"fclose", "open", "fstat", "mmap"} \cup Mapped
            \cup AfterFile \cup {"killed"}
Maps == {"anonymous", "file", "page"}

State == [pc : Points, heap : {0, 1}, mapped : SUBSET Maps, stuck : SUBSET Maps,
          fd : BOOLEAN, size : Nat, rewrote : BOOLEAN, cut : BOOLEAN]

Types == st \in [Instances -> State] /\ length \in Nat /\ changed \subseteq Nat

\* What a copy in state s has open and mapped.
Holds(s) ==
  /\ s.fd => s.pc \in {"fstat", "mmap", "close"}
  /\ "anonymous" \in s.mapped <=> "anonymous" \in s.stuck \/ s.pc = "anon:munmap"
  /\ "file" \in s.mapped <=> "file" \in s.stuck \/ s.pc \in Mapped
  /\ "page" \in s.mapped <=> "page" \in s.stuck \/ s.pc \in {"page:mprotect", "page:munmap"}
  /\ "anonymous" \in s.stuck => s.pc \notin {"brk", "anon", "anon:munmap"}
  /\ "file" \in s.stuck => s.pc \in AfterFile
  /\ "page" \in s.stuck => s.pc = "ended"

\* A file that nobody has truncated is at least as long as fstat() said.
LongEnough(s) ==
  /\ s.pc \in Mapped => s.size > 0
  /\ s.pc \in Mapped \cup {"mmap"} /\ ~s.cut => length >= s.size
  /\ s.pc = "killed" => s.cut

\* A copy that has not opened the file for writing does not use it.
Untouched(s) == ~s.rewrote => s.pc \in BeforeFile \cup AfterFile

\* The file when a copy is at pc, if no other copy has written it.
FileAt(pc) ==
  /\ pc \in BeforeFile \cup {"fclose", "open", "fstat", "mmap", "close", "look", "store0"}
       => changed = {}
  /\ pc = "store5" => changed = {0} /\ length > 5
  /\ pc \in {"look again", "munmap"} => changed = IF length > 5 THEN {0, 5} ELSE {}

\* The same, and fstat() has seen the length it has.
Content(s) == FileAt(s.pc) /\ (s.pc \in Mapped \cup {"mmap"} => length = s.size)

OnlyWriter(i) == \A j \in Instances \ {i} : ~st[j].rewrote

Inv ==
  /\ Types
  /\ \A i \in Instances :
       /\ Holds(st[i]) /\ LongEnough(st[i]) /\ Untouched(st[i])
       /\ OnlyWriter(i) => Content(st[i])

-----------------------------------------------------------------------------

\* Every copy starts with nothing.
LEMMA InitInv == MemoryInit => Inv
  <1> SUFFICES ASSUME MemoryInit PROVE Inv
    OBVIOUS
  <1>1. Start \in State
    BY DEF Start, State, Points, BeforeFile
  <1>2. Types
    BY <1>1 DEF MemoryInit, Types
  <1>3. \A i \in Instances : st[i] = Start
    BY DEF MemoryInit
  <1>4. Holds(Start) /\ LongEnough(Start) /\ Untouched(Start) /\ Content(Start)
    BY DEF Start, Holds, LongEnough, Untouched, Content, FileAt, BeforeFile, Mapped, AfterFile,
           MemoryInit
  <1> QED BY <1>2, <1>3, <1>4 DEF Inv

\* What a step of copy i does, seen by each of the properties of its state.
LocalStep(i) ==
  /\ st'[i] \in State
  /\ Holds(st'[i]) /\ Untouched(st'[i])
  /\ LongEnough(st[i])'
  /\ OnlyWriter(i) => Content(st[i])'

\* A step of one copy leaves the others as they are and the file as they need
\* it, unless it truncates the file.
Others(i) ==
  /\ st' = [st EXCEPT ![i] = st'[i]]
  /\ length' >= length /\ length' \in Nat /\ changed' \subseteq Nat
  /\ ~st'[i].rewrote => ~st[i].rewrote /\ UNCHANGED fileVars

\* From the copy that moves to all copies.
LEMMA FromLocal ==
  ASSUME Inv, NEW i \in Instances, LocalStep(i), Others(i)
  PROVE  Inv'
  <1>1. Types'
    BY DEF Inv, Types, LocalStep, Others
  <1>2. \A j \in Instances \ {i} : st'[j] = st[j]
    BY DEF Others, Inv, Types
  <1>3. ASSUME NEW j \in Instances
        PROVE  Holds(st'[j]) /\ Untouched(st'[j]) /\ LongEnough(st[j])'
    <2>1. CASE j = i BY <2>1 DEF LocalStep
    <2>2. CASE j # i
      <3>1. st'[j] = st[j] /\ length' >= length /\ length \in Nat /\ length' \in Nat
            /\ st[j].size \in Nat
        BY <1>2, <2>2 DEF Others, Inv, Types, State
      <3> QED BY <3>1 DEF Inv, LongEnough
    <2> QED BY <2>1, <2>2
  <1>4. ASSUME NEW j \in Instances, OnlyWriter(j)' PROVE Content(st[j])'
    <2>1. CASE j = i
      <3>1. OnlyWriter(i)
        BY <1>2, <1>4, <2>1 DEF OnlyWriter
      <3> QED BY <2>1, <3>1 DEF LocalStep
    <2>2. CASE j # i
      <3>1. ~st'[i].rewrote
        BY <1>4, <2>2 DEF OnlyWriter
      <3>2. UNCHANGED fileVars /\ ~st[i].rewrote
        BY <3>1 DEF Others
      <3>3. OnlyWriter(j)
        BY <1>2, <1>4, <3>2 DEF OnlyWriter
      <3>4. st'[j] = st[j]
        BY <1>2, <2>2
      <3> QED BY <3>2, <3>3, <3>4 DEF Inv, Content, FileAt, fileVars
    <2> QED BY <2>1, <2>2
  <1> QED BY <1>1, <1>3, <1>4 DEF Inv

\* What the state of the moving copy was, and what it has become.
LEMMA Becoming ==
  ASSUME Inv, NEW i \in Instances, NEW s, Become(i, s)
  PROVE  /\ st[i] \in State /\ Holds(st[i]) /\ LongEnough(st[i]) /\ Untouched(st[i])
         /\ OnlyWriter(i) => Content(st[i])
         /\ st'[i] = s /\ st' = [st EXCEPT ![i] = st'[i]]
         /\ length \in Nat /\ changed \subseteq Nat
  BY DEF Inv, Types, Become

\* A step that leaves the file alone and changes neither rewrote nor cut.
LEMMA FileUnchanged ==
  ASSUME Inv, NEW i \in Instances, NEW s \in State, Become(i, s), UNCHANGED fileVars,
         s.rewrote = st[i].rewrote,
         Holds(s), Untouched(s), LongEnough(s), OnlyWriter(i) => Content(s)
  PROVE  Inv'
  <1>1. /\ st'[i] = s /\ st' = [st EXCEPT ![i] = st'[i]]
        /\ length \in Nat /\ changed \subseteq Nat
    BY Becoming
  <1>2. length' = length /\ changed' = changed
    BY DEF fileVars
  <1>3. LocalStep(i)
    BY <1>1, <1>2 DEF LocalStep, LongEnough, Content, FileAt
  <1>4. Others(i)
    BY <1>1, <1>2 DEF Others
  <1> QED BY <1>3, <1>4, FromLocal

\* brk and the two demos of anonymous memory.
LEMMA MemoryStep ==
  ASSUME Inv, NEW i \in Instances, Brk(i) \/ AnonymousDemo(i) \/ MprotectDemo(i)
  PROVE  Inv'
  <1> USE DEF State, Points, BeforeFile, Mapped, AfterFile, Maps
  <1>0. /\ st[i] \in State /\ Holds(st[i]) /\ LongEnough(st[i]) /\ Untouched(st[i])
        /\ OnlyWriter(i) => Content(st[i])
    BY DEF Inv, Types
  <1>1. ASSUME NEW s \in State, Become(i, s), UNCHANGED fileVars, Holds(s),
               s.rewrote = st[i].rewrote,
               (s.pc \in BeforeFile /\ st[i].pc \in BeforeFile) \/ s.pc \in AfterFile
        PROVE  Inv'
    BY <1>0, <1>1, FileUnchanged DEF Untouched, LongEnough, Content, FileAt
  <1>2. CASE Brk(i)
    BY <1>0, <1>1, <1>2 DEF Brk, At, Goto, Holds
  <1>3. CASE AnonymousDemo(i)
    BY <1>0, <1>1, <1>3 DEF AnonymousDemo, Mmap, Munmap, At, Goto, Holds
  <1>4. CASE MprotectDemo(i)
    BY <1>0, <1>1, <1>4, ZenonT(60) DEF MprotectDemo, Mmap, Munmap, Mprotect, At, Goto, Holds
  <1> QED BY <1>2, <1>3, <1>4


\* Marking a copy as cut changes nothing else in its state.
LEMMA CutState ==
  ASSUME NEW s \in State, NEW b \in BOOLEAN, NEW t, t = [s EXCEPT !.cut = b]
  PROVE  /\ t \in State /\ t.cut = b /\ t.pc = s.pc /\ t.size = s.size /\ t.fd = s.fd
         /\ t.mapped = s.mapped /\ t.stuck = s.stuck /\ t.rewrote = s.rewrote
  BY DEF State

\* Opening the file for writing truncates it for every copy that uses it.
LEMMA FopenStep ==
  ASSUME Inv, NEW i \in Instances, Fopen(i)
  PROVE  Inv'
  <1> USE DEF State, Points, BeforeFile, Mapped, AfterFile, Maps
  <1>0. /\ st \in [Instances -> State] /\ length \in Nat /\ changed \subseteq Nat
        /\ \A j \in Instances :
             /\ Holds(st[j]) /\ LongEnough(st[j]) /\ Untouched(st[j])
             /\ OnlyWriter(j) => Content(st[j])
    BY DEF Inv, Types
  <1>1. CASE Goto(i, "page") /\ UNCHANGED fileVars
    <2> DEFINE s == [st[i] EXCEPT !.pc = "page"]
    <2>1. s \in State /\ Become(i, s) /\ s.rewrote = st[i].rewrote /\ At(i, "fopen")
      BY <1>0, <1>1, ZenonT(60) DEF Goto, Fopen
    <2>2. Holds(s) /\ Untouched(s) /\ LongEnough(s) /\ Content(s)
      BY <1>0, <2>1 DEF Holds, Untouched, LongEnough, Content, FileAt, At
    <2> QED BY <1>1, <2>1, <2>2, FileUnchanged
  <1>2. CASE /\ st' = [j \in Instances |->
                    IF j = i THEN [st[i] EXCEPT !.pc = "fclose", !.rewrote = TRUE]
                             ELSE [st[j] EXCEPT !.cut = @ \/ Uses(j)]]
             /\ length' = 0 /\ changed' = {}
    <2>1. /\ st[i].pc = "fopen"
          /\ st'[i] = [st[i] EXCEPT !.pc = "fclose", !.rewrote = TRUE]
      BY <1>2 DEF Fopen, At
    <2>2. /\ st'[i] \in State /\ Holds(st'[i]) /\ Untouched(st'[i]) /\ LongEnough(st[i])'
          /\ Content(st[i])' /\ st'[i].rewrote
      <3>1. st'[i] \in State /\ st'[i].rewrote /\ st'[i].pc = "fclose"
        BY <1>0, <2>1, ZenonT(60)
      <3>2. Holds(st'[i])
        BY <1>0, <2>1, ZenonT(60) DEF Holds
      <3>3. changed' = {}
        BY <1>2
      <3> QED BY <3>1, <3>2, <3>3 DEF Untouched, LongEnough, Content, FileAt
    <2>3. ASSUME NEW j \in Instances \ {i}
          PROVE  st'[j] \in State /\ Holds(st'[j]) /\ Untouched(st'[j]) /\ LongEnough(st[j])'
      <3>1. PICK b \in BOOLEAN : /\ st'[j] = [st[j] EXCEPT !.cut = b]
                                 /\ b <=> (st[j].cut \/ Uses(j))
        BY <1>2, Zenon
      <3>2. st[j] \in State
        BY <1>0
      <3>3. /\ st'[j] \in State /\ st'[j].cut = b
            /\ st'[j].pc = st[j].pc /\ st'[j].size = st[j].size /\ st'[j].fd = st[j].fd
            /\ st'[j].mapped = st[j].mapped /\ st'[j].stuck = st[j].stuck
            /\ st'[j].rewrote = st[j].rewrote
        <4> HIDE DEF State
        <4>1. st'[j] = [st[j] EXCEPT !.cut = b]
          BY <3>1
        <4> QED BY <3>2, <4>1, CutState
      <3>4. st'[j].pc \in Mapped \cup {"mmap"} => st'[j].cut
        BY <3>1, <3>3, Zenon DEF Uses
      <3>5. st[j].cut => st'[j].cut
        BY <3>1, <3>3, Zenon
      <3>6. Holds(st'[j]) /\ Untouched(st'[j])
        BY <1>0, <3>3, ZenonT(60) DEF Holds, Untouched
      <3>7. LongEnough(st[j])'
        BY <1>0, <3>3, <3>4, <3>5 DEF LongEnough
      <3> QED BY <3>3, <3>6, <3>7
    <2>4. Types'
      <3>1. st' = [j \in Instances |-> st'[j]]
        BY <1>2, Zenon
      <3>2. \A j \in Instances : st'[j] \in State
        BY <2>2, <2>3
      <3>3. st' \in [Instances -> State]
        BY <3>1, <3>2, Zenon
      <3> QED BY <1>2, <3>3 DEF Types
    <2>5. \A j \in Instances \ {i} : ~OnlyWriter(j)'
      BY <2>2 DEF OnlyWriter
    <2> QED BY <2>2, <2>3, <2>4, <2>5 DEF Inv
  <1> QED BY <1>1, <1>2 DEF Fopen

\* Writing the file, and the calls up to mmap().
LEMMA PrepareStep ==
  ASSUME Inv, NEW i \in Instances,
         Fclose(i) \/ Open(i) \/ Fstat(i) \/ MapFile(i) \/ CloseFile(i)
  PROVE  Inv'
  <1> USE DEF State, Points, BeforeFile, Mapped, AfterFile, Maps
  <1>0. /\ st[i] \in State /\ Holds(st[i]) /\ LongEnough(st[i]) /\ Untouched(st[i])
        /\ OnlyWriter(i) => Content(st[i])
        /\ length \in Nat /\ changed \subseteq Nat
    BY DEF Inv, Types
  <1>1. CASE Fclose(i)
    <2> DEFINE s == [st[i] EXCEPT !.pc = "open"]
    <2>1. Become(i, s) /\ st[i].pc = "fclose"
      BY <1>1 DEF Fclose, Goto, At
    <2>2. st'[i] = s /\ st' = [st EXCEPT ![i] = st'[i]]
      BY <2>1, Becoming, ZenonT(60)
    <2>3. s \in State /\ s.rewrote = st[i].rewrote /\ s.pc = "open"
      BY <1>0
    <2>4. st[i].rewrote
      BY <1>0, <2>1 DEF Untouched
    <2>5. PICK n \in 0..TextLength : /\ length' = IF n > length THEN n ELSE length
                                 /\ changed' = {k \in changed : k >= n}
      BY <1>1 DEF Fclose
    <2>6. length' >= length /\ length' \in Nat
      <3>1. n \in Nat
        BY MemoryAssumption
      <3>2. length' = IF n > length THEN n ELSE length
        BY <2>5, Zenon
      <3>3. length \in Nat
        BY <1>0
      <3> HIDE <1>0, <2>5
      <3> QED BY <3>1, <3>2, <3>3
    <2>7. changed' \subseteq changed
      BY <2>5
    <2>8. LocalStep(i)
      <3>1. Holds(s) /\ Untouched(s)
        BY <1>0, <2>1, <2>3 DEF Holds, Untouched
      <3>2. LongEnough(st[i])'
        BY <2>2, <2>3 DEF LongEnough
      <3>3. OnlyWriter(i) => Content(st[i])'
        BY <1>0, <2>1, <2>2, <2>3, <2>7 DEF Content, FileAt
      <3> QED BY <2>2, <2>3, <3>1, <3>2, <3>3 DEF LocalStep
    <2>9. Others(i)
      BY <1>0, <2>2, <2>3, <2>4, <2>6, <2>7 DEF Others
    <2> QED BY <2>8, <2>9, FromLocal
  <1>2. CASE Open(i)
    BY <1>0, <1>2, FileUnchanged, ZenonT(60)
    DEF Open, At, Goto, Holds, Untouched, LongEnough, Content, FileAt
  <1>3. CASE Fstat(i)
    <2>1. CASE Become(i, [st[i] EXCEPT !.pc = "mmap", !.size = length])
      <3> DEFINE s == [st[i] EXCEPT !.pc = "mmap", !.size = length]
      <3>1. /\ s \in State /\ s.pc = "mmap" /\ s.size = length
            /\ s.rewrote = st[i].rewrote /\ st[i].pc = "fstat"
        BY <1>0, <1>3 DEF Fstat, At
      <3>2. Holds(s)
        BY <1>0, <3>1 DEF Holds
      <3>3. LongEnough(s) /\ Untouched(s) /\ (OnlyWriter(i) => Content(s))
        <4> HIDE DEF s
        <4>1. LongEnough(s)
          <5>1. length \in Nat
            BY <1>0
          <5>2. length >= length
            BY <5>1
          <5> QED BY <3>1, <5>2 DEF LongEnough
        <4>2. Untouched(s)
          BY <1>0, <3>1 DEF Untouched
        <4>3. OnlyWriter(i) => Content(s)
          BY <1>0, <3>1 DEF Content, FileAt
        <4> QED BY <4>1, <4>2, <4>3
      <3>4. Become(i, s) /\ UNCHANGED fileVars
        BY <1>3, <2>1 DEF Fstat
      <3> HIDE DEF s, State
      <3> QED BY <3>1, <3>2, <3>3, <3>4, FileUnchanged
    <2>2. CASE Become(i, [st[i] EXCEPT !.pc = "page", !.fd = FALSE])
      BY <1>0, <1>3, <2>2, FileUnchanged, ZenonT(60)
      DEF Fstat, At, Holds, Untouched, LongEnough, Content, FileAt
    <2> QED BY <1>3, <2>1, <2>2 DEF Fstat
  <1>4. CASE MapFile(i)
    <2>1. CASE /\ st[i].size > 0
               /\ Become(i, [st[i] EXCEPT !.pc = "close", !.mapped = @ \cup {"file"}])
      BY <1>0, <1>4, <2>1, FileUnchanged, ZenonT(60)
      DEF MapFile, At, Holds, Untouched, LongEnough, Content, FileAt
    <2>2. CASE Become(i, [st[i] EXCEPT !.pc = "page", !.fd = FALSE])
      BY <1>0, <1>4, <2>2, FileUnchanged, ZenonT(60)
      DEF MapFile, At, Holds, Untouched, LongEnough, Content, FileAt
    <2> QED BY <1>4, <2>1, <2>2 DEF MapFile
  <1>5. CASE CloseFile(i)
    <2> DEFINE s == [st[i] EXCEPT !.pc = "look", !.fd = FALSE]
    <2>1. /\ s \in State /\ s.pc = "look" /\ s.size = st[i].size /\ s.cut = st[i].cut
          /\ s.rewrote = st[i].rewrote /\ st[i].pc = "close"
      BY <1>0, <1>5 DEF CloseFile, At
    <2>2. Holds(s)
      BY <1>0, <2>1 DEF Holds
    <2>3. LongEnough(s) /\ Untouched(s) /\ (OnlyWriter(i) => Content(s))
      <3> HIDE DEF s
      <3> QED BY <1>0, <2>1 DEF LongEnough, Untouched, Content, FileAt
    <2>4. Become(i, s) /\ UNCHANGED fileVars
      BY <1>5 DEF CloseFile
    <2> HIDE DEF s, State
    <2> QED BY <2>1, <2>2, <2>3, <2>4, FileUnchanged
  <1> QED BY <1>1, <1>2, <1>3, <1>4, <1>5


\* A step of the program counter within the mapping.
LEMMA WithinMapping ==
  ASSUME Inv, NEW i \in Instances, NEW next \in Mapped, Goto(i, next),
         st[i].pc \in Mapped \ {"close"},
         length' = length, changed' \subseteq Nat,
         OnlyWriter(i) => FileAt(next)'
  PROVE  Inv'
  <1> DEFINE s == [st[i] EXCEPT !.pc = next]
  <1>1. Become(i, s)
    BY DEF Goto
  <1>2. /\ st[i] \in State /\ Holds(st[i]) /\ LongEnough(st[i]) /\ Untouched(st[i])
        /\ OnlyWriter(i) => Content(st[i])
        /\ st'[i] = s /\ st' = [st EXCEPT ![i] = st'[i]]
        /\ length \in Nat
    <2> HIDE DEF s
    <2> QED BY <1>1, Becoming
  <1>3. /\ s \in State /\ s.pc = next /\ s.cut = st[i].cut /\ s.size = st[i].size
        /\ s.mapped = st[i].mapped /\ s.stuck = st[i].stuck /\ s.fd = st[i].fd
        /\ s.rewrote = st[i].rewrote
    BY <1>2 DEF State, Points
  <1> HIDE DEF s
  <1>4. Holds(s)
    BY <1>2, <1>3 DEF Holds, Mapped, AfterFile
  <1>5. st[i].rewrote
    BY <1>2 DEF Untouched, Mapped, BeforeFile, AfterFile
  <1>6. Untouched(s)
    BY <1>3, <1>5 DEF Untouched
  <1>7. LongEnough(st[i])'
    BY <1>2, <1>3 DEF LongEnough, Mapped
  <1>8. OnlyWriter(i) => Content(st[i])'
    BY <1>2, <1>3 DEF Content
  <1>9. LocalStep(i)
    BY <1>2, <1>3, <1>4, <1>6, <1>7, <1>8 DEF LocalStep
  <1>10. length' >= length /\ length' \in Nat
    BY <1>2
  <1>11. st'[i].rewrote
    BY <1>2, <1>3, <1>5
  <1>12. Others(i)
    BY <1>2, <1>10, <1>11 DEF Others
  <1> QED BY <1>9, <1>12, FromLocal

\* A copy that finds the page gone.
LEMMA SigbusStep ==
  ASSUME Inv, NEW i \in Instances, Sigbus(i), UNCHANGED fileVars, length = 0,
         st[i].pc \in Mapped \ {"close"}
  PROVE  Inv'
  <1> DEFINE s == [st[i] EXCEPT !.pc = "killed", !.mapped = {}, !.stuck = {}]
  <1>0. /\ st[i] \in State /\ Holds(st[i]) /\ LongEnough(st[i]) /\ Untouched(st[i])
    BY DEF Inv, Types
  <1>1. /\ s \in State /\ s.pc = "killed" /\ s.cut = st[i].cut
        /\ s.mapped = {} /\ s.stuck = {} /\ s.fd = st[i].fd
        /\ s.rewrote = st[i].rewrote
    BY <1>0 DEF State, Points
  <1>2. st[i].cut
    <2>1. st[i].size > 0 /\ st[i].size \in Nat
      BY <1>0 DEF LongEnough, State
    <2>2. ~(0 >= st[i].size)
      BY <2>1
    <2>3. ~(length >= st[i].size)
      BY <2>2, Zenon
    <2> QED BY <1>0, <2>3, Zenon DEF LongEnough
  <1>3. st[i].rewrote
    BY <1>0 DEF Untouched, Mapped, BeforeFile, AfterFile
  <1>4. Become(i, s)
    BY DEF Sigbus
  <1> HIDE DEF s
  <1>5. Holds(s)
    BY <1>0, <1>1 DEF Holds, Mapped
  <1>6. LongEnough(s) /\ Untouched(s) /\ Content(s)
    BY <1>1, <1>2, <1>3 DEF LongEnough, Untouched, Content, FileAt, Mapped, BeforeFile
  <1> QED BY <1>1, <1>4, <1>5, <1>6, FileUnchanged

\* The test of the size, for any size.
LEMMA AroundFive == \A n \in Nat : (n > 5 => 0 < n) /\ (n <= 5 => ~(n > 5))
  OBVIOUS

\* Reading and changing the file through the mapping, and munmap().
LEMMA UseStep ==
  ASSUME Inv, NEW i \in Instances,
         \/ Look(i, "look", "store0") \/ Modify(i) \/ Look(i, "look again", "munmap")
         \/ Munmap(i, "munmap", "file", "page")
  PROVE  Inv'
  <1>0. /\ st[i] \in State /\ Holds(st[i])
        /\ length \in Nat /\ st[i].size \in Nat /\ changed \subseteq Nat
    BY DEF Inv, Types, State
  <1>1. /\ OnlyWriter(i) => FileAt(st[i].pc)
        /\ OnlyWriter(i) /\ st[i].pc \in Mapped => length = st[i].size
    BY DEF Inv, Content
  <1> USE DEF Mapped
  <1>2. ASSUME NEW at \in {"look", "look again"}, NEW next \in {"store0", "munmap"},
               at = "look" <=> next = "store0", Look(i, at, next)
        PROVE  Inv'
    <2>1. st[i].pc = at /\ length' = length /\ changed' = changed /\ UNCHANGED fileVars
      BY <1>2 DEF Look, At, fileVars
    <2>2. CASE length = 0
      BY <1>2, <2>1, <2>2, SigbusStep DEF Look
    <2>3. CASE length # 0
      <3>1. OnlyWriter(i) => FileAt(next)'
        BY <1>1, <1>2, <2>1 DEF FileAt, BeforeFile
      <3> QED BY <1>0, <1>2, <2>1, <2>3, <3>1, WithinMapping DEF Look
    <2> QED BY <2>2, <2>3
  <1>3. ASSUME NEW at \in {"store0", "store5"}, NEW k \in Nat, NEW next \in Mapped,
               Store(i, at, k, next),
               OnlyWriter(i) /\ length # 0 => FileAt(next)'
        PROVE  Inv'
    <2>1. st[i].pc = at /\ length' = length
      BY <1>3 DEF Store, At
    <2>2. CASE length = 0
      BY <1>3, <2>1, <2>2, SigbusStep DEF Store, fileVars
    <2>3. CASE length # 0
      <3>1. Goto(i, next) /\ changed' \subseteq Nat
        BY <1>0, <1>3, <2>3 DEF Store
      <3> QED BY <1>3, <2>1, <2>3, <3>1, WithinMapping
    <2> QED BY <2>2, <2>3
  <1>4. CASE st[i].size > 5 /\ Store(i, "store0", 0, "store5")
    <2>1. ASSUME OnlyWriter(i), length # 0 PROVE FileAt("store5")'
      <3>1. st[i].pc = "store0" /\ length' = length
        BY <1>4 DEF Store, At
      <3>2. changed = {} /\ length > 5
        BY <1>1, <1>4, <2>1, <3>1 DEF FileAt
      <3>3. changed' = {0}
        <4>1. changed' = IF 0 < length THEN changed \cup {0} ELSE changed
          BY <1>4, <2>1 DEF Store
        <4>2. 0 < length
          BY <1>0, <3>2, AroundFive, Zenon
        <4> QED BY <3>2, <4>1, <4>2
      <3> QED BY <3>1, <3>2, <3>3 DEF FileAt, BeforeFile
    <2> QED BY <1>3, <1>4, <2>1
  <1>5. CASE Store(i, "store5", 5, "look again")
    <2>1. ASSUME OnlyWriter(i), length # 0 PROVE FileAt("look again")'
      <3>1. st[i].pc = "store5" /\ length' = length
        BY <1>5 DEF Store, At
      <3>2. changed = {0} /\ length > 5
        BY <1>1, <2>1, <3>1 DEF FileAt
      <3>3. changed' = {0, 5}
        BY <1>0, <1>5, <2>1, <3>2 DEF Store
      <3> QED BY <3>1, <3>2, <3>3 DEF FileAt, BeforeFile
    <2> QED BY <1>3, <1>5, <2>1
  <1>6. CASE st[i].size <= 5 /\ At(i, "store0") /\ Goto(i, "look again") /\ UNCHANGED fileVars
    <2>1. st[i].pc = "store0" /\ length' = length /\ changed' = changed
      BY <1>6 DEF At, fileVars
    <2>2. ASSUME OnlyWriter(i) PROVE FileAt("look again")'
      <3>1. changed = {} /\ length = st[i].size
        BY <1>1, <2>1, <2>2 DEF FileAt
      <3>2. st[i].size <= 5 /\ st[i].size \in Nat
        BY <1>0, <1>6
      <3>3. ~(length > 5)
        BY <3>1, <3>2, AroundFive, Zenon
      <3> QED BY <2>1, <3>1, <3>3 DEF FileAt, BeforeFile
    <2> QED BY <1>0, <1>6, <2>1, <2>2, WithinMapping
  <1>7. CASE Munmap(i, "munmap", "file", "page")
    <2>1. ASSUME NEW s \in State, Become(i, s), s.pc = "page", s.rewrote = st[i].rewrote, Holds(s)
          PROVE  Inv'
      <3>1. Untouched(s) /\ LongEnough(s) /\ Content(s)
        BY <2>1 DEF Untouched, LongEnough, Content, FileAt, BeforeFile, AfterFile
      <3> QED BY <1>7, <2>1, <3>1, FileUnchanged DEF Munmap
    <2> USE DEF State, Points, BeforeFile, AfterFile, Maps
    <2>2. CASE Become(i, [st[i] EXCEPT !.pc = "page", !.mapped = @ \ {"file"}])
      BY <1>0, <1>7, <2>1, <2>2 DEF Munmap, At, Holds
    <2>3. CASE Become(i, [st[i] EXCEPT !.pc = "page", !.stuck = @ \cup {"file"}])
      BY <1>0, <1>7, <2>1, <2>3 DEF Munmap, At, Holds
    <2> QED BY <1>7, <2>2, <2>3 DEF Munmap
  <1> QED BY <1>2, <1>4, <1>5, <1>6, <1>7 DEF Modify

\* Every step of any copy keeps Inv.
LEMMA StepInv == Inv /\ [MemoryNext]_memoryVars => Inv'
  <1> SUFFICES ASSUME Inv, [MemoryNext]_memoryVars PROVE Inv'
    OBVIOUS
  <1>1. ASSUME NEW i \in Instances, MemoryMain(i) PROVE Inv'
    BY <1>1, MemoryStep, FopenStep, PrepareStep, UseStep DEF MemoryMain, FileDemo
  <1>2. CASE UNCHANGED memoryVars
    BY <1>2, ZenonT(60)
    DEF memoryVars, Inv, Types, Holds, LongEnough, Untouched, OnlyWriter, Content, FileAt
  <1> QED BY <1>1, <1>2 DEF MemoryNext, MemoryTerminated

-----------------------------------------------------------------------------

\* The inductive invariant holds throughout.
THEOREM Invariance == MemorySpec => []Inv
  BY InitInv, StepInv, PTL DEF MemorySpec

\* However many copies run and whichever calls fail, a copy that ends has
\* closed the file and unmapped what munmap() let it unmap.
THEOREM AllReleasedCorrect == MemorySpec => []AllReleased
  <1>1. Inv => AllReleased
    <2> SUFFICES ASSUME Inv, NEW i \in Instances, st[i].pc \in {"ended", "killed"}
                 PROVE  ~st[i].fd /\ st[i].mapped = st[i].stuck
      BY DEF AllReleased
    <2>1. st[i] \in State /\ Holds(st[i])
      BY DEF Inv, Types
    <2>2. ~st[i].fd
      BY <2>1 DEF Holds
    <2>3. st[i].mapped \subseteq Maps /\ st[i].stuck \subseteq Maps
      BY <2>1 DEF State
    <2>4. \A m \in Maps : m \in st[i].mapped <=> m \in st[i].stuck
      BY <2>1 DEF Holds, Maps, Mapped
    <2> QED BY <2>2, <2>3, <2>4
  <1> QED BY <1>1, Invariance, PTL

\* However many copies run, only one that has the file truncated under its
\* mapping by another is killed by SIGBUS.
THEOREM KilledOnlyIfTruncatedCorrect == MemorySpec => []KilledOnlyIfTruncated
  <1>1. Inv => KilledOnlyIfTruncated
    BY DEF Inv, LongEnough, KilledOnlyIfTruncated
  <1> QED BY <1>1, Invariance, PTL

\* However many copies run, the changes of one that alone has written the file
\* are in the file, both of them or, if it is too short, none.
THEOREM ChangesReachFileCorrect == MemorySpec => []ChangesReachFile
  <1>1. Inv => ChangesReachFile
    BY DEF Inv, Content, FileAt, OnlyWriter, ChangesReachFile, At
  <1> QED BY <1>1, Invariance, PTL

=============================================================================
