--------------------------- MODULE FileOperations ---------------------------
(***************************************************************************)
(* examples/file_operations.c: TEST_FILE is written, read back and read    *)
(* again from an offset, then standard output is redirected to a second    *)
(* file with dup2() and restored.  The stdio buffer lies between printf()  *)
(* and the descriptor: on a terminal a line is written when it is printed, *)
(* otherwise all lines are written when the program ends (they fit into    *)
(* the buffer).  Calls may fail, checked or not.                           *)
(***************************************************************************)
EXTENDS Integers, Sequences

CONSTANT Length         \* strlen(write_buf), 58 in the code

\* The read buffer has 1023 places.
ASSUME LengthAssumption == Length \in 0..1023

Skip == 7
Want == 20
Fds == {"stdout", "stdout_copy", "fd_write", "fd"}

VARIABLES
  pc,
  tty,          \* standard output is a terminal
  file,         \* file[f]: what descriptor variable f refers to
  size, offset, \* of TEST_FILE and of the descriptor that reads it
  got,          \* results of the two read() calls, -1 for an error
  buf,          \* lines in the stdio buffer
  out,          \* out[x]: lines that have reached file x
  printed,      \* all lines printed so far
  saved, opened \* dup() and the open() of the second file succeeded

ioVars == <<buf, out, printed>>
dataVars == <<size, offset, got>>
okVars == <<saved, opened>>
vars == <<pc, tty, file, dataVars, ioVars, okVars>>

Init ==
  /\ pc = "open" /\ tty \in BOOLEAN
  /\ file = [f \in Fds |-> IF f = "stdout" THEN "original" ELSE "closed"]
  /\ size = 0 /\ offset = 0 /\ got = [all |-> 0, part |-> 0]
  /\ buf = <<>> /\ out = [x \in {"original", "redirect"} |-> <<>>] /\ printed = <<>>
  /\ saved = FALSE /\ opened = FALSE

-----------------------------------------------------------------------------
(* The C library and the kernel                                            *)

\* printf() of whole lines.
Printf(lines) ==
  /\ printed' = printed \o lines
  /\ IF tty THEN out' = [out EXCEPT ![file["stdout"]] = @ \o lines] /\ UNCHANGED buf
            ELSE buf' = buf \o lines /\ UNCHANGED out

\* What read() of n bytes returns; it may fail.
Read(n) == {-1} \cup {IF offset >= size THEN 0 ELSE IF size - offset < n THEN size - offset ELSE n}

\* dup2(from, to): without effect if from is not open.
Dup2(from, to) == file' = [file EXCEPT ![to] = IF file[from] = "closed" THEN @ ELSE file[from]]

-----------------------------------------------------------------------------
(* main                                                                    *)

Create ==
  /\ pc = "open" /\ Printf(<<"creating">>)
  /\ \/ file' = [file EXCEPT !["fd"] = "test"] /\ pc' = "write"
     \/ pc' = "exit" /\ UNCHANGED file
  /\ UNCHANGED <<tty, dataVars, okVars>>

\* write() may be short; after an error the file is closed.
Write ==
  /\ pc = "write" /\ Printf(<<"writing">>)
  /\ \/ size' \in 0..Length /\ pc' = "reopen" /\ UNCHANGED file
     \/ file' = [file EXCEPT !["fd"] = "closed"] /\ pc' = "exit" /\ UNCHANGED size
  /\ UNCHANGED <<tty, offset, got, okVars>>

Reopen ==
  /\ pc = "reopen" /\ Printf(<<"reading">>)
  /\ offset' = 0
  /\ \/ file' = [file EXCEPT !["fd"] = "test"] /\ pc' = "read"
     \/ file' = [file EXCEPT !["fd"] = "closed"] /\ pc' = "exit"
  /\ UNCHANGED <<tty, size, got, okVars>>

ReadAll ==
  /\ pc = "read"
  /\ \E n \in Read(1023) : /\ got' = [got EXCEPT !.all = n]
                           /\ offset' = IF n > 0 THEN offset + n ELSE offset
  /\ Printf(<<"content">>)
  /\ pc' = "seek"
  /\ UNCHANGED <<tty, file, size, okVars>>

\* lseek(fd, 0, SEEK_END), then to the offset 7.
Seek ==
  /\ pc = "seek"
  /\ offset' = Skip
  /\ pc' = "reread"
  /\ UNCHANGED <<tty, file, size, got, ioVars, okVars>>

\* read_buf[bytes_read] = '\0' with whatever read() has returned.  After an error
\* the 0 is stored one byte below the array, which is undefined: it hits nothing
\* that is used again, or the one variable that is, fd, which then no longer names
\* its descriptor.
Reread ==
  /\ pc = "reread"
  /\ \E n \in Read(Want) :
       /\ got' = [got EXCEPT !.part = n]
       /\ \/ UNCHANGED file
          \/ n = -1 /\ file' = [file EXCEPT !["fd"] = "lost"]
  /\ Printf(<<"part">>)
  /\ pc' = "info"
  /\ UNCHANGED <<tty, size, offset, okVars>>

\* print_file_info: says nothing on standard output if stat() fails.
PrintFileInfo ==
  /\ pc = "info"
  /\ Printf(<<"info">>) \/ UNCHANGED ioVars
  /\ pc' = "dup"
  /\ UNCHANGED <<tty, file, dataVars, okVars>>

SaveStdout ==
  /\ pc = "dup" /\ Printf(<<"redirecting">>)
  /\ saved' \in BOOLEAN
  /\ file' = [file EXCEPT !["stdout_copy"] = IF saved' THEN file["stdout"] ELSE "closed"]
  /\ pc' = "open2"
  /\ UNCHANGED <<tty, dataVars, opened>>

OpenSecond ==
  /\ pc = "open2"
  /\ opened' \in BOOLEAN
  /\ file' = [file EXCEPT !["fd_write"] = IF opened' THEN "redirect" ELSE "closed"]
  /\ pc' = "redirect"
  /\ UNCHANGED <<tty, dataVars, ioVars, saved>>

Redirect ==
  /\ pc = "redirect" /\ Dup2("fd_write", "stdout")
  /\ pc' = "close2"
  /\ UNCHANGED <<tty, dataVars, ioVars, okVars>>

\* A descriptor that its variable no longer names stays open.
Close(f, at, next) ==
  /\ pc = at
  /\ file' = [file EXCEPT ![f] = IF @ = "lost" THEN @ ELSE "closed"]
  /\ pc' = next
  /\ UNCHANGED <<tty, dataVars, ioVars, okVars>>

PrintRedirected ==
  /\ pc = "print" /\ Printf(<<"to the file", "this too">>)
  /\ pc' = "restore"
  /\ UNCHANGED <<tty, file, dataVars, okVars>>

\* Mutant of RestoreStdout: the arguments of dup2 are swapped.
RestoreSwapped ==
  /\ pc = "restore" /\ Dup2("stdout", "stdout_copy")
  /\ pc' = "close copy"
  /\ UNCHANGED <<tty, dataVars, ioVars, okVars>>

RestoreStdout ==
  /\ pc = "restore" /\ Dup2("stdout_copy", "stdout")
  /\ pc' = "close copy"
  /\ UNCHANGED <<tty, dataVars, ioVars, okVars>>

\* fcntl(F_GETFL) prints its result or fails.
Fcntl ==
  /\ pc = "fcntl"
  /\ Printf(<<"redirected">>) \/ Printf(<<"redirected", "flags">>)
  /\ pc' = "close"
  /\ UNCHANGED <<tty, file, dataVars, okVars>>

Complete ==
  /\ pc = "complete" /\ Printf(<<"complete">>)
  /\ pc' = "exit"
  /\ UNCHANGED <<tty, file, dataVars, okVars>>

\* Mutant of Exit: _exit() instead of a return from main.
ExitAtOnce ==
  /\ pc = "exit" /\ pc' = "ended"
  /\ UNCHANGED <<tty, file, dataVars, ioVars, okVars>>

\* The return from main flushes the buffer to what descriptor 1 is by then.
Exit ==
  /\ pc = "exit" /\ pc' = "ended"
  /\ out' = [out EXCEPT ![file["stdout"]] = @ \o buf] /\ buf' = <<>>
  /\ UNCHANGED <<tty, file, dataVars, printed, okVars>>

Main ==
  \/ Create \/ Write \/ Reopen \/ ReadAll \/ Seek \/ Reread \/ PrintFileInfo
  \/ SaveStdout \/ OpenSecond \/ Redirect \/ Close("fd_write", "close2", "print")
  \/ PrintRedirected \/ RestoreStdout \/ Close("stdout_copy", "close copy", "fcntl")
  \/ Fcntl \/ Close("fd", "close", "complete") \/ Complete \/ Exit

Terminated == pc = "ended" /\ UNCHANGED vars

Next == Main \/ Terminated

Spec == Init /\ [][Next]_vars

-----------------------------------------------------------------------------
(* Properties                                                              *)

InRedirection == {"to the file", "this too"}

\* On every path, whether standard output is a terminal or not, no line is lost,
\* written twice or moved: the second file holds lines printed in a row, the first
\* one all the others in their order.  None goes to a second file that could not be
\* opened, and on a terminal exactly the two lines between the dup2() calls do, or
\* all from the first of them on if dup() had not saved standard output.
LinesKept ==
  pc = "ended" =>
    \E i, j \in 0..Len(printed) :
      /\ i <= j
      /\ out = [original |-> SubSeq(printed, 1, i) \o SubSeq(printed, j + 1, Len(printed)),
                redirect |-> SubSeq(printed, i + 1, j)]
      /\ ~opened => i = j
      /\ opened /\ tty =>
           /\ j = IF saved THEN i + 2 ELSE Len(printed)
           /\ \A n \in 1..Len(printed) : printed[n] \in InRedirection <=> n \in {i + 1, i + 2}

\* What the program says of the two lines: "This goes to the file!", and when
\* standard output is restored "Output redirected to redirect_output.txt".
RedirectedToFile ==
  pc = "ended" /\ opened /\ saved => out["redirect"] = <<"to the file", "this too">>

\* The program ends with its own descriptors closed, whichever call failed, and
\* with standard output as it was, unless dup() had not saved it.  Only a failed
\* second read(), after which fd may be overwritten, can leave a descriptor open.
DescriptorsRestored ==
  pc = "exit" => \A f \in Fds :
    \/ file[f] = IF f # "stdout" THEN "closed"
                 ELSE IF opened /\ ~saved THEN "redirect" ELSE "original"
    \/ f = "fd" /\ file[f] = "lost" /\ got.part = -1

=============================================================================
