# Verification of the example programs of "Linux System Calls Mastery Guide"

The repository is a tutorial: chapters of prose (`00-foundations` to
`08-kernel-interfaces`, `99-reference`), figures, and ten C programs in
`examples/` that show processes, pipes, shared memory, threads, signals,
sockets, files, memory and resource limits at work. The programs are the
executable part of the repository and the subject of this project; the chapters
say what the calls promise and are what the programs are compared with.

## 1. Inventory

| program | state it keeps | operations | what is hard | what makes it correct |
|---|---|---|---|---|
| `threads_demo.c` | `counter`, `ready`, `mutex`, `cond`, TLS key | five demos run by `main` | interleavings of two threads, lost wakeups, `sleep` instead of synchronisation, failing creates, detached threads, destructors against key deletion | no increment or wakeup lost, items in order, values private to their thread, joins return |
| `process_manager.c` | three children, their exit statuses, the stdio buffer | fork loop, wait loop | order of exits, orphans after a failing fork, ignored SIGCHLD, buffers copied by `fork` | "All children completed" is true, every line is printed, nobody stays behind |
| `pipe_demo.c` | pipe ends held by each process | four demos | EOF needs every write end closed, full pipes, SIGPIPE, failing exec | messages and lines arrive once and complete, nobody waits forever, nothing left open |
| `tcp_server.c`, `tcp_client.c` | listening socket and queue, one connection at a time, two byte streams | accept and echo loops; connect, prompt/send/recv loop | short reads, end of file against data, resets, SIGPIPE, clients in the queue | the echo is what was sent, connections are closed, nobody waits in vain |
| `shm_demo.c` | a keyed System V segment, two private ones | create, attach, child writes, parent reads, remove | reads after a `sleep`, unsynchronised increments, two copies on one key, removal while mapped | segments are destroyed, mapped memory stays, the counter keeps within its bounds |
| `signal_demo.c` | `sigint_count`, `sigusr1_received`, mask, pending set, alarm | five demos | handler against main flow, merged signals, interrupted `wait` and `sleep` | flags not lost, children reaped, loops end |
| `file_operations.c` | descriptors, offsets, stdio buffer, redirected stdout | write/read/seek, `dup2`, metadata | buffered output across `dup2`, unchecked failures | lines printed while redirected go to the file, none is lost, buffers are not overrun, descriptors restored |
| `resource_limits.c` | soft and hard limits, nice value | get/set limits, CPU and priority demos | a lowered hard limit cannot be raised again, -1 as a value and as an error | what is said of a limit or the nice value is true, a limit set for a while is taken back |
| `memory_demo.c` | heap break, mappings, `mmap_test.txt` | `brk`, anonymous `mmap`, file `mmap`, `mprotect` demos | a file truncated under its mapping, short writes, unchecked calls | stores reach the file or nothing, everything unmapped and closed |

The programs share no code. They interact with the kernel and with copies of
themselves: parent and children through `fork`, `wait`, pipes and shared memory,
threads through memory, mutex and condition variable, server and clients through
TCP. `scripts/gen_figures.py` (SVG text from fixed coordinates), `index.html`
(generated), the workflow and the Makefile have no behaviour worth a model; the
Makefile matters in one respect: programs are built without optimisation, so
`counter++` is a load followed by a store.

## 2. Modules

Every module is a state machine: program points of its processes or threads, the
data the properties tell apart, and the kernel objects between them. Output is
kept only where a property is about it. A system call that the code lets fail
may fail in the model, checked or not; where the code goes on with an
uninitialised `pthread_t`, joining it returns, crashes or hangs; where it stores
outside an array, the store hits nothing or the variable that is still used.
`sleep` orders nothing. An operator marked as the mutant of the definition after it states a
plausible mistake in that definition and is used by nothing else.

| module | code | state and actions |
|---|---|---|
| `ThreadsParameters` | the loop bounds of `threads_demo.c` | constants and their assumptions |
| `AtomicCounter` | (abstract) | atomic increments of two threads; the total is reported once none is left to come |
| `MutexDemo` | `mutex_thread`, `demo_mutex` | `Lock`, `Load`, `Store`, `Unlock`, `Return` per thread; `Reset`, `Create`, `Join`, `PrintTotal` in main |
| `CondDemo` | `producer`, `consumer`, `demo_condition_variable` | a step per call under the mutex; `pthread_cond_wait` unlocks and waits in one step; spurious wakeups |
| `ThreadLifecycle` | the other demos of `threads_demo.c` and `main` | create, join, detached thread, TLS key with its destructor |
| `ThreadsDemo` | all of `threads_demo.c` | the three modules above as one program |
| `ProcessManager` | `process_manager.c` | N children, the fork loop, the wait loop, the stdio buffer of every process; standard output a terminal or not, SIGCHLD ignored or not, children killed from outside |
| `PipelineDemo` | `pipe_exec_demo` | descriptor tables of parent, `ls` and `wc`, a bounded pipe, a stdio buffer that a failing `exec` flushes |
| `PipeMessages` | the other demos of `pipe_demo.c` and `main` | pipe ends held by parent and child, one message per pipe, SIGPIPE |
| `PipeDemo` | all of `pipe_demo.c` | the two modules above as one program |
| `EchoTcp` | `tcp_server.c`, `tcp_client.c` | accept queue, byte streams both ways that `recv` cuts anywhere, end of file, resets on their way, SIGPIPE, Ctrl+C on either side |
| `ShmSegment` | `demonstrate_basic_shm` in several copies of the program | key, segments (live, marked, absent), attachments, the structure field by field; the segment of a run that was killed may be there at the start |
| `ShmCounter` | `demonstrate_shm_info`, `demonstrate_multiple_attachments`, end of `main` | load and store of two children, unchecked forks and `waitpid(-1)`, two private segments |
| `ShmDemo` | all of `shm_demo.c` | the two modules above as one program |
| `SignalDemo` | `signal_demo.c` | main, its two children and the terminal; per process the pending set, mask and count of interrupts; `HandleInt` and `Handle` run a handler before the next step, `Resume` lets it cut a call short, `ReapLoop` is the body of `sigchld_handler` |
| `FileOperations` | `file_operations.c` | what each descriptor refers to, offset and size of the test file, the stdio buffer and where each line ends up |
| `ResourceLimits` | `resource_limits.c` | both limits, the program's `struct rlimit`, CPU time used, nice value, privileged or not |
| `MemoryDemo` | `memory_demo.c` in several copies | mappings and descriptor per copy, length and changed bytes of the shared file, SIGBUS |
| `SingleProcessDemos` | the three programs above | one of the three is run |
| `SequentialProofs` | | the TLAPS proofs of `ResourceLimits` and `FileOperations`, the programs that run alone |
| other `*Proofs` | | the TLAPS proofs of the module before the suffix and of the modules it composes |

How the compositions work:

- `ThreadsDemo` runs `demo_mutex` and `demo_condition_variable` where
  `ThreadLifecycle` has the placeholder `OtherDemos`. The mutex is one variable:
  threads of either demo lock it. The global `counter` is reset by each demo
  before it creates a thread, so that the two uses never meet; the second is
  called `item`. Threads of `demo_simple_threads` that a failing create left
  behind run on beside everything else.
- `PipeDemo` runs the pipeline where `PipeMessages` has the placeholder
  `PipeExecDemo`; children that were not waited for run on.
- `ShmDemo` lets two copies of the program meet in the keyed segment. What
  follows uses private segments and children of its own and commutes with every
  step of another copy; one copy is followed through it once all have returned
  from `demonstrate_basic_shm` (`Key!Ended`), which loses no outcome.
- `SingleProcessDemos` puts `file_operations`, `resource_limits` and
  `memory_demo` into one run. They share nothing, so a behaviour of it is a
  behaviour of one of them and its states are the sum of theirs.

`AtomicCounter` is instantiated by `MutexDemo` (refinement). The kernel, TCP,
`ls`, `wc` and the C library are modelled as the programs use them and marked
external in the map.

## 3. Runs

| run | bounds | distinct states | shows |
|---|---|---|---|
| `threads_demo` | Iterations = 3, Items = 4, N = 2 | 98,141 | `FinalCounter`, refinement of `AtomicCounter`; `Transcript`, `NoLostWakeup`; `SimpleResults`, `TlsIsolation`, `DestructorsBeforeDelete`; main ends (`MainEnds`) |
| `cond_demo_hang` | Items = 2 | (violation) | an overwritten item makes `demo_condition_variable` hang |
| `process_manager` | N = 3 (as in the code) | 1,682 | `EachChildWaitedFor`, `OutputComplete`, every process ends and is reaped (`AllEnd`) |
| `process_manager_piped` | N = 2 | (violation) | with buffered output lines are written more than once |
| `pipe_demo` | 4 lines, a pipe of 2, 1 line unflushed | 3,211 | the count is right, everything is closed and reaped, parent, `ls` and `wc` never wait for one another (`NoCircularWait`), no unread buffer is printed, nothing lost unless a call failed, main ends |
| `echo_tcp` | 2 clients, 2 lines of 3 bytes, queue of 1 | 46,514 | `EchoIntegrity`, `NoConnectionLeak`, `Answerable`, `NoWaitInVain` |
| `echo_tcp_short_read` | 1 client, 1 line of 2 bytes | (violation) | one `recv` shows a part of the echo |
| `shm_demo` | 2 copies, 3 increments (as in the code) | 186,660 | bounds of the unsynchronised counter, segments removed and not before the last user left, data right when alone and in time, all copies end |
| `signal_demo` | 3 presses of Ctrl+C | 436,372 | `BlockedInterruptDelivered`, `NoZombieMissed`, `AlarmGoesOff`, `SomethingToWaitFor`, `EndsUnlessChildInterrupted` |
| `single_process_demos` | `file_operations`: 58 bytes (as in the code); `resource_limits`: limits 0 to 3 (3 is infinity), 3 s of CPU time, every nice value; `memory_demo`: 2 copies, 6 bytes | 1,767,627 (85,208 + 673,890 + 1,008,529) | `LinesKept`, `DescriptorsRestored`; `ReportsTrue` (of the file limit and the nice value); `AllReleased`, `KilledOnlyIfTruncated`, `ChangesReachFile` |
| `file_operations_redirect` | 1 byte | (violation) | without a terminal the redirected lines do not reach `redirect_output.txt` |
| `resource_limits_reset` | limits 0 to 3, 3 s of CPU time | (violation) | the CPU limit is not reset in a process without privileges |

Five of the invariants say what a waiting process waits for, and are the safety
half of the liveness property of their run: `NoLostWakeup` (the consumer on
`cond`, in its part `StuckOnlyByLoss`), `EachChildWaitedFor` (the parent in
`wait`, in its part `CallsMatchChildren`), `NoCircularWait` (the pipeline),
`Answerable` (a client in `recv`) and `SomethingToWaitFor` (main in its loop on
`sigusr1_received`, and in `wait`). The liveness property adds that
what can come does come, which is where fairness enters.

Why the bounds are enough: a loop needs two iterations for a stale value of the
first to meet the second, and a third to be neither first nor last; two TLS
threads are one whose value is NULL and one whose value is not; a pipe must be smaller
than the output for the writer to block, and larger than one line for reader and
writer to overlap; a line of three bytes can be cut into first, middle and last
pieces; a queue of one is full with a second client; two copies of `shm_demo`
and of `memory_demo` are the fewest that share a key or a file. Three interrupts
are what `sigint_handler` counts up to before it exits. The code of
`resource_limits.c` compares limits with 2 and with infinity only, so limits
below, at and above 2 suffice, and its theorems cover all others. Six bytes are
the shortest file in which `memory_demo.c` changes its sixth byte; short writes
give all shorter ones. N of `process_manager`, the increments of `shm_demo` and
the text of `file_operations` are the programs' own.

Fairness is weak fairness of each process, thread or demo: the scheduler runs
whatever is not blocked, and sleeps end. In `CondDemo` and `ThreadsDemo`
spurious wakeups happen finitely often. In `EchoTcp` only the programs and the
network are fair; users need not type, quit or interrupt. In `SignalDemo` the
delivery of a pending signal that is not blocked is fair, pressing Ctrl+C is
not. Loops around the mutex are finite, so that no fairness of the mutex itself
is assumed. `FileOperations`, `ResourceLimits` and `MemoryDemo` never wait for
anybody and are checked for safety only. Every module has a step for its proper
end states, so deadlock checking stays on.

## 4. Deviations

Five runs show a disagreement between a program and what the guide or the
program itself says; `PROJECT.json` quotes the lines.

- `cond_demo_hang`: nothing but `sleep(1)` keeps the producer from overwriting
  the one-place buffer; the consumer then waits for an item that never comes.
- `process_manager_piped`: children end with `exit`, which flushes the parent's
  buffered lines again when output is not a terminal.
- `echo_tcp_short_read`: the client takes one `recv` for one line.
- `file_operations_redirect`: without a terminal the two lines printed while
  standard output is redirected are still in the stdio buffer when it is
  restored. They end up in the original output and `redirect_output.txt` stays
  empty, although the lines say that they go to the file. What does hold
  (`LinesKept`) is that no line is lost, written twice or moved.
- `resource_limits_reset`: soft and hard CPU limit are lowered together, so the
  reset fails, unnoticed, in every process without privileges, which
  `CpuLimitAfterDemoCorrect` proves for every limit.

The models also reach the following, which the passing properties are stated
around:

- `threads_demo.c:82`: a failing `pthread_create` returns past the joins of the
  threads already running (`SimpleResults`: all joined or none).
- `threads_demo.c:121`: if the producer is never created, a consumer that was
  waits forever and main with it (the last case of `MainEnds`).
- `threads_demo.c:153`: "Detached thread completed" is printed after `sleep(2)`,
  whether or not the thread has completed.
- `pipe_demo.c:79`: after an unchecked failing `fork`, `bidirectional_pipe_demo`
  closes the only read end and dies of SIGPIPE (`main = "killed"`), which is why
  `CompleteWhenNothingFails` says "when nothing fails".
- `pipe_demo.c:33`, `:76`: early returns keep pipe ends open.
- `pipe_demo.c:137`: a failing `execlp` flushes inherited stdio lines into the
  pipe, and `wc` counts them (second case of `CountsLsLines`).
- `tcp_server.c:115`: a client that closes while its answer is under way can end
  the server by SIGPIPE (`SendSigpipe`) instead of the error branch after `send`.
- `tcp_client.c:78`: `strlen` of a line that begins with a NUL byte is 0, `send`
  sends nothing, and the client waits for an echo of nothing while the server
  waits for the next bytes. `LineLen` is positive, so `Answerable` and
  `NoWaitInVain` are about all other lines.
- `shm_demo.c:86`: the parent prints "Reading data after child modified" after
  `sleep(1)`, with nothing to make sure of it; `ParentReadsModified` is about a
  child that was in time.
- `shm_demo.c:34`: a fixed key without `IPC_EXCL` lets a second copy write into
  the data of the first, and a run that was killed leaves its segment to the
  next; `ChildReadsInitial` is about a copy that no other has met.
- `signal_demo.c:63`: "No interrupts received" is also printed after one or two.
- `signal_demo.c:106`: SIGINT goes to the child as well; if it ends the child
  before the child has sent SIGUSR1, the loop of the parent never ends
  (`ChildInterrupted`).
- `signal_demo.c:125`: the text says that a blocked SIGINT will be queued;
  several of them become one.
- `signal_demo.c:141`: when `sigpending` fails, the demo returns with SIGINT
  still blocked.
- `file_operations.c:108`: the result of the second `read` is used as an index
  unchecked; after an error the program writes to `read_buf[-1]`. The behaviour
  is undefined. Of the variables of `main` set before this point only `fd` is
  used after it, so `Reread` leaves everything as it was or makes `fd` lose its
  descriptor, which then stays open (last case of `DescriptorsRestored`). With
  gcc 12 on x86-64 and the flags of the Makefile the byte lies below the stack
  pointer, and in padding when the stack protector is on, so that nothing is
  hit; the model does not rely on it. The line printed then shows what the first
  `read` left in the buffer, or whatever was there if that failed too; texts are
  not modelled.
- `file_operations.c:116`: after a failing `dup` standard output stays redirected
  (cases of `LinesKept` and `DescriptorsRestored`).
- `resource_limits.c:128`: with both limits at two seconds the hard one may end
  the process by SIGKILL where SIGXCPU is announced.
- `memory_demo.c:149`: "Changes written to file via mmap!" is also printed for a
  file too short to be changed. A second copy that truncates the file kills the
  first by SIGBUS (`KilledOnlyIfTruncated`).

## 5. Proofs

TLAPS proves every invariant the passing runs check and the refinement, for every value of the constants. The assumptions, each named in the module that
declares the constant:

| constant | assumed | why the code justifies it |
|---|---|---|
| `Iterations`; `Items`, `N`, `Increments` | a natural number; positive ones | loop bounds and array lengths |
| `LsLines`, `PipeCap`; `Unflushed` | positive; at most `PipeCap` | `ls -l` prints a total; a stdio buffer of 4 KB fits into a pipe of 64 KB |
| `MaxLines`; `LineLen`, `AcceptQueue` | a natural number; positive ones | any number of lines may be typed, each ends with a newline (one that begins with NUL, section 4, is left out); the backlog is 5 |
| `Clients` | `NoOne` is not in it | `NoOne` stands for no connection |
| `Instances` of `ShmDemo` | finite, not empty | copies of a program that run at one time |
| `Instances` of `MemoryDemo` | nothing | |
| `TextLength` of `MemoryDemo`, `Length` of `FileOperations` | a natural number; at most 1023 | `strlen`; the text fits the read buffer |
| `Infinity`, `MaxCpu` | a natural number above 2; a natural number | `RLIM_INFINITY` |
| `MaxInterrupts` | a natural number, which no proof uses | |

No property is inductive as it stands; each bullet says what had to be added.

- `ThreadsDemoProofs`, the whole of `threads_demo.c`.
  - The mutex demo alone (`MutexTypes`, `MutexFinalCounter`, its refinement of
    `AtomicCounter`): exactly the owner of the mutex is between lock and unlock, a loaded value is still the
    counter's, the counter is the sum of the increments made, and each join has
    established something.
  - The condition variable demo alone (`NoLostWakeup`, `InOrder`,
    `AllItemsConsumed`): beside mutual exclusion and the hand-over condition it
    needs `Gap`: printed items grow at least as fast as their positions, so that
    `Items` different items below `Items` are all of them.
  - `ImplementsBothDemos`: each demo is instantiated with a mapping of the
    shared mutex under which it is free while a thread of the other demo owns
    it; every step of the program is then a step of each demo or leaves it
    alone. For unlock steps this needs both demos' invariants (whoever unlocks
    is the owner), so they are carried together. `FinalCounterCorrect`,
    `Refinement`, `TranscriptCorrect` and
    `NoLostWakeupCorrect` follow for the program. Nothing is ready when the
    producer has ended and the consumer waits, so what it has not taken was
    overwritten: that is `StuckOnlyByLoss`.
  - `ImplementsLifecycle`, then `SimpleResultsCorrect`, `TlsIsolationCorrect`
    and `DestructorsBeforeDeleteCorrect` for any number of threads: which
    threads exist at which point of main, and that joins are made in order.
- `ProcessManagerProofs`: `EachChildWaitedForCorrect` (from
  `AllChildrenCompletedCorrect` and `CallsMatchChildrenCorrect`),
  `OutputCompleteCorrect` for any number of children. The wait loop counts
  calls, not children: the number of reaped children is the loop index or, with
  SIGCHLD ignored, no call returns before all have ended; the children left are
  then counted by subtraction. For the output: a line is in the file, or in the
  buffer of a process that will flush it, also by the `exit(1)` after a failed
  `fork`, or be killed.
- `PipeDemoProofs`: `ImplementsPipeline` and `ImplementsMessages` (the program
  runs both parts as their modules say), then
  - `CountsLsLinesCorrect` and `CleanReturnCorrect` for any number of lines, any
    pipe and any buffered output: the descriptor table of each process is a
    function of its program point, so a read end exists as long as somebody may
    read and end of file comes only after `ls`;
  - `NoCircularWaitCorrect`: with both children running, the pipe cannot be full
    for `ls` and empty for `wc`; with one gone, so are its ends, and the other
    gets an end of file or SIGPIPE. After a failed `fork` the parent may wait
    for either child, which the set `Awaited` says;
  - `HeardRightCorrect` and `CompleteWhenNothingFailsCorrect`: who holds which
    end, and which message is in which pipe, at each pair of points of parent
    and child. A parent without a child is killed before it can read.
- `EchoTcpProofs`: `EchoIntegrityCorrect`, `NoConnectionLeakCorrect`,
  `AnswerableCorrect` for any number of clients, lines, bytes and places in the
  queue. `Streams` says that what was received, what is on its way in both
  directions and what the server holds, put one after the other, are what was
  sent; it rests on the associativity of concatenation. Around it: whom the server serves, who waits
  in the queue, what a fresh connection looks like and what a reset destroys.
  For `Answerable` the lengths are added up: what a waiting client has not got
  back yet is in one of the two streams or in the server's hands, and it is not
  nothing, since the client has just sent a line that is not empty (`Owed`).
- `ShmDemoProofs`: `ImplementsBothParts`, then
  - `FinalCounterCorrect`, `NothingLeftCorrect` for any number of increments:
    loaded and stored values are bounded by the increments made; any store
    leaves at least 1, so the last store of a child that has stored before
    leaves at least 2; a child alone loses nothing;
  - `KeyedSegmentsRemovedCorrect`, `ChildReadsInitialCorrect` for any number of
    copies: who has the segment mapped at which point, that the key leads to the
    one segment that is not marked, and what a copy finds in a segment no other
    shares. That an unused identifier is left for the last copy is a counting
    argument on finite sets (`FreshId`). `SegmentsRemovedCorrect` puts this and
    `NothingLeftCorrect` together;
  - `ParentStaysInTime`, the safety half of `ParentReadsModified`: a segment that
    one copy has to itself holds what its child has written (`Wrote`), and no
    step takes a parent that began to read after its child was done out of
    `InTime` but one that gives the segment to another copy.
- `SignalDemoProofs`: `BlockedInterruptDeliveredCorrect`,
  `NoZombieMissedCorrect`, `AlarmGoesOffCorrect`, `SomethingToWaitForCorrect`,
  however often Ctrl+C is pressed: where the interrupt is between `sigpending`
  and the message that it was delivered; that the second child exists only under
  `sigchld_handler`; and that ticks and the rest of the alarm add up to no more
  than three seconds and the sleeps that were cut short. `Sender` follows
  SIGUSR1: a child that has passed `kill` has made it pending, it is not blocked
  in the demo that waits for it, and the handler that takes it from the pending
  set sets the flag; a handler that cuts `sleep` short only takes main back to
  the test of the flag.
- `MemoryDemoProofs`: `AllReleasedCorrect`, `KilledOnlyIfTruncatedCorrect`,
  `ChangesReachFileCorrect` for any number of copies and any length: what each
  copy has mapped at each point, and that the file is as long as at `fstat`
  unless another copy has truncated it since.
- `SequentialProofs`:
  - `ReportsTrueCorrect` (of file limit and nice value) and
    `CpuLimitAfterDemoCorrect` for every limit: what `limit`, the CPU limit, the
    nice value and `failed` are at the points before. The second is no promise
    of the program but says whom the finding of `resource_limits_reset` meets:
    by `ResetPermitted` infinity is above two seconds, so only a privileged
    process gets back what it gave up.
  - `DescriptorsRestoredCorrect`, `LinesKeptCorrect` for every text that fits
    the buffer: what each descriptor refers to at each point; and the printed
    lines as three parts, before, during and after the redirection, each of
    which is in one file or still in the buffer.

The proofs have one lemma or case per action and one step per part of the
invariant that the action can disturb. TLC checked every inductive invariant
before it was proved, on the instances of section 3 or smaller ones (threads:
N = 3, 36,984 states; keyed segment: 2 copies, 158,950; TCP: 3 clients with a
line of 2 bytes each, 52,028, and 2 clients with 2 such lines, 12,573; signals:
436,372; memory: 1,008,529; files: 85,208; pipeline: 289 and messages: 175).

Only model-checked: the liveness properties (`MainEnds` of both programs,
`AllEnd` of both, `NoWaitInVain`, `ParentReadsModified`,
`EndsUnlessChildInterrupted`), since fairness and `ENABLED` are out of the
prover's reach. Their safety halves are proved as said above, with two
exceptions: the message demos of `pipe_demo` have no constant, so the run covers
them completely, and in the counting part of `shm_demo` nobody waits but a
parent for children that wait for nothing.

## 6. Not modelled, and the plan

Left out of the modelled programs: texts, process ids, addresses and ports,
resource usage and limits that are only printed, thread attributes (set and
never read back), page protection (nothing is written after `mprotect`), what
`exit` and stdio do when called from a signal handler that interrupted stdio
itself; socket buffers that fill up (one short line at a time is under way);
processes killed from outside other than the children of `process_manager`, both
sides of the TCP programs, and an earlier run of `shm_demo`. The Makefile, the
figure generator, the chapters and the site have no behaviour to model.

Worth doing next: several clients of `EchoTcp` whose lines exceed the socket
buffers, where `send` on both sides would block and `Answerable` would have to
speak of room in a stream as well as of bytes in it; and the other deviations of
section 4 as runs of their own, where the repository says which behaviour it means.
