----------------------------- MODULE SignalDemo -----------------------------
(***************************************************************************)
(* examples/signal_demo.c: main, its two children and the user's Ctrl+C.   *)
(*                                                                         *)
(* A signal that is not blocked is delivered before the process takes its  *)
(* next step; a second one of a kind that is pending already is merged     *)
(* with it.  A handler that runs while its process sleeps or waits may cut *)
(* the call short, or may have run just before it.  sigaction, sigprocmask,*)
(* sigpending and fork may fail.  Loops that only print and sleep are one  *)
(* program point; time counts only in demonstrate_alarm.                   *)
(***************************************************************************)
EXTENDS Integers

CONSTANT MaxInterrupts  \* how often Ctrl+C is pressed at most

ASSUME InterruptsAssumption == MaxInterrupts \in Nat

Children == {"child1", "child2"}
Processes == {"main"} \cup Children
AlarmSeconds == 3
Ticks == 5
NotSet == -1

VARIABLES
  pc,           \* pc[p]: program point of each process
  handled,      \* signals with a handler; children inherit them
  pending,      \* pending[p]: signals sent to p and not delivered
  blocked,      \* blocked[p]: signals p has blocked
  count,        \* count[p]: sigint_count
  usr1,         \* sigusr1_received
  reaping,      \* main is in sigchld_handler
  pressed,      \* how often Ctrl+C was pressed
  atBlock,      \* count when SIGINT was blocked
  told,         \* "SIGINT is pending" was printed
  alarm,        \* seconds until SIGALRM, 0 when sent
  tick,         \* i of the loop in demonstrate_alarm
  cut           \* its sleeps that another signal cut short

sigVars == <<handled, pending, blocked, count, usr1, reaping>>
maskVars == <<atBlock, told>>
alarmVars == <<alarm, tick, cut>>
vars == <<pc, sigVars, pressed, maskVars, alarmVars>>

Init ==
  /\ pc = [p \in Processes |-> IF p = "main" THEN "basic:sigaction" ELSE "none"]
  /\ handled = {}
  /\ pending = [p \in Processes |-> {}] /\ blocked = [p \in Processes |-> {}]
  /\ count = [p \in Processes |-> 0]
  /\ usr1 = FALSE /\ reaping = FALSE /\ pressed = 0
  /\ atBlock = 0 /\ told = FALSE
  /\ alarm = NotSet /\ tick = 0 /\ cut = 0

Alive(p) == pc[p] \notin {"none", "zombie", "reaped", "ended"}
Deliverable(p) == pending[p] \ (blocked[p] \cup IF reaping THEN {"CHLD"} ELSE {})

\* The process ends.  A child stays a zombie, and raises SIGCHLD if that has a
\* handler; what main leaves behind goes to init, which reaps it.
Exit(p) ==
  IF p = "main"
    THEN /\ pc' = [q \in Processes |-> IF q = "main" THEN "ended"
                                       ELSE IF pc[q] = "zombie" THEN "reaped" ELSE pc[q]]
         /\ pending' = [pending EXCEPT !["main"] = {}]
    ELSE /\ pc' = [pc EXCEPT ![p] = IF Alive("main") THEN "zombie" ELSE "reaped"]
         /\ pending' = [pending EXCEPT ![p] = {}, !["main"] = @ \cup ({"CHLD"} \cap handled)]

-----------------------------------------------------------------------------
(* Signals                                                                 *)

\* The terminal sends SIGINT to every process of the foreground group.
CtrlC ==
  /\ pressed < MaxInterrupts /\ Alive("main")
  /\ pressed' = pressed + 1
  /\ pending' = [p \in Processes |-> pending[p] \cup IF Alive(p) THEN {"INT"} ELSE {}]
  /\ UNCHANGED <<pc, handled, blocked, count, usr1, reaping, maskVars, alarmVars>>

\* Where a process goes on whose sleep() or wait() has returned.
AfterCall == [usr1_sleep |-> "usr1:test", usr1_wait |-> "mask:block",
              alarm_sleep |-> "alarm:tick", sleep1 |-> "kill", sleep2 |-> "exit"]

\* The handler of s has returned; it may have cut short the call p was in.
Resume(p, s) ==
  \/ UNCHANGED <<pc, cut>>
  \/ /\ pc[p] \in DOMAIN AfterCall /\ ~reaping
     /\ pc' = [pc EXCEPT ![p] = AfterCall[pc[p]]]
     /\ cut' = IF pc[p] = "alarm_sleep" /\ s # "ALRM" THEN cut + 1 ELSE cut

\* The default action without a handler, otherwise sigint_handler.
HandleInt(p) ==
  /\ "INT" \in Deliverable(p) /\ Alive(p)
  /\ count' = IF "INT" \in handled THEN [count EXCEPT ![p] = @ + 1] ELSE count
  /\ IF "INT" \notin handled \/ count'[p] >= 3
       THEN Exit(p) /\ UNCHANGED cut
       ELSE pending' = [pending EXCEPT ![p] = @ \ {"INT"}] /\ Resume(p, "INT")
  /\ UNCHANGED <<handled, blocked, usr1, reaping, pressed, maskVars, alarm, tick>>

\* sigusr1_handler, sigchld_handler up to its loop and sigalrm_handler, in main.
Handle(s) ==
  /\ s \in Deliverable("main") /\ Alive("main")
  /\ pending' = [pending EXCEPT !["main"] = @ \ {s}]
  /\ usr1' = (usr1 \/ s = "USR1")
  /\ reaping' = (reaping \/ s = "CHLD")
  /\ Resume("main", s)
  /\ UNCHANGED <<handled, blocked, count, pressed, maskVars, alarm, tick>>

\* Mutant of ReapLoop: if instead of while.
ReapOnce ==
  /\ reaping /\ Alive("main")
  /\ reaping' = FALSE
  /\ \/ \E c \in Children : pc[c] = "zombie" /\ pc' = [pc EXCEPT ![c] = "reaped"]
     \/ (\A c \in Children : pc[c] # "zombie") /\ UNCHANGED pc
  /\ UNCHANGED <<handled, pending, blocked, count, usr1, pressed, maskVars, alarmVars>>

\* while (waitpid(-1, NULL, WNOHANG) > 0); the handler then returns.
ReapLoop ==
  /\ reaping /\ Alive("main")
  /\ \/ /\ \E c \in Children : pc[c] = "zombie" /\ pc' = [pc EXCEPT ![c] = "reaped"]
        /\ UNCHANGED reaping
     \/ (\A c \in Children : pc[c] # "zombie") /\ reaping' = FALSE /\ UNCHANGED pc
  /\ UNCHANGED <<handled, pending, blocked, count, usr1, pressed, maskVars, alarmVars>>

\* Time passes until SIGALRM, whatever main is doing.
AlarmClock ==
  /\ alarm > 0 /\ Alive("main")
  /\ alarm' = alarm - 1
  /\ pending' = [pending EXCEPT !["main"] = @ \cup IF alarm = 1 THEN {"ALRM"} ELSE {}]
  /\ UNCHANGED <<pc, handled, blocked, count, usr1, reaping, pressed, maskVars, tick, cut>>

Delivery == (\E p \in Processes : HandleInt(p)) \/ (\E s \in {"USR1", "CHLD", "ALRM"} : Handle(s)) \/ ReapLoop

-----------------------------------------------------------------------------
(* The program                                                             *)

\* p is at the point at and no handler has to run first.
At(p, at) == pc[p] = at /\ Deliverable(p) = {} /\ (p = "main" => ~reaping)
Goto(p, next) == pc' = [pc EXCEPT ![p] = next]

Step(p, at, next) ==
  At(p, at) /\ Goto(p, next) /\ UNCHANGED <<sigVars, pressed, maskVars, alarmVars>>

SigAction(at, s, next, onFailure) ==
  /\ At("main", at)
  /\ \/ handled' = handled \cup {s} /\ Goto("main", next)
     \/ Goto("main", onFailure) /\ UNCHANGED handled
  /\ UNCHANGED <<pending, blocked, count, usr1, reaping, pressed, maskVars, alarmVars>>

\* The child starts with main's handlers, mask and count, and nothing pending.
Fork(at, c, first, next, onFailure) ==
  /\ At("main", at)
  /\ \/ /\ pc' = [pc EXCEPT !["main"] = next, ![c] = first]
        /\ count' = [count EXCEPT ![c] = count["main"]]
        /\ blocked' = [blocked EXCEPT ![c] = blocked["main"]]
     \/ Goto("main", onFailure) /\ UNCHANGED <<count, blocked>>
  /\ UNCHANGED <<handled, pending, usr1, reaping, pressed, maskVars, alarmVars>>

BasicSignal ==
  \/ SigAction("basic:sigaction", "INT", "basic:loop", "reset")
  \/ Step("main", "basic:loop", "reset")

\* main: sigint_count = 0.
ResetCount ==
  /\ At("main", "reset") /\ Goto("main", "usr1:sigaction")
  /\ count' = [count EXCEPT !["main"] = 0]
  /\ UNCHANGED <<handled, pending, blocked, usr1, reaping, pressed, maskVars, alarmVars>>

\* wait(NULL) has a child to reap.
Wait ==
  /\ At("main", "usr1_wait") /\ pc["child1"] = "zombie"
  /\ pc' = [pc EXCEPT !["main"] = "mask:block", !["child1"] = "reaped"]
  /\ UNCHANGED <<sigVars, pressed, maskVars, alarmVars>>

BetweenProcesses ==
  \/ SigAction("usr1:sigaction", "USR1", "usr1:fork", "mask:block")
  \/ Fork("usr1:fork", "child1", "sleep1", "usr1:test", "mask:block")
  \/ ~usr1 /\ Step("main", "usr1:test", "usr1_sleep")
  \/ Step("main", "usr1_sleep", "usr1:test")
  \/ usr1 /\ Step("main", "usr1:test", "usr1_wait")
  \/ Wait

Block ==
  /\ At("main", "mask:block")
  /\ \/ /\ blocked' = [blocked EXCEPT !["main"] = @ \cup {"INT"}]
        /\ atBlock' = count["main"] /\ Goto("main", "mask:pending")
     \/ Goto("main", "chld:sigaction") /\ UNCHANGED <<blocked, atBlock>>
  /\ UNCHANGED <<handled, pending, count, usr1, reaping, pressed, told, alarmVars>>

\* After the sleeps: sigpending, whose failure returns with SIGINT blocked.
Pending ==
  /\ At("main", "mask:pending")
  /\ \/ told' = ("INT" \in pending["main"]) /\ Goto("main", "mask:restore")
     \/ Goto("main", "chld:sigaction") /\ UNCHANGED told
  /\ UNCHANGED <<sigVars, pressed, atBlock, alarmVars>>

\* Mutant of Restore: SIG_BLOCK instead of SIG_SETMASK.
RestoreByBlock ==
  /\ At("main", "mask:restore") /\ Goto("main", "mask:unblocked")
  /\ UNCHANGED <<sigVars, pressed, maskVars, alarmVars>>

\* sigprocmask(SIG_SETMASK, &old_mask): nothing was blocked before.
Restore ==
  /\ At("main", "mask:restore")
  /\ \/ blocked' = [blocked EXCEPT !["main"] = {}] /\ Goto("main", "mask:unblocked")
     \/ Goto("main", "chld:sigaction") /\ UNCHANGED blocked
  /\ UNCHANGED <<handled, pending, count, usr1, reaping, pressed, maskVars, alarmVars>>

SignalMasking ==
  \/ Block \/ Pending \/ Restore
  \/ Step("main", "mask:unblocked", "mask:delivered")
  \/ Step("main", "mask:delivered", "chld:sigaction")

\* fork() is not checked: main goes on without a child.
Sigchld ==
  \/ SigAction("chld:sigaction", "CHLD", "chld:fork", "alarm:sigaction")
  \/ Fork("chld:fork", "child2", "sleep2", "chld:work", "chld:work")
  \/ Step("main", "chld:work", "alarm:sigaction")

SetAlarm ==
  /\ At("main", "alarm:set") /\ Goto("main", "alarm_sleep")
  /\ alarm' = AlarmSeconds
  /\ UNCHANGED <<sigVars, pressed, maskVars, tick, cut>>

\* A whole second of sleep.
AlarmSleep ==
  /\ At("main", "alarm_sleep") /\ Goto("main", "alarm:tick")
  /\ alarm' = IF alarm > 0 THEN alarm - 1 ELSE alarm
  /\ pending' = [pending EXCEPT !["main"] = @ \cup IF alarm = 1 THEN {"ALRM"} ELSE {}]
  /\ UNCHANGED <<handled, blocked, count, usr1, reaping, pressed, maskVars, tick, cut>>

\* Mutant of AlarmTick: one iteration too few.
AlarmTickEarly ==
  /\ At("main", "alarm:tick") /\ tick' = tick + 1
  /\ Goto("main", IF tick' < Ticks - 1 THEN "alarm_sleep" ELSE "complete")
  /\ UNCHANGED <<sigVars, pressed, maskVars, alarm, cut>>

AlarmTick ==
  /\ At("main", "alarm:tick") /\ tick' = tick + 1
  /\ Goto("main", IF tick' < Ticks THEN "alarm_sleep" ELSE "complete")
  /\ UNCHANGED <<sigVars, pressed, maskVars, alarm, cut>>

Alarm ==
  \/ SigAction("alarm:sigaction", "ALRM", "alarm:set", "complete")
  \/ SetAlarm \/ AlarmSleep \/ AlarmTick

\* The end of main, and of a child.
Return(p, at) ==
  At(p, at) /\ Exit(p)
  /\ UNCHANGED <<handled, blocked, count, usr1, reaping, pressed, maskVars, alarmVars>>

Main ==
  \/ BasicSignal \/ ResetCount \/ BetweenProcesses \/ SignalMasking \/ Sigchld
  \/ Alarm \/ Return("main", "complete")

\* Mutant of Kill: the child's parent is asked for too late, it gets no signal.
KillNobody == Step("child1", "kill", "exit")

\* kill(getppid(), SIGUSR1): without effect once main has ended.
Kill ==
  /\ At("child1", "kill") /\ Goto("child1", "exit")
  /\ pending' = [pending EXCEPT !["main"] = @ \cup IF Alive("main") THEN {"USR1"} ELSE {}]
  /\ UNCHANGED <<handled, blocked, count, usr1, reaping, pressed, maskVars, alarmVars>>

Child1 == Step("child1", "sleep1", "kill") \/ Kill \/ Return("child1", "exit")
Child2 == Step("child2", "sleep2", "exit") \/ Return("child2", "exit")

Terminated == (\A p \in Processes : ~Alive(p)) /\ UNCHANGED vars

Next == CtrlC \/ Delivery \/ AlarmClock \/ Main \/ Child1 \/ Child2 \/ Terminated

\* The scheduler runs every process and delivers signals; nobody has to press
\* Ctrl+C.
Fairness == WF_vars(Main) /\ WF_vars(Delivery) /\ WF_vars(Child1) /\ WF_vars(Child2)

Spec == Init /\ [][Next]_vars
FairSpec == Spec /\ Fairness

-----------------------------------------------------------------------------
(* Properties                                                              *)

\* No handler runs while SIGINT is blocked, and a SIGINT that sigpending()
\* reported has reached sigint_handler before demonstrate_signal_masking
\* prints "signal delivered if it was pending".
BlockedInterruptDelivered ==
  /\ pc["main"] \in {"mask:pending", "mask:restore"} => count["main"] = atBlock
  /\ pc["main"] = "mask:delivered" /\ told => count["main"] > atBlock

\* sigchld_handler misses no child although SIGCHLDs are merged: once it has
\* returned and none is pending, the child of demonstrate_sigchld is no zombie,
\* and when it was reaped so was the zombie that an interrupted wait() had left.
NoZombieMissed ==
  Alive("main") /\ ~reaping /\ "CHLD" \notin pending["main"] =>
    /\ pc["child2"] # "zombie"
    /\ pc["child2"] = "reaped" => pc["child1"] # "zombie"

\* The alarm of 3 seconds goes off within the five sleeps, unless other signals
\* cut at least three of them short.
AlarmGoesOff == pc["main"] = "complete" => alarm \in {NotSet, 0} \/ cut >= Ticks - AlarmSeconds + 1

\* Ctrl+C has ended the child before it could send SIGUSR1.
ChildInterrupted ==
  /\ pc["child1"] = "zombie" /\ (count["child1"] >= 3 \/ "INT" \notin handled)
  /\ ~usr1 /\ "USR1" \notin pending["main"]

\* main never waits for what cannot come: in the loop on sigusr1_received the
\* flag is set, SIGUSR1 is about to be delivered or the child is about to send
\* it, unless Ctrl+C ended the child first; and at wait() there is a child.
SomethingToWaitFor ==
  /\ pc["main"] \in {"usr1:test", "usr1_sleep"}
       => \/ usr1 \/ "USR1" \in Deliverable("main")
          \/ pc["child1"] \in {"sleep1", "kill"} \/ ChildInterrupted
  /\ pc["main"] = "usr1_wait" => pc["child1"] \in {"exit", "zombie"}

\* The program ends: no signal the loop on sigusr1_received or wait() waits for
\* is lost, whenever it arrives, unless Ctrl+C ended the child that sends it.
EndsUnlessChildInterrupted == <>(pc["main"] = "ended" \/ ChildInterrupted)

=============================================================================
