-------------------------- MODULE SignalDemoProofs --------------------------
(***************************************************************************)
(* What signal_demo.c promises, however often Ctrl+C is pressed.           *)
(*                                                                         *)
(* SInv, the inductive invariant, adds to each property what must hold on  *)
(* the way to it: where the interrupt is between sigpending() and the      *)
(* message that it was delivered, that a child which has ended is known to *)
(* sigchld_handler, and how many of the seconds slept have counted for the *)
(* alarm.  Sender, carried beside it, follows SIGUSR1 from the child that  *)
(* is to send it to the flag the loop of the parent waits for.             *)
(***************************************************************************)
EXTENDS SignalDemo, TLAPS

\* The program points of main and of its children, and the signals.
MainPoints ==
  {"basic:sigaction", "basic:loop", "reset", "usr1:sigaction", "usr1:fork",
   "usr1:test", "usr1_sleep", "usr1_wait", "mask:block", "mask:pending",
   "mask:restore", "mask:unblocked", "mask:delivered", "chld:sigaction",
   "chld:fork", "chld:work", "alarm:sigaction", "alarm:set", "alarm_sleep",
   "alarm:tick", "complete", "ended"}
ChildPoints == {"none", "sleep1", "kill", "sleep2", "exit", "zombie", "reaped"}
Signals == {"INT", "USR1", "CHLD", "ALRM"}

\* Where the processes may be, and the types of the rest.
Types ==
  /\ pc = [p \in Processes |-> pc[p]]
  /\ pc["main"] \in MainPoints /\ \A c \in Children : pc[c] \in ChildPoints
  /\ handled \in SUBSET Signals
  /\ pending \in [Processes -> SUBSET Signals]
  /\ blocked \in [Processes -> SUBSET Signals]
  /\ count \in [Processes -> Nat]
  /\ usr1 \in BOOLEAN /\ reaping \in BOOLEAN /\ told \in BOOLEAN
  /\ atBlock \in Nat
  /\ alarm \in -1..AlarmSeconds /\ tick \in Nat /\ cut \in Nat

\* SIGINT waits while it is blocked and is not forgotten when it is not.
Masked ==
  /\ pc["main"] \in {"mask:pending", "mask:restore"}
       => "INT" \in blocked["main"] /\ count["main"] = atBlock
  /\ pc["main"] = "mask:restore" /\ told => "INT" \in pending["main"]
  /\ pc["main"] = "mask:unblocked"
       => /\ "INT" \notin blocked["main"] /\ count["main"] >= atBlock
          /\ told => "INT" \in pending["main"] \/ count["main"] > atBlock
  /\ pc["main"] = "mask:delivered" /\ told => count["main"] > atBlock

\* The second child exists only under sigchld_handler, which learns of the end
\* of a child or is reaping.
Zombies ==
  /\ pc["main"] = "chld:fork" => "CHLD" \in handled
  /\ pc["child2"] # "none" => "CHLD" \in handled
  /\ NoZombieMissed

\* Every sleep of the loop was cut short or brought the alarm a second nearer.
Alarmed ==
  /\ pc["main"] \notin {"alarm_sleep", "alarm:tick", "complete", "ended"}
       => alarm = NotSet /\ tick = 0 /\ cut = 0
  /\ "ALRM" \in pending["main"] => alarm = 0
  /\ pc["main"] = "alarm_sleep" /\ alarm > 0 => tick + alarm <= AlarmSeconds + cut
  /\ pc["main"] = "alarm:tick" /\ alarm > 0 => tick + 1 + alarm <= AlarmSeconds + cut
  /\ pc["main"] = "alarm_sleep" => tick < Ticks
  /\ pc["main"] = "alarm:tick" => tick < Ticks
  /\ pc["main"] = "complete" /\ alarm > 0 => Ticks + alarm <= AlarmSeconds + cut

\* The inductive invariant.
SInv == Types /\ Masked /\ Zombies /\ Alarmed

-----------------------------------------------------------------------------

\* The child stays where it is, or is alive before and after.
KeepsKind(c) ==
  pc'[c] = pc[c] \/ {pc[c], pc'[c]} \cap {"none", "zombie", "reaped"} = {}

USE DEF sigVars, maskVars, alarmVars, NotSet, AlarmSeconds, Ticks, KeepsKind

\* Only the program point of main changes, and to none where more must hold.
LEMMA MainMoves ==
  ASSUME SInv, NEW at, NEW next \in MainPoints, At("main", at), at # "ended",
         Goto("main", next), handled' \in SUBSET Signals, handled \subseteq handled',
         UNCHANGED <<pending, blocked, count, usr1, reaping, maskVars, alarmVars>>,
         next \notin {"mask:pending", "mask:restore", "mask:unblocked", "mask:delivered",
                      "alarm_sleep", "alarm:tick", "ended"},
         next = "chld:fork" => "CHLD" \in handled',
         next = "complete" => at = "alarm:sigaction",
         at \notin {"alarm_sleep", "alarm:tick", "complete"}
  PROVE  SInv'
  <1>1. pc["main"] = at /\ pc'["main"] = next /\ \A c \in Children : pc'[c] = pc[c]
    BY DEF SInv, Types, Processes, Children, At, Goto
  <1>2. Types' BY <1>1 DEF SInv, Types, Processes, Goto
  <1>3. Masked' BY <1>1 DEF Masked
  <1>4. Zombies'
    <2>1. Alive("main") BY <1>1 DEF SInv, Types, Alive, MainPoints
    <2>2. NoZombieMissed' BY <1>1, <2>1 DEF SInv, Zombies, NoZombieMissed, Children
    <2> QED BY <1>1, <2>2 DEF SInv, Zombies, Children
  <1>5. Alarmed' BY <1>1 DEF SInv, Alarmed
  <1> QED BY <1>2, <1>3, <1>4, <1>5 DEF SInv

\* demonstrate_basic_signal and the reset in main.
LEMMA BasicStep == ASSUME SInv, BasicSignal \/ ResetCount PROVE SInv'
  <1>1. CASE BasicSignal
    <2>1. PICK at \in {"basic:sigaction", "basic:loop"}, next \in {"basic:loop", "reset"} :
            At("main", at) /\ Goto("main", next)
      BY <1>1 DEF BasicSignal, SigAction, Step
    <2>2. handled' \in SUBSET Signals /\ handled \subseteq handled'
      BY <1>1 DEF BasicSignal, SigAction, Step, SInv, Types, Signals
    <2>3. UNCHANGED <<pending, blocked, count, usr1, reaping, maskVars, alarmVars>>
      BY <1>1 DEF BasicSignal, SigAction, Step
    <2> QED BY <2>1, <2>2, <2>3, MainMoves DEF MainPoints
  <1>2. CASE ResetCount
    <2>1. /\ pc["main"] = "reset" /\ pc'["main"] = "usr1:sigaction"
          /\ \A c \in Children : pc'[c] = pc[c]
      BY <1>2 DEF ResetCount, At, Goto, SInv, Types, Processes, Children
    <2>2. Types' BY <1>2, <2>1 DEF ResetCount, Goto, SInv, Types, Processes, MainPoints
    <2>3. Masked' BY <2>1 DEF Masked
    <2>4. Alive("main") BY <2>1 DEF Alive
    <2>5. Zombies'
      BY <1>2, <2>1, <2>4 DEF ResetCount, SInv, Zombies, NoZombieMissed, Children
    <2>6. Alarmed' BY <1>2, <2>1 DEF ResetCount, SInv, Alarmed
    <2> QED BY <2>2, <2>3, <2>5, <2>6 DEF SInv
  <1> QED BY <1>1, <1>2

\* fork(): the new child is no zombie, and main goes on.
LEMMA ForkStep ==
  ASSUME SInv, NEW c \in Children, NEW first \in {"sleep1", "sleep2"},
         NEW at \in {"usr1:fork", "chld:fork"}, NEW next \in {"usr1:test", "chld:work"},
         NEW onFailure \in {"mask:block", "chld:work"},
         Fork(at, c, first, next, onFailure), c = "child2" => at = "chld:fork"
  PROVE  SInv'
  <1>1. CASE /\ pc' = [pc EXCEPT !["main"] = next, ![c] = first]
             /\ count' = [count EXCEPT ![c] = count["main"]]
             /\ blocked' = [blocked EXCEPT ![c] = blocked["main"]]
    <2>1. /\ pc["main"] = at /\ pc'["main"] = next /\ pc'[c] = first
          /\ \A d \in Children \ {c} : pc'[d] = pc[d]
      BY <1>1 DEF Fork, At, SInv, Types, Processes, Children
    <2>2. UNCHANGED <<handled, pending, usr1, reaping, pressed, maskVars, alarmVars>>
      BY DEF Fork
    <2>3. Types'
      BY <1>1, <2>1, <2>2 DEF SInv, Types, Processes, Children, MainPoints, ChildPoints
    <2>4. Masked' BY <2>1 DEF Masked
    <2>5. Alive("main") BY <2>1 DEF Alive
    <2>6. Zombies'
      BY <2>1, <2>2, <2>5 DEF SInv, Zombies, NoZombieMissed, Children
    <2>7. Alarmed' BY <2>1, <2>2 DEF SInv, Alarmed
    <2> QED BY <2>3, <2>4, <2>6, <2>7 DEF SInv
  <1>2. CASE Goto("main", onFailure) /\ UNCHANGED <<count, blocked>>
    <2>1. /\ At("main", at)
          /\ UNCHANGED <<handled, pending, usr1, reaping, maskVars, alarmVars>>
      BY DEF Fork
    <2>2. handled' \in SUBSET Signals BY <2>1 DEF SInv, Types
    <2> QED BY <1>2, <2>1, <2>2, MainMoves DEF MainPoints
  <1> QED BY <1>1, <1>2 DEF Fork

\* demonstrate_signals_between_processes.
LEMMA BetweenStep == ASSUME SInv, BetweenProcesses PROVE SInv'
  <1>1. CASE \/ SigAction("usr1:sigaction", "USR1", "usr1:fork", "mask:block")
             \/ Step("main", "usr1:test", "usr1_sleep")
             \/ Step("main", "usr1_sleep", "usr1:test")
             \/ Step("main", "usr1:test", "usr1_wait")
    <2>1. PICK at \in {"usr1:sigaction", "usr1:test", "usr1_sleep"},
               next \in {"usr1:fork", "mask:block", "usr1:test", "usr1_sleep", "usr1_wait"} :
            At("main", at) /\ Goto("main", next)
      BY <1>1 DEF SigAction, Step
    <2>2. handled' \in SUBSET Signals /\ handled \subseteq handled'
      BY <1>1 DEF SigAction, Step, SInv, Types, Signals
    <2>3. UNCHANGED <<pending, blocked, count, usr1, reaping, maskVars, alarmVars>>
      BY <1>1 DEF SigAction, Step
    <2> QED BY <2>1, <2>2, <2>3, MainMoves DEF MainPoints
  <1>2. CASE Fork("usr1:fork", "child1", "sleep1", "usr1:test", "mask:block")
    BY <1>2, ForkStep DEF Children
  <1>3. CASE Wait
    <2>1. /\ pc["main"] = "usr1_wait" /\ pc'["main"] = "mask:block"
          /\ pc'["child1"] = "reaped" /\ pc'["child2"] = pc["child2"]
      BY <1>3 DEF Wait, At, SInv, Types, Processes, Children
    <2>2. UNCHANGED <<sigVars, pressed, maskVars, alarmVars>> BY <1>3 DEF Wait
    <2>3. Types'
      BY <1>3, <2>1, <2>2 DEF Wait, SInv, Types, Processes, Children, MainPoints, ChildPoints
    <2>4. Masked' BY <2>1 DEF Masked
    <2>5. Alive("main") BY <2>1 DEF Alive
    <2>6. Zombies' BY <2>1, <2>2, <2>5 DEF SInv, Zombies, NoZombieMissed
    <2>7. Alarmed' BY <2>1, <2>2 DEF SInv, Alarmed
    <2> QED BY <2>3, <2>4, <2>6, <2>7 DEF SInv
  <1> QED BY <1>1, <1>2, <1>3 DEF BetweenProcesses

\* demonstrate_signal_masking: block, look, unblock, deliver.
LEMMA MaskingStep == ASSUME SInv, SignalMasking PROVE SInv'
  <1>1. CASE At("main", "mask:block") /\ Block /\ Goto("main", "mask:pending")
    <2>0. /\ blocked' = [blocked EXCEPT !["main"] = @ \cup {"INT"}]
          /\ atBlock' = count["main"]
          /\ UNCHANGED <<handled, pending, count, usr1, reaping, pressed, told, alarmVars>>
      <3>1. "mask:pending" # "chld:sigaction" OBVIOUS
      <3>2. pc'["main"] = "mask:pending"
        BY <1>1 DEF Goto, SInv, Types, Processes
      <3>3. ~Goto("main", "chld:sigaction")
        BY <3>2 DEF Goto, SInv, Types, Processes
      <3> QED BY <1>1, <3>3 DEF Block
    <2>1. /\ pc["main"] = "mask:block" /\ pc'["main"] = "mask:pending"
          /\ \A c \in Children : pc'[c] = pc[c]
      BY <1>1 DEF At, Goto, SInv, Types, Processes, Children
    <2>2. Types' BY <1>1, <2>0, <2>1 DEF Goto, SInv, Types, Processes, MainPoints, Signals
    <2>3. Masked' BY <2>0, <2>1 DEF Masked, SInv, Types, Processes
    <2>4. Zombies' BY <2>0, <2>1 DEF SInv, Zombies, NoZombieMissed, Children, Alive
    <2>5. Alarmed' BY <2>0, <2>1 DEF SInv, Alarmed
    <2> QED BY <2>2, <2>3, <2>4, <2>5 DEF SInv
  <1>2. CASE At("main", "mask:pending") /\ Pending /\ Goto("main", "mask:restore")
    <2>0. /\ told' = ("INT" \in pending["main"])
          /\ UNCHANGED <<sigVars, pressed, atBlock, alarmVars>>
      <3>2. pc'["main"] = "mask:restore"
        BY <1>2 DEF Goto, SInv, Types, Processes
      <3>3. ~Goto("main", "chld:sigaction")
        BY <3>2 DEF Goto, SInv, Types, Processes
      <3> QED BY <1>2, <3>3 DEF Pending
    <2>1. /\ pc["main"] = "mask:pending" /\ pc'["main"] = "mask:restore"
          /\ \A c \in Children : pc'[c] = pc[c]
      BY <1>2 DEF At, Goto, SInv, Types, Processes, Children
    <2>2. Types'
      <3>1. pc' = [p \in Processes |-> pc'[p]] BY <1>2 DEF Goto, SInv, Types
      <3>2. told' \in BOOLEAN
        <4>1. told' = TRUE \/ told' = FALSE BY <2>0
        <4> QED BY <4>1
      <3>3. pc'["main"] \in MainPoints /\ \A c \in Children : pc'[c] \in ChildPoints
        BY <2>1 DEF SInv, Types, MainPoints
      <3>4. UNCHANGED <<handled, pending, blocked, count, usr1, reaping, atBlock, alarm, tick,
                        cut>>
        BY <2>0
      <3> HIDE DEF sigVars, maskVars, alarmVars, NotSet, AlarmSeconds, Ticks
      <3> QED BY <3>1, <3>2, <3>3, <3>4, Zenon DEF SInv, Types
    <2>3. Masked' BY <2>0, <2>1 DEF Masked, SInv
    <2>4. Zombies' BY <2>0, <2>1 DEF SInv, Zombies, NoZombieMissed, Children, Alive
    <2>5. Alarmed' BY <2>0, <2>1 DEF SInv, Alarmed
    <2> QED BY <2>2, <2>3, <2>4, <2>5 DEF SInv
  <1>3. CASE At("main", "mask:restore") /\ Restore /\ Goto("main", "mask:unblocked")
    <2>0. /\ blocked' = [blocked EXCEPT !["main"] = {}]
          /\ UNCHANGED <<handled, pending, count, usr1, reaping, pressed, maskVars, alarmVars>>
      <3>2. pc'["main"] = "mask:unblocked"
        BY <1>3 DEF Goto, SInv, Types, Processes
      <3>3. ~Goto("main", "chld:sigaction")
        BY <3>2 DEF Goto, SInv, Types, Processes
      <3> QED BY <1>3, <3>3 DEF Restore
    <2>1. /\ pc["main"] = "mask:restore" /\ pc'["main"] = "mask:unblocked"
          /\ \A c \in Children : pc'[c] = pc[c]
      BY <1>3 DEF At, Goto, SInv, Types, Processes, Children
    <2>2. Types' BY <1>3, <2>0, <2>1 DEF Goto, SInv, Types, Processes, MainPoints
    <2>3. Masked' BY <2>0, <2>1 DEF Masked, SInv, Types, Processes
    <2>4. Zombies' BY <2>0, <2>1 DEF SInv, Zombies, NoZombieMissed, Children, Alive
    <2>5. Alarmed' BY <2>0, <2>1 DEF SInv, Alarmed
    <2> QED BY <2>2, <2>3, <2>4, <2>5 DEF SInv
  <1>4. CASE Step("main", "mask:unblocked", "mask:delivered")
    <2>1. /\ pc["main"] = "mask:unblocked" /\ pc'["main"] = "mask:delivered"
          /\ \A c \in Children : pc'[c] = pc[c]
          /\ UNCHANGED <<sigVars, pressed, maskVars, alarmVars>>
      BY <1>4 DEF Step, At, Goto, SInv, Types, Processes, Children
    <2>2. Types' BY <1>4, <2>1 DEF Step, Goto, SInv, Types, Processes, MainPoints
    <2>3. "INT" \notin pending["main"]
      BY <1>4, <2>1 DEF Step, At, Deliverable, SInv, Masked
    <2>4. Masked' BY <2>1, <2>3 DEF Masked, SInv
    <2>5. Zombies' BY <2>1 DEF SInv, Zombies, NoZombieMissed, Children, Alive
    <2>6. Alarmed' BY <2>1 DEF SInv, Alarmed
    <2> QED BY <2>2, <2>4, <2>5, <2>6 DEF SInv
  <1>5. CASE /\ \/ Block \/ Pending \/ Restore
                \/ Step("main", "mask:delivered", "chld:sigaction")
             /\ Goto("main", "chld:sigaction")
             /\ UNCHANGED <<blocked, maskVars>>
    <2>1. PICK at \in {"mask:block", "mask:pending", "mask:restore", "mask:delivered"} :
            At("main", at)
      BY <1>5 DEF Block, Pending, Restore, Step
    <2>2. UNCHANGED <<handled, pending, blocked, count, usr1, reaping, maskVars, alarmVars>>
      BY <1>5 DEF Block, Pending, Restore, Step
    <2>3. handled' \in SUBSET Signals BY <2>2 DEF SInv, Types
    <2> QED BY <1>5, <2>1, <2>2, <2>3, MainMoves DEF MainPoints
  <1> QED BY <1>1, <1>2, <1>3, <1>4, <1>5
          DEF SignalMasking, Block, Pending, Restore, Step

\* demonstrate_sigchld.
LEMMA SigchldStep == ASSUME SInv, Sigchld PROVE SInv'
  <1>1. CASE SigAction("chld:sigaction", "CHLD", "chld:fork", "alarm:sigaction")
    <2>1. PICK next \in {"chld:fork", "alarm:sigaction"} :
            /\ At("main", "chld:sigaction") /\ Goto("main", next)
            /\ next = "chld:fork" => "CHLD" \in handled'
      BY <1>1 DEF SigAction
    <2>2. handled' \in SUBSET Signals /\ handled \subseteq handled'
      BY <1>1 DEF SigAction, SInv, Types, Signals
    <2>3. UNCHANGED <<pending, blocked, count, usr1, reaping, maskVars, alarmVars>>
      BY <1>1 DEF SigAction
    <2> QED BY <2>1, <2>2, <2>3, MainMoves DEF MainPoints
  <1>2. CASE Fork("chld:fork", "child2", "sleep2", "chld:work", "chld:work")
    BY <1>2, ForkStep DEF Children
  <1>3. CASE Step("main", "chld:work", "alarm:sigaction")
    <2>1. handled' \in SUBSET Signals BY <1>3 DEF Step, SInv, Types
    <2> QED BY <1>3, <2>1, MainMoves DEF MainPoints, Step
  <1> QED BY <1>1, <1>2, <1>3 DEF Sigchld

\* demonstrate_alarm: a whole sleep takes a second from the alarm, or more
\* when main was late.
LEMMA AlarmStep == ASSUME SInv, Alarm PROVE SInv'
  <1>1. CASE SigAction("alarm:sigaction", "ALRM", "alarm:set", "complete")
    <2>1. PICK next \in {"alarm:set", "complete"} :
            At("main", "alarm:sigaction") /\ Goto("main", next)
      BY <1>1 DEF SigAction
    <2>2. handled' \in SUBSET Signals /\ handled \subseteq handled'
      BY <1>1 DEF SigAction, SInv, Types, Signals
    <2>3. UNCHANGED <<pending, blocked, count, usr1, reaping, maskVars, alarmVars>>
      BY <1>1 DEF SigAction
    <2> QED BY <2>1, <2>2, <2>3, MainMoves DEF MainPoints
  <1>2. CASE SetAlarm
    <2>1. /\ pc["main"] = "alarm:set" /\ pc'["main"] = "alarm_sleep" /\ alarm' = 3
          /\ \A c \in Children : pc'[c] = pc[c]
          /\ UNCHANGED <<sigVars, pressed, maskVars, tick, cut>>
      BY <1>2 DEF SetAlarm, At, Goto, SInv, Types, Processes, Children
    <2>2. Types'
      <3>1. pc' = [p \in Processes |-> pc'[p]] BY <1>2 DEF SetAlarm, Goto, SInv, Types
      <3>2. alarm' \in -1..AlarmSeconds BY <2>1
      <3>3. pc'["main"] \in MainPoints /\ \A c \in Children : pc'[c] \in ChildPoints
        BY <2>1 DEF SInv, Types, MainPoints
      <3>4. UNCHANGED <<handled, pending, blocked, count, usr1, reaping, atBlock, told, tick,
                        cut>>
        BY <2>1
      <3> HIDE DEF sigVars, maskVars, alarmVars, NotSet, AlarmSeconds, Ticks
      <3> QED BY <3>1, <3>2, <3>3, <3>4, Zenon DEF SInv, Types
    <2>3. Masked' BY <2>1 DEF Masked
    <2>4. Zombies' BY <2>1 DEF SInv, Zombies, NoZombieMissed, Children, Alive
    <2>5. Alarmed' BY <2>1 DEF SInv, Alarmed
    <2> QED BY <2>2, <2>3, <2>4, <2>5 DEF SInv
  <1>3. CASE AlarmSleep
    <2>1. /\ pc["main"] = "alarm_sleep" /\ pc'["main"] = "alarm:tick"
          /\ \A c \in Children : pc'[c] = pc[c]
          /\ alarm' = IF alarm > 0 THEN alarm - 1 ELSE alarm
          /\ pending' = [pending EXCEPT !["main"] = @ \cup IF alarm = 1 THEN {"ALRM"} ELSE {}]
          /\ UNCHANGED <<handled, blocked, count, usr1, reaping, maskVars, tick, cut>>
      BY <1>3 DEF AlarmSleep, At, Goto, SInv, Types, Processes, Children
    <2>2. /\ "ALRM" \in pending'["main"] => "ALRM" \in pending["main"] \/ alarm = 1
          /\ "CHLD" \in pending'["main"] <=> "CHLD" \in pending["main"]
          /\ pending' \in [Processes -> SUBSET Signals]
      BY <2>1 DEF SInv, Types, Processes, Signals
    <2>3. alarm' \in -1..3 BY <2>1 DEF SInv, Types
    <2>4. Types'
      BY <1>3, <2>1, <2>2, <2>3 DEF AlarmSleep, Goto, SInv, Types, Processes, MainPoints
    <2>5. Masked' BY <2>1 DEF Masked
    <2>6. Zombies' BY <2>1, <2>2 DEF SInv, Zombies, NoZombieMissed, Children, Alive
    <2>7. Alarmed' BY <2>1, <2>2 DEF SInv, Types, Alarmed
    <2> QED BY <2>4, <2>5, <2>6, <2>7 DEF SInv
  <1>4. CASE AlarmTick
    <2>1. /\ pc["main"] = "alarm:tick" /\ tick' = tick + 1
          /\ pc'["main"] = IF tick' < 5 THEN "alarm_sleep" ELSE "complete"
          /\ \A c \in Children : pc'[c] = pc[c]
          /\ UNCHANGED <<sigVars, pressed, maskVars, alarm, cut>>
      BY <1>4 DEF AlarmTick, At, Goto, SInv, Types, Processes, Children
    <2>2. Types'
      <3>1. pc' = [p \in Processes |-> pc'[p]] BY <1>4 DEF AlarmTick, Goto, SInv, Types
      <3>2. tick' \in Nat BY <2>1 DEF SInv, Types
      <3>3. pc'["main"] \in MainPoints /\ \A c \in Children : pc'[c] \in ChildPoints
        BY <2>1 DEF SInv, Types, MainPoints
      <3>4. UNCHANGED <<handled, pending, blocked, count, usr1, reaping, atBlock, told, alarm,
                        cut>>
        BY <2>1
      <3> HIDE DEF sigVars, maskVars, alarmVars, NotSet, AlarmSeconds, Ticks
      <3> QED BY <3>1, <3>2, <3>3, <3>4, Zenon DEF SInv, Types
    <2>3. Masked' BY <2>1 DEF Masked
    <2>4. Zombies' BY <2>1 DEF SInv, Zombies, NoZombieMissed, Children, Alive
    <2>5. Alarmed' BY <2>1 DEF SInv, Types, Alarmed
    <2> QED BY <2>2, <2>3, <2>4, <2>5 DEF SInv
  <1> QED BY <1>1, <1>2, <1>3, <1>4 DEF Alarm

\* A process ends: main with all its duties, a child with a SIGCHLD for main.
LEMMA ExitStep ==
  ASSUME SInv, NEW p \in Processes, Exit(p), Alive(p),
         count' \in [Processes -> Nat], p # "main" => count'["main"] = count["main"],
         UNCHANGED <<handled, blocked, usr1, reaping, maskVars, alarmVars>>
  PROVE  SInv'
  <1>1. CASE p = "main"
    <2>1. /\ pc'["main"] = "ended" /\ pending' = [pending EXCEPT !["main"] = {}]
          /\ pc' = [q \in Processes |-> pc'[q]]
          /\ \A c \in Children : pc'[c] \in {pc[c], "reaped"}
      BY <1>1 DEF Exit, Processes, Children
    <2>2. /\ pc'["child1"] \in ChildPoints /\ pc'["child2"] \in ChildPoints
          /\ pc["child2"] = "none" => pc'["child2"] = "none"
      BY <1>1 DEF Exit, SInv, Types, Processes, Children, ChildPoints
    <2>3. Types' BY <2>1, <2>2 DEF SInv, Types, Processes, Children, MainPoints
    <2>4. Masked' BY <2>1 DEF Masked
    <2>5. Zombies' BY <2>1, <2>2 DEF SInv, Zombies, NoZombieMissed, Alive
    <2>6. Alarmed' BY <2>1 DEF Alarmed, SInv, Types, Processes
    <2> QED BY <2>3, <2>4, <2>5, <2>6 DEF SInv
  <1>2. CASE p # "main"
    <2>0. p \in Children BY <1>2 DEF Processes, Children
    <2>1. /\ pc' = [pc EXCEPT ![p] = IF Alive("main") THEN "zombie" ELSE "reaped"]
          /\ pending' = [pending EXCEPT ![p] = {}, !["main"] = @ \cup ({"CHLD"} \cap handled)]
      BY <1>2 DEF Exit
    <2>2. /\ pc'["main"] = pc["main"]
          /\ pc'[p] \in {"zombie", "reaped"}
          /\ \A c \in Children \ {p} : pc'[c] = pc[c]
          /\ pending'["main"] = pending["main"] \cup ({"CHLD"} \cap handled)
          /\ pending' \in [Processes -> SUBSET Signals]
      BY <1>2, <2>0, <2>1 DEF SInv, Types, Processes, Children, Signals
    <2>3. Types' BY <2>0, <2>1, <2>2 DEF SInv, Types, Processes, Children, ChildPoints
    <2>4. Masked' BY <1>2, <2>2 DEF SInv, Masked
    <2>5. pc[p] # "none" BY DEF Alive
    <2>6. Zombies'
      BY <2>0, <2>2, <2>5 DEF SInv, Zombies, NoZombieMissed, Children, Alive
    <2>7. Alarmed' BY <2>2 DEF SInv, Alarmed
    <2> QED BY <2>3, <2>4, <2>6, <2>7 DEF SInv
  <1> QED BY <1>1, <1>2

\* The handler of s returns in p, into the interrupted call or behind it.
LEMMA ResumeStep ==
  ASSUME SInv, NEW p \in Processes, NEW s \in Signals, Resume(p, s), Alive(p),
         s \in pending[p], p # "main" => s = "INT"
  PROVE  /\ pc' = [q \in Processes |-> pc'[q]]
         /\ pc'["main"] \in MainPoints /\ \A c \in Children : pc'[c] \in ChildPoints
         /\ \A c \in Children : KeepsKind(c)
         /\ \/ pc'["main"] = pc["main"] /\ cut' = cut
            \/ /\ pc["main"] = "alarm_sleep" /\ pc'["main"] = "alarm:tick"
               /\ cut' = cut + 1 \/ ("ALRM" \in pending["main"] /\ cut' = cut)
            \/ /\ pc["main"] \in {"usr1_sleep", "usr1_wait"} /\ cut' = cut
               /\ pc'["main"] \in {"usr1:test", "mask:block"}
  <1>1. CASE UNCHANGED <<pc, cut>> BY <1>1 DEF SInv, Types
  <1>2. CASE /\ pc[p] \in DOMAIN AfterCall
             /\ pc' = [pc EXCEPT ![p] = AfterCall[pc[p]]]
             /\ cut' = IF pc[p] = "alarm_sleep" /\ s # "ALRM" THEN cut + 1 ELSE cut
    <2>1. pc[p] \in {"usr1_sleep", "usr1_wait", "alarm_sleep", "sleep1", "sleep2"}
      BY <1>2 DEF AfterCall
    <2>2. PICK next : next = AfterCall[pc[p]] OBVIOUS
    <2>3. /\ pc[p] = "usr1_sleep" => next = "usr1:test"
          /\ pc[p] = "usr1_wait" => next = "mask:block"
          /\ pc[p] = "alarm_sleep" => next = "alarm:tick"
          /\ pc[p] = "sleep1" => next = "kill"
          /\ pc[p] = "sleep2" => next = "exit"
      BY <2>2 DEF AfterCall
    <2>4. pc' = [pc EXCEPT ![p] = next] BY <1>2, <2>2
    <2>5. CASE p = "main"
      <3>1. /\ pc'["main"] = next /\ \A c \in Children : pc'[c] = pc[c]
            /\ pc' = [q \in Processes |-> pc'[q]]
        BY <2>4, <2>5 DEF SInv, Types, Processes, Children
      <3>2. pc["main"] \in {"usr1_sleep", "usr1_wait", "alarm_sleep"}
        BY <2>1, <2>5 DEF SInv, Types, MainPoints
      <3>3. pc["main"] = "alarm_sleep" => cut' = cut + 1 \/ (s = "ALRM" /\ cut' = cut)
        BY <1>2, <2>5
      <3>4. pc["main"] # "alarm_sleep" => cut' = cut BY <1>2, <2>5
      <3> QED BY <2>3, <2>5, <3>1, <3>2, <3>3, <3>4 DEF SInv, Types, MainPoints
    <2>6. CASE p # "main"
      <3>1. p \in Children BY <2>6 DEF Processes, Children
      <3>2. pc[p] \in {"sleep1", "sleep2"} BY <2>1, <3>1 DEF SInv, Types, ChildPoints
      <3>3. /\ pc'["main"] = pc["main"] /\ pc'[p] = next
            /\ \A c \in Children \ {p} : pc'[c] = pc[c]
            /\ pc' = [q \in Processes |-> pc'[q]]
        BY <2>4, <2>6, <3>1 DEF SInv, Types, Processes, Children
      <3>4. cut' = cut BY <1>2, <3>2
      <3> QED BY <2>3, <3>1, <3>2, <3>3, <3>4 DEF SInv, Types, ChildPoints
    <2> QED BY <2>5, <2>6
  <1> QED BY <1>1, <1>2 DEF Resume

\* sigint_handler, or the end of the process.
LEMMA HandleIntStep == ASSUME SInv, NEW p \in Processes, HandleInt(p) PROVE SInv'
  <1>1. /\ "INT" \in pending[p] /\ "INT" \notin blocked[p] /\ Alive(p)
        /\ UNCHANGED <<handled, blocked, usr1, reaping, pressed, maskVars, alarm, tick>>
    BY DEF HandleInt, Deliverable
  <1>2. /\ count' \in [Processes -> Nat]
        /\ p # "main" => count'["main"] = count["main"]
        /\ count'["main"] >= count["main"]
        /\ p = "main" /\ "INT" \in handled => count'["main"] > count["main"]
    BY DEF HandleInt, SInv, Types, Processes
  <1>3. CASE Exit(p) /\ UNCHANGED cut
    BY <1>1, <1>2, <1>3, ExitStep
  <1>4. CASE /\ "INT" \in handled
             /\ pending' = [pending EXCEPT ![p] = @ \ {"INT"}] /\ Resume(p, "INT")
    <2>1. /\ pending' \in [Processes -> SUBSET Signals]
          /\ \A s \in {"CHLD", "ALRM"} : s \in pending'["main"] <=> s \in pending["main"]
          /\ p # "main" => pending'["main"] = pending["main"]
      BY <1>4 DEF SInv, Types, Processes
    <2>2. /\ pc' = [q \in Processes |-> pc'[q]]
          /\ pc'["main"] \in MainPoints /\ \A c \in Children : pc'[c] \in ChildPoints
          /\ \A c \in Children : KeepsKind(c)
      BY <1>1, <1>4, ResumeStep DEF Signals
    <2>3. \/ pc'["main"] = pc["main"] /\ cut' = cut
          \/ /\ pc["main"] = "alarm_sleep" /\ pc'["main"] = "alarm:tick"
             /\ cut' = cut + 1 \/ ("ALRM" \in pending["main"] /\ cut' = cut)
          \/ /\ pc["main"] \in {"usr1_sleep", "usr1_wait"} /\ cut' = cut
             /\ pc'["main"] \in {"usr1:test", "mask:block"}
      BY <1>1, <1>4, ResumeStep DEF Signals
    <2>4. Types' BY <1>1, <1>2, <2>1, <2>2, <2>3 DEF SInv, Types
    <2>5. Masked' BY <1>1, <1>2, <1>4, <2>1, <2>3 DEF SInv, Types, Processes, Masked
    <2>6. Zombies'
      BY <1>1, <2>1, <2>2, <2>3 DEF SInv, Zombies, NoZombieMissed, Alive, Children, MainPoints
    <2>7. Alarmed' BY <1>1, <2>1, <2>3 DEF SInv, Types, Alarmed
    <2> QED BY <2>4, <2>5, <2>6, <2>7 DEF SInv
  <1> QED BY <1>3, <1>4 DEF HandleInt

\* The other handlers, all in main.
LEMMA HandleStep == ASSUME SInv, NEW s \in {"USR1", "CHLD", "ALRM"}, Handle(s) PROVE SInv'
  <1>1. /\ s \in pending["main"] /\ Alive("main") /\ Resume("main", s)
        /\ UNCHANGED <<handled, blocked, count, pressed, maskVars, alarm, tick>>
    BY DEF Handle, Deliverable
  <1>2. /\ pending' \in [Processes -> SUBSET Signals]
        /\ pending'["main"] = pending["main"] \ {s}
    BY DEF Handle, SInv, Types, Processes
  <1>3. /\ pc' = [q \in Processes |-> pc'[q]]
        /\ pc'["main"] \in MainPoints /\ \A c \in Children : pc'[c] \in ChildPoints
        /\ \A c \in Children : KeepsKind(c)
    BY <1>1, ResumeStep DEF Signals, Processes
  <1>4. \/ pc'["main"] = pc["main"] /\ cut' = cut
        \/ /\ pc["main"] = "alarm_sleep" /\ pc'["main"] = "alarm:tick"
           /\ cut' = cut + 1 \/ ("ALRM" \in pending["main"] /\ cut' = cut)
        \/ /\ pc["main"] \in {"usr1_sleep", "usr1_wait"} /\ cut' = cut
           /\ pc'["main"] \in {"usr1:test", "mask:block"}
    BY <1>1, ResumeStep DEF Signals, Processes
  <1>5. usr1' \in BOOLEAN /\ reaping' \in BOOLEAN BY DEF Handle
  <1>6. /\ reaping => reaping'
        /\ s = "CHLD" => reaping'
    BY DEF Handle
  <1>7. Types' BY <1>1, <1>2, <1>3, <1>4, <1>5 DEF SInv, Types
  <1>8. Masked' BY <1>1, <1>2, <1>4 DEF SInv, Masked
  <1>9. Zombies'
    BY <1>1, <1>2, <1>3, <1>4, <1>6 DEF SInv, Zombies, NoZombieMissed, Alive, Children
  <1>10. Alarmed' BY <1>1, <1>2, <1>4 DEF SInv, Types, Alarmed
  <1> QED BY <1>7, <1>8, <1>9, <1>10 DEF SInv

\* The loop of sigchld_handler ends when there is no zombie.
LEMMA ReapStep == ASSUME SInv, ReapLoop PROVE SInv'
  <1>1. UNCHANGED <<handled, pending, blocked, count, usr1, pressed, maskVars, alarmVars>>
    BY DEF ReapLoop
  <1>2. CASE \E c \in Children : /\ pc[c] = "zombie" /\ pc' = [pc EXCEPT ![c] = "reaped"]
                                /\ UNCHANGED reaping
    <2>1. PICK c \in Children : /\ pc[c] = "zombie" /\ pc' = [pc EXCEPT ![c] = "reaped"]
                               /\ UNCHANGED reaping
      BY <1>2
    <2>2. /\ pc'["main"] = pc["main"] /\ pc'[c] = "reaped"
          /\ \A d \in Children \ {c} : pc'[d] = pc[d]
      BY <2>1 DEF SInv, Types, Processes, Children
    <2>3. Types' BY <1>1, <2>1, <2>2 DEF SInv, Types, Processes, Children, ChildPoints
    <2>4. Masked' BY <1>1, <2>2 DEF SInv, Masked
    <2>5. Zombies'
      BY <1>1, <2>1, <2>2 DEF ReapLoop, SInv, Zombies, NoZombieMissed, Children
    <2>6. Alarmed' BY <1>1, <2>2 DEF SInv, Alarmed
    <2> QED BY <2>3, <2>4, <2>5, <2>6 DEF SInv
  <1>3. CASE (\A c \in Children : pc[c] # "zombie") /\ reaping' = FALSE /\ UNCHANGED pc
    <2>1. Types' BY <1>1, <1>3 DEF SInv, Types
    <2>2. Masked' BY <1>1, <1>3 DEF SInv, Masked
    <2>3. Zombies' BY <1>1, <1>3 DEF SInv, Zombies, NoZombieMissed, Children
    <2>4. Alarmed' BY <1>1, <1>3 DEF SInv, Alarmed
    <2> QED BY <2>1, <2>2, <2>3, <2>4 DEF SInv
  <1> QED BY <1>2, <1>3 DEF ReapLoop

\* Signals arrive: from the terminal, from the child and from the clock.
LEMMA ArrivalStep ==
  ASSUME SInv, CtrlC \/ Kill \/ AlarmClock
  PROVE  SInv'
  <1>1. CASE CtrlC
    <2>1. /\ UNCHANGED <<pc, handled, blocked, count, usr1, reaping, maskVars, alarmVars>>
          /\ pending' \in [Processes -> SUBSET Signals]
          /\ pending["main"] \subseteq pending'["main"]
          /\ pending'["main"] \subseteq pending["main"] \cup {"INT"}
      BY <1>1 DEF CtrlC, SInv, Types, Processes, Signals
    <2>2. Types' BY <2>1 DEF SInv, Types
    <2>3. Masked' BY <2>1 DEF SInv, Masked
    <2>4. Zombies' BY <2>1 DEF SInv, Zombies, NoZombieMissed, Alive
    <2>5. Alarmed' BY <2>1 DEF SInv, Alarmed
    <2> QED BY <2>2, <2>3, <2>4, <2>5 DEF SInv
  <1>2. CASE Kill
    <2>1. /\ UNCHANGED <<handled, blocked, count, usr1, reaping, maskVars, alarmVars>>
          /\ pending' \in [Processes -> SUBSET Signals]
          /\ pending["main"] \subseteq pending'["main"]
          /\ pending'["main"] \subseteq pending["main"] \cup {"USR1"}
      BY <1>2 DEF Kill, SInv, Types, Processes, Signals
    <2>2. /\ pc["child1"] = "kill" /\ pc'["child1"] = "exit"
          /\ pc'["main"] = pc["main"] /\ pc'["child2"] = pc["child2"]
      BY <1>2 DEF Kill, At, Goto, SInv, Types, Processes, Children
    <2>3. Types'
      BY <1>2, <2>1, <2>2 DEF Kill, Goto, SInv, Types, Processes, Children, ChildPoints
    <2>4. Masked' BY <2>1, <2>2 DEF SInv, Masked
    <2>5. Zombies' BY <2>1, <2>2 DEF SInv, Zombies, NoZombieMissed, Alive
    <2>6. Alarmed' BY <2>1, <2>2 DEF SInv, Alarmed
    <2> QED BY <2>3, <2>4, <2>5, <2>6 DEF SInv
  <1>3. CASE AlarmClock
    <2>1. /\ alarm > 0 /\ alarm' = alarm - 1
          /\ UNCHANGED <<pc, handled, blocked, count, usr1, reaping, maskVars, tick, cut>>
          /\ pending' \in [Processes -> SUBSET Signals]
          /\ pending["main"] \subseteq pending'["main"]
          /\ pending'["main"] \subseteq pending["main"] \cup {"ALRM"}
          /\ alarm # 1 => pending'["main"] = pending["main"]
      BY <1>3 DEF AlarmClock, SInv, Types, Processes, Signals
    <2>2. Types' BY <2>1 DEF SInv, Types
    <2>3. Masked' BY <2>1 DEF SInv, Masked
    <2>4. Zombies' BY <2>1 DEF SInv, Zombies, NoZombieMissed, Alive
    <2>5. Alarmed' BY <2>1 DEF SInv, Types, Alarmed
    <2> QED BY <2>2, <2>3, <2>4, <2>5 DEF SInv
  <1> QED BY <1>1, <1>2, <1>3

\* The children sleep and exit.
LEMMA ChildStep ==
  ASSUME SInv, NEW c \in Children, NEW at \in {"sleep1", "sleep2"},
         NEW next \in {"kill", "exit"},
         Step(c, at, next)
  PROVE  SInv'
  <1>1. /\ pc[c] = at /\ pc'[c] = next /\ pc'["main"] = pc["main"]
        /\ \A d \in Children \ {c} : pc'[d] = pc[d]
        /\ UNCHANGED <<sigVars, pressed, maskVars, alarmVars>>
    BY DEF Step, At, Goto, SInv, Types, Processes, Children
  <1>2. Types' BY <1>1 DEF Step, Goto, SInv, Types, Processes, Children, ChildPoints
  <1>3. Masked' BY <1>1 DEF SInv, Masked
  <1>4. Zombies' BY <1>1 DEF SInv, Zombies, NoZombieMissed, Alive, Children
  <1>5. Alarmed' BY <1>1 DEF SInv, Alarmed
  <1> QED BY <1>2, <1>3, <1>4, <1>5 DEF SInv

\* The end of main, and of a child, by exit().
LEMMA ReturnStep ==
  ASSUME SInv, NEW p \in Processes, NEW at \in {"complete", "exit"}, Return(p, at)
  PROVE  SInv'
  <1>1. Alive(p) BY DEF Return, At, Alive
  <1>2. count' \in [Processes -> Nat] /\ count'["main"] = count["main"]
    BY DEF Return, SInv, Types
  <1> QED BY <1>1, <1>2, ExitStep DEF Return

-----------------------------------------------------------------------------

\* The invariant holds when main starts.
LEMMA InitSInv == Init => SInv
  <1> SUFFICES ASSUME Init PROVE SInv OBVIOUS
  <1>1. pc["main"] = "basic:sigaction" /\ pc["child1"] = "none" /\ pc["child2"] = "none"
    BY DEF Init, Processes, Children
  <1>2. Types
    <2>1. pc = [p \in Processes |-> pc[p]] BY DEF Init
    <2>2. pc["main"] \in MainPoints /\ \A c \in Children : pc[c] \in ChildPoints
      BY <1>1 DEF MainPoints, ChildPoints, Children
    <2>3. /\ handled \in SUBSET Signals /\ pending \in [Processes -> SUBSET Signals]
          /\ blocked \in [Processes -> SUBSET Signals]
      BY DEF Init
    <2>4. count \in [Processes -> Nat] BY DEF Init
    <2>5. usr1 \in BOOLEAN /\ reaping \in BOOLEAN /\ told \in BOOLEAN BY DEF Init
    <2>6. atBlock \in Nat /\ alarm \in -1..AlarmSeconds /\ tick \in Nat /\ cut \in Nat
      BY DEF Init
    <2> HIDE DEF sigVars, maskVars, alarmVars, NotSet, AlarmSeconds, Ticks
    <2> QED BY <2>1, <2>2, <2>3, <2>4, <2>5, <2>6, Zenon DEF Types
  <1>3. Masked BY <1>1 DEF Masked
  <1>4. Zombies BY <1>1 DEF Zombies, NoZombieMissed
  <1>5. Alarmed BY <1>1 DEF Init, Alarmed, Processes
  <1> QED BY <1>2, <1>3, <1>4, <1>5 DEF SInv

\* Every step keeps it.
LEMMA StepSInv == SInv /\ [Next]_vars => SInv'
  <1> SUFFICES ASSUME SInv, [Next]_vars PROVE SInv' OBVIOUS
  <1>0. "main" \in Processes /\ "child1" \in Processes /\ "child2" \in Processes
    BY DEF Processes, Children
  <1>1. CASE Main
    BY <1>0, <1>1, BasicStep, BetweenStep, MaskingStep, SigchldStep, AlarmStep, ReturnStep
    DEF Main
  <1>2. CASE Delivery BY <1>2, HandleIntStep, HandleStep, ReapStep DEF Delivery
  <1>3. CASE CtrlC \/ AlarmClock BY <1>3, ArrivalStep
  <1>4. CASE Child1 \/ Child2
    BY <1>0, <1>4, ArrivalStep, ChildStep, ReturnStep DEF Child1, Child2, Children
  <1>5. CASE UNCHANGED vars
    <2>1. Types' BY <1>5 DEF vars, SInv, Types
    <2>2. Masked' /\ Alarmed' BY <1>5 DEF vars, SInv, Masked, Alarmed
    <2>3. Zombies' BY <1>5 DEF vars, SInv, Zombies, NoZombieMissed, Alive
    <2> QED BY <2>1, <2>2, <2>3 DEF SInv
  <1> QED BY <1>1, <1>2, <1>3, <1>4, <1>5 DEF Next, Terminated

\* The invariant holds throughout, however often Ctrl+C is pressed.
THEOREM Invariance == Spec => []SInv
  BY InitSInv, StepSInv, PTL DEF Spec

\* However often Ctrl+C is pressed: no handler runs while SIGINT is blocked, and
\* a SIGINT reported as pending is handled before the demo says so.
THEOREM BlockedInterruptDeliveredCorrect == Spec => []BlockedInterruptDelivered
  <1>1. SInv => BlockedInterruptDelivered
    BY DEF SInv, Masked, BlockedInterruptDelivered
  <1> QED BY <1>1, Invariance, PTL

\* However often Ctrl+C is pressed: sigchld_handler leaves no zombie behind.
THEOREM NoZombieMissedCorrect == Spec => []NoZombieMissed
  <1>1. SInv => NoZombieMissed BY DEF SInv, Zombies
  <1> QED BY <1>1, Invariance, PTL

\* However often Ctrl+C is pressed: the alarm goes off within the five sleeps,
\* unless at least three were cut short.
THEOREM AlarmGoesOffCorrect == Spec => []AlarmGoesOff
  <1>1. SInv => AlarmGoesOff
    BY DEF SInv, Types, Alarmed, AlarmGoesOff
  <1> QED BY <1>1, Invariance, PTL

-----------------------------------------------------------------------------
(* What main waits for                                                     *)

\* Before the first child, and while main waits for it.
Early == {"basic:sigaction", "basic:loop", "reset", "usr1:sigaction", "usr1:fork"}
Waits == {"usr1:test", "usr1_sleep", "usr1_wait"}

\* No child of main has a handler yet that could take the first one away from
\* wait(), and nothing main needs is blocked.
Undisturbed ==
  pc["main"] \in Early \cup Waits
    => /\ "CHLD" \notin handled /\ "CHLD" \notin pending["main"] /\ ~reaping
       /\ blocked["main"] = {} /\ pc["child2"] = "none"

\* The first child is about to send SIGUSR1, has sent it, or was interrupted.
Sender ==
  /\ pc["main"] \in Early
       => pc["child1"] = "none" /\ ~usr1 /\ "USR1" \notin pending["main"]
  /\ pc["main"] \in Waits
       => \/ pc["child1"] \in {"sleep1", "kill"} /\ ~usr1 /\ "USR1" \notin pending["main"]
          \/ pc["child1"] \in {"exit", "zombie"} /\ (usr1 \/ "USR1" \in pending["main"])
          \/ ChildInterrupted
  /\ pc["main"] = "usr1_wait" => usr1

\* A step that takes main to none of these points.
LEMMA Elsewhere ==
  ASSUME pc'["main"] \notin Early \cup Waits
  PROVE  Undisturbed' /\ Sender'
  BY DEF Undisturbed, Sender, Waits

\* A step that changes neither main's point nor what Sender speaks of.
LEMMA SenderSame ==
  ASSUME Undisturbed, Sender, UNCHANGED <<handled, blocked, usr1, reaping>>,
         pc'["main"] = pc["main"], pc'["child1"] = pc["child1"],
         pc'["child2"] = pc["child2"], count'["child1"] = count["child1"],
         \A s \in {"CHLD", "USR1"} : s \in pending'["main"] <=> s \in pending["main"]
  PROVE  Undisturbed' /\ Sender'
  <1>1. Undisturbed' BY DEF Undisturbed
  <1>2. Sender' BY DEF Sender, ChildInterrupted
  <1> QED BY <1>1, <1>2

\* main goes from demo to demo up to wait().
LEMMA SenderMain ==
  ASSUME SInv, Undisturbed, Sender, Main
  PROVE  Undisturbed' /\ Sender'
  <1> USE DEF Early, Waits
  <1>0. pc = [q \in Processes |-> pc[q]] BY DEF SInv, Types
  <1>1. CASE BasicSignal
    <2>1. /\ pc["main"] \in Early /\ pc'["main"] \in {"basic:loop", "reset"}
          /\ pc'["child1"] = pc["child1"] /\ pc'["child2"] = pc["child2"]
          /\ handled' \in {handled, handled \cup {"INT"}}
          /\ UNCHANGED <<pending, blocked, usr1, reaping>>
      BY <1>0, <1>1 DEF BasicSignal, SigAction, Step, At, Goto, Processes, Children
    <2>2. Undisturbed' BY <2>1 DEF Undisturbed
    <2>3. Sender' BY <2>1 DEF Sender
    <2> QED BY <2>2, <2>3
  <1>2. CASE ResetCount
    <2>1. /\ pc["main"] \in Early /\ pc'["main"] = "usr1:sigaction"
          /\ pc'["child1"] = pc["child1"] /\ pc'["child2"] = pc["child2"]
          /\ UNCHANGED <<handled, pending, blocked, usr1, reaping>>
      BY <1>0, <1>2 DEF ResetCount, At, Goto, Processes, Children
    <2>2. Undisturbed' BY <2>1 DEF Undisturbed
    <2>3. Sender' BY <2>1 DEF Sender
    <2> QED BY <2>2, <2>3
  <1>3. CASE SigAction("usr1:sigaction", "USR1", "usr1:fork", "mask:block")
    <2>1. /\ pc["main"] \in Early /\ pc'["main"] \in {"usr1:fork", "mask:block"}
          /\ pc'["child1"] = pc["child1"] /\ pc'["child2"] = pc["child2"]
          /\ handled' \in {handled, handled \cup {"USR1"}}
          /\ UNCHANGED <<pending, blocked, usr1, reaping>>
      BY <1>0, <1>3 DEF SigAction, At, Goto, Processes, Children
    <2>2. Undisturbed' BY <2>1 DEF Undisturbed
    <2>3. Sender' BY <2>1 DEF Sender
    <2> QED BY <2>2, <2>3
  <1>4. CASE Fork("usr1:fork", "child1", "sleep1", "usr1:test", "mask:block")
    <2>1. CASE pc' = [pc EXCEPT !["main"] = "usr1:test", !["child1"] = "sleep1"]
               /\ blocked' = [blocked EXCEPT !["child1"] = blocked["main"]]
      <3>1. /\ pc["main"] \in Early /\ pc'["main"] = "usr1:test"
            /\ pc'["child1"] = "sleep1" /\ pc'["child2"] = pc["child2"]
            /\ blocked'["main"] = blocked["main"]
            /\ UNCHANGED <<handled, pending, usr1, reaping>>
        BY <1>0, <1>4, <2>1 DEF Fork, At, Processes, Children, SInv, Types
      <3>2. Undisturbed' BY <3>1 DEF Undisturbed
      <3>3. Sender' BY <3>1 DEF Sender
      <3> QED BY <3>2, <3>3
    <2>2. CASE Goto("main", "mask:block")
      <3>1. pc'["main"] = "mask:block" BY <1>0, <2>2 DEF Goto, Processes
      <3> QED BY <3>1, Elsewhere
    <2> QED BY <1>4, <2>1, <2>2 DEF Fork
  <1>5. CASE \/ ~usr1 /\ Step("main", "usr1:test", "usr1_sleep")
             \/ Step("main", "usr1_sleep", "usr1:test")
             \/ usr1 /\ Step("main", "usr1:test", "usr1_wait")
    <2>1. /\ pc["main"] \in {"usr1:test", "usr1_sleep"}
          /\ pc'["main"] \in Waits /\ (pc'["main"] = "usr1_wait" => usr1)
          /\ pc'["child1"] = pc["child1"] /\ pc'["child2"] = pc["child2"]
          /\ UNCHANGED <<handled, pending, blocked, count, usr1, reaping>>
      BY <1>0, <1>5 DEF Step, At, Goto, Processes, Children
    <2>2. Undisturbed' BY <2>1 DEF Undisturbed
    <2>3. Sender' BY <2>1 DEF Sender, ChildInterrupted
    <2> QED BY <2>2, <2>3
  <1>6. CASE Wait \/ SignalMasking \/ Sigchld \/ Alarm \/ Return("main", "complete")
    <2>1. CASE Wait
      <3>1. pc'["main"] = "mask:block"
        BY <1>0, <2>1 DEF Wait, Processes, Children
      <3> QED BY <3>1, Elsewhere
    <2>2. CASE SignalMasking
      <3>1. PICK next \in {"mask:pending", "mask:restore", "mask:unblocked",
                           "mask:delivered", "chld:sigaction"} : Goto("main", next)
        BY <2>2 DEF SignalMasking, Block, Pending, Restore, Step
      <3>2. pc'["main"] = next BY <1>0, <3>1 DEF Goto, Processes
      <3> QED BY <3>2, Elsewhere
    <2>3. CASE Sigchld
      <3>1. CASE Fork("chld:fork", "child2", "sleep2", "chld:work", "chld:work")
        <4>1. pc'["main"] = "chld:work"
          BY <1>0, <3>1 DEF Fork, Goto, Processes, Children
        <4> QED BY <4>1, Elsewhere
      <3>2. CASE \/ SigAction("chld:sigaction", "CHLD", "chld:fork", "alarm:sigaction")
                 \/ Step("main", "chld:work", "alarm:sigaction")
        <4>1. PICK next \in {"chld:fork", "alarm:sigaction"} : Goto("main", next)
          BY <3>2 DEF SigAction, Step
        <4>2. pc'["main"] = next BY <1>0, <4>1 DEF Goto, Processes
        <4> QED BY <4>2, Elsewhere
      <3> QED BY <2>3, <3>1, <3>2 DEF Sigchld
    <2>4. CASE Alarm
      <3>1. PICK next \in {"alarm:set", "complete", "alarm_sleep", "alarm:tick"} :
              Goto("main", next)
        BY <2>4 DEF Alarm, SigAction, SetAlarm, AlarmSleep, AlarmTick
      <3>2. pc'["main"] = next BY <1>0, <3>1 DEF Goto, Processes
      <3> QED BY <3>2, Elsewhere
    <2>5. CASE Return("main", "complete")
      <3>1. pc'["main"] = "ended" BY <2>5 DEF Return, Exit, Processes
      <3> QED BY <3>1, Elsewhere
    <2> QED BY <1>6, <2>1, <2>2, <2>3, <2>4, <2>5
  <1> QED BY <1>1, <1>2, <1>3, <1>4, <1>5, <1>6 DEF Main, BetweenProcesses

\* Where a handler returns to, for the processes that matter here.
LEMMA ResumePoints ==
  ASSUME SInv, NEW p \in Processes, NEW s, Resume(p, s)
  PROVE  /\ p = "main" => /\ pc'["child1"] = pc["child1"] /\ pc'["child2"] = pc["child2"]
                          /\ \/ pc'["main"] = pc["main"]
                             \/ pc["main"] = "usr1_sleep" /\ pc'["main"] = "usr1:test"
                             \/ pc'["main"] \notin Early \cup Waits
         /\ p = "child1" => /\ pc'["main"] = pc["main"] /\ pc'["child2"] = pc["child2"]
                            /\ \/ pc'["child1"] = pc["child1"]
                               \/ pc["child1"] = "sleep1" /\ pc'["child1"] = "kill"
                               \/ pc["child1"] = "sleep2"
  <1>0. pc = [q \in Processes |-> pc[q]] BY DEF SInv, Types
  <1>1. CASE UNCHANGED pc BY <1>1
  <1>2. CASE pc[p] \in DOMAIN AfterCall /\ pc' = [pc EXCEPT ![p] = AfterCall[pc[p]]]
    <2>1. pc[p] \in {"usr1_sleep", "usr1_wait", "alarm_sleep", "sleep1", "sleep2"}
      BY <1>2 DEF AfterCall
    <2>2. PICK next : next = AfterCall[pc[p]] OBVIOUS
    <2>3. /\ pc[p] = "usr1_sleep" => next = "usr1:test"
          /\ pc[p] = "usr1_wait" => next = "mask:block"
          /\ pc[p] = "alarm_sleep" => next = "alarm:tick"
          /\ pc[p] = "sleep1" => next = "kill"
          /\ pc[p] = "sleep2" => next = "exit"
      BY <2>2 DEF AfterCall
    <2>4. pc' = [pc EXCEPT ![p] = next] BY <1>2, <2>2
    <2>5. CASE p = "main"
      <3>1. pc'["main"] = next /\ pc'["child1"] = pc["child1"] /\ pc'["child2"] = pc["child2"]
        BY <1>0, <2>4, <2>5 DEF Processes, Children
      <3>2. pc["main"] \in {"usr1_sleep", "usr1_wait", "alarm_sleep"}
        BY <2>1, <2>5 DEF SInv, Types, MainPoints
      <3> QED BY <2>3, <2>5, <3>1, <3>2 DEF Early, Waits
    <2>6. CASE p = "child1"
      <3>1. pc'["child1"] = next /\ pc'["main"] = pc["main"] /\ pc'["child2"] = pc["child2"]
        BY <1>0, <2>4, <2>6 DEF Processes, Children
      <3>2. pc["child1"] \in {"sleep1", "sleep2"}
        BY <2>1, <2>6 DEF SInv, Types, ChildPoints, Children
      <3> QED BY <2>3, <2>6, <3>1, <3>2
    <2> QED BY <2>5, <2>6
  <1> QED BY <1>1, <1>2 DEF Resume

\* SIGINT ends main, ends the first child before or after its kill(), or does
\* no harm.
LEMMA SenderHandleInt ==
  ASSUME SInv, Undisturbed, Sender, NEW p \in Processes, HandleInt(p)
  PROVE  Undisturbed' /\ Sender'
  <1> SUFFICES ASSUME pc'["main"] \in Early \cup Waits PROVE Undisturbed' /\ Sender'
    BY Elsewhere
  <1>0. pc = [q \in Processes |-> pc[q]] /\ pending \in [Processes -> SUBSET Signals]
    BY DEF SInv, Types
  <1>1. Alive(p) /\ UNCHANGED <<handled, blocked, usr1, reaping>> BY DEF HandleInt
  <1>2. p = "main" \/ p = "child1" \/ p = "child2" BY DEF Processes, Children
  <1>3. CASE p = "main"
    <2>1. ~Exit(p) BY <1>3 DEF Exit, Early, Waits, Processes
    <2>2. pending' = [pending EXCEPT ![p] = @ \ {"INT"}] /\ Resume(p, "INT")
      BY <2>1 DEF HandleInt
    <2>3. \A s \in {"CHLD", "USR1"} : s \in pending'["main"] <=> s \in pending["main"]
      BY <1>0, <1>3, <2>2 DEF Processes
    <2>4. /\ pc'["child1"] = pc["child1"] /\ pc'["child2"] = pc["child2"]
          /\ \/ pc'["main"] = pc["main"]
             \/ pc["main"] = "usr1_sleep" /\ pc'["main"] = "usr1:test"
      BY <1>3, <2>2, ResumePoints
    <2>5. count'["child1"] = count["child1"]
      BY <1>3 DEF HandleInt, SInv, Types, Processes, Children
    <2>6. CASE pc'["main"] = pc["main"]
      BY <1>1, <2>3, <2>4, <2>5, <2>6, SenderSame
    <2>7. CASE pc["main"] = "usr1_sleep" /\ pc'["main"] = "usr1:test"
      <3>1. Undisturbed' BY <1>1, <2>3, <2>4, <2>7 DEF Undisturbed, Waits
      <3>2. Sender' BY <1>1, <2>3, <2>4, <2>5, <2>7 DEF Sender, ChildInterrupted, Early, Waits
      <3> QED BY <3>1, <3>2
    <2> QED BY <2>4, <2>6, <2>7
  <1>4. CASE p = "child1"
    <2>1. CASE Exit(p)
      <3>1. /\ pc' = [pc EXCEPT ![p] = IF Alive("main") THEN "zombie" ELSE "reaped"]
            /\ pending' = [pending EXCEPT ![p] = {}, !["main"] = @ \cup ({"CHLD"} \cap handled)]
        BY <1>4, <2>1 DEF Exit
      <3>2. pc'["main"] = pc["main"] /\ pc'["child2"] = pc["child2"]
        BY <1>0, <1>4, <3>1 DEF Processes, Children
      <3>3. Alive("main") BY <3>2 DEF Alive, Early, Waits
      <3>4. pc'["child1"] = "zombie" BY <1>0, <1>4, <3>1, <3>3 DEF Processes, Children
      <3>5. "CHLD" \notin handled BY <3>2 DEF Undisturbed
      <3>6. pending'["main"] = pending["main"]
        BY <1>0, <1>4, <3>1, <3>5 DEF Processes, Children
      <3>7. "INT" \notin handled \/ count'["child1"] >= 3
        <4>1. CASE "INT" \notin handled \/ count'[p] >= 3 BY <1>4, <4>1
        <4>2. CASE pending' = [pending EXCEPT ![p] = @ \ {"INT"}] /\ Resume(p, "INT")
          <5>1. pc'["child1"] = pc["child1"] \/ pc'["child1"] = "kill"
                \/ pc["child1"] = "sleep2"
            BY <1>4, <4>2, ResumePoints
          <5>2. pc["child1"] # "sleep2"
            BY <3>2 DEF Sender, ChildInterrupted
          <5> QED BY <1>1, <1>4, <3>4, <5>1, <5>2 DEF Alive
        <4> QED BY <4>1, <4>2 DEF HandleInt
      <3>8. Undisturbed' BY <1>1, <3>2, <3>6 DEF Undisturbed
      <3>9. pc["child1"] \notin {"none", "zombie", "reaped"} BY <1>1, <1>4 DEF Alive
      <3>10. pc["main"] \in Waits BY <3>2, <3>9 DEF Sender
      <3>11. \/ pc["child1"] \in {"sleep1", "kill"} /\ ~usr1 /\ "USR1" \notin pending["main"]
             \/ usr1 \/ "USR1" \in pending["main"]
        BY <3>9, <3>10 DEF Sender, ChildInterrupted
      <3>12. ChildInterrupted' \/ usr1 \/ "USR1" \in pending["main"]
        BY <1>1, <3>4, <3>6, <3>7, <3>11 DEF ChildInterrupted
      <3>13. Sender'
        BY <1>1, <3>2, <3>4, <3>6, <3>10, <3>12 DEF Sender, Early, Waits
      <3> QED BY <3>8, <3>13
    <2>2. CASE pending' = [pending EXCEPT ![p] = @ \ {"INT"}] /\ Resume(p, "INT")
      <3>1. pending'["main"] = pending["main"] BY <1>0, <1>4, <2>2 DEF Processes
      <3>2. /\ pc'["main"] = pc["main"] /\ pc'["child2"] = pc["child2"]
            /\ \/ pc'["child1"] = pc["child1"]
               \/ pc["child1"] = "sleep1" /\ pc'["child1"] = "kill"
               \/ pc["child1"] = "sleep2"
        BY <1>4, <2>2, ResumePoints
      <3>3. pc["child1"] \notin {"none", "zombie", "reaped"} BY <1>1, <1>4 DEF Alive
      <3>4. pc["main"] \in Waits BY <3>2, <3>3 DEF Sender
      <3>5. \/ pc["child1"] \in {"sleep1", "kill"} /\ ~usr1 /\ "USR1" \notin pending["main"]
            \/ pc["child1"] \in {"exit", "zombie"} /\ (usr1 \/ "USR1" \in pending["main"])
        BY <3>3, <3>4 DEF Sender, ChildInterrupted
      <3>6. Undisturbed' BY <1>1, <3>1, <3>2 DEF Undisturbed
      <3>7. Sender' BY <1>1, <3>1, <3>2, <3>4, <3>5 DEF Sender, Early, Waits
      <3> QED BY <3>6, <3>7
    <2> QED BY <2>1, <2>2 DEF HandleInt
  <1>5. CASE p = "child2"
    <2>1. pc["child2"] # "none" BY <1>1, <1>5 DEF Alive
    <2>2. pc["main"] \notin Early \cup Waits BY <2>1 DEF Undisturbed
    <2>3. CASE Exit(p)
      <3>1. pc' = [pc EXCEPT ![p] = IF Alive("main") THEN "zombie" ELSE "reaped"]
        BY <1>5, <2>3 DEF Exit
      <3>2. pc'["main"] = pc["main"] BY <1>0, <1>5, <3>1 DEF Processes
      <3> QED BY <2>2, <3>2
    <2>4. CASE Resume(p, "INT")
      <3>1. pc'["main"] = pc["main"] BY <1>0, <1>5, <2>4 DEF Resume, Processes
      <3> QED BY <2>2, <3>1
    <2> QED BY <2>3, <2>4 DEF HandleInt
  <1> QED BY <1>2, <1>3, <1>4, <1>5

\* The flag is set by the handler; the other signals of main come later.
LEMMA SenderHandle ==
  ASSUME SInv, Undisturbed, Sender, NEW s \in {"USR1", "CHLD", "ALRM"}, Handle(s)
  PROVE  Undisturbed' /\ Sender'
  <1> SUFFICES ASSUME pc'["main"] \in Early \cup Waits PROVE Undisturbed' /\ Sender'
    BY Elsewhere
  <1>1. /\ s \in pending["main"] /\ Resume("main", s)
        /\ UNCHANGED <<handled, blocked, count>>
        /\ usr1' = (usr1 \/ s = "USR1") /\ reaping' = (reaping \/ s = "CHLD")
    BY DEF Handle, Deliverable
  <1>2. pending'["main"] = pending["main"] \ {s}
    BY DEF Handle, SInv, Types, Processes
  <1>3. /\ pc'["child1"] = pc["child1"] /\ pc'["child2"] = pc["child2"]
        /\ \/ pc'["main"] = pc["main"]
           \/ pc["main"] = "usr1_sleep" /\ pc'["main"] = "usr1:test"
    BY <1>1, ResumePoints DEF Processes
  <1>4. pc["main"] \in Early \cup Waits BY <1>3 DEF Waits
  <1>5. s # "CHLD" BY <1>1, <1>4 DEF Undisturbed
  <1>6. s # "ALRM"
    <2>1. alarm = NotSet BY <1>4 DEF SInv, Alarmed, Early, Waits
    <2>2. "ALRM" \in pending["main"] => alarm = 0 BY DEF SInv, Alarmed
    <2> QED BY <1>1, <2>1, <2>2
  <1>7. s = "USR1" BY <1>5, <1>6
  <1>8. usr1' /\ (reaping' <=> reaping) BY <1>1, <1>7
  <1>9. Undisturbed' BY <1>1, <1>2, <1>3, <1>4, <1>8 DEF Undisturbed
  <1>10. pc["main"] \in Waits BY <1>1, <1>4, <1>7 DEF Sender
  <1>11. pc["child1"] \in {"exit", "zombie"}
    BY <1>1, <1>7, <1>10 DEF Sender, ChildInterrupted
  <1>12. Sender' BY <1>3, <1>8, <1>10, <1>11 DEF Sender, Early, Waits
  <1> QED BY <1>9, <1>12

\* Ctrl+C, the clock, and the steps of the children.
LEMMA SenderRest ==
  ASSUME SInv, Undisturbed, Sender,
         CtrlC \/ AlarmClock \/ ReapLoop \/ Child1 \/ Child2 \/ UNCHANGED vars
  PROVE  Undisturbed' /\ Sender'
  <1>0. pc = [q \in Processes |-> pc[q]] /\ pending \in [Processes -> SUBSET Signals]
    BY DEF SInv, Types
  <1>1. CASE CtrlC
    <2>1. /\ UNCHANGED <<pc, handled, blocked, count, usr1, reaping>>
          /\ \A s \in {"CHLD", "USR1"} : s \in pending'["main"] <=> s \in pending["main"]
      BY <1>1 DEF CtrlC, Processes
    <2> QED BY <2>1, SenderSame
  <1>2. CASE AlarmClock
    <2>1. /\ UNCHANGED <<pc, handled, blocked, count, usr1, reaping>>
          /\ \A s \in {"CHLD", "USR1"} : s \in pending'["main"] <=> s \in pending["main"]
      BY <1>0, <1>2 DEF AlarmClock, Processes
    <2> QED BY <2>1, SenderSame
  <1>3. CASE ReapLoop
    <2>1. pc["main"] \notin Early \cup Waits BY <1>3 DEF ReapLoop, Undisturbed
    <2>2. pc'["main"] = pc["main"] BY <1>0, <1>3 DEF ReapLoop, Processes, Children
    <2> QED BY <2>1, <2>2, Elsewhere
  <1>4. CASE Step("child1", "sleep1", "kill")
    <2>1. /\ pc["child1"] = "sleep1" /\ pc'["child1"] = "kill"
          /\ pc'["main"] = pc["main"] /\ pc'["child2"] = pc["child2"]
          /\ UNCHANGED <<handled, pending, blocked, count, usr1, reaping>>
      BY <1>0, <1>4 DEF Step, At, Goto, Processes, Children
    <2>2. Undisturbed' BY <2>1 DEF Undisturbed
    <2>3. Sender' BY <2>1 DEF Sender, ChildInterrupted
    <2> QED BY <2>2, <2>3
  <1>5. CASE Kill
    <2>1. /\ pc["child1"] = "kill" /\ pc'["child1"] = "exit"
          /\ pc'["main"] = pc["main"] /\ pc'["child2"] = pc["child2"]
          /\ UNCHANGED <<handled, blocked, count, usr1, reaping>>
      BY <1>0, <1>5 DEF Kill, At, Goto, Processes, Children
    <2>2. pending'["main"] = pending["main"] \cup IF Alive("main") THEN {"USR1"} ELSE {}
      BY <1>0, <1>5 DEF Kill, Processes
    <2>3. pc["main"] \in Early \cup Waits => Alive("main") BY DEF Alive, Early, Waits
    <2>4. Undisturbed' BY <2>1, <2>2 DEF Undisturbed
    <2>5. Sender' BY <2>1, <2>2, <2>3 DEF Sender, ChildInterrupted
    <2> QED BY <2>4, <2>5
  <1>6. CASE Return("child1", "exit")
    <2>1. /\ pc["child1"] = "exit" /\ UNCHANGED <<handled, blocked, count, usr1, reaping>>
          /\ pc' = [pc EXCEPT !["child1"] = IF Alive("main") THEN "zombie" ELSE "reaped"]
          /\ pending' = [pending EXCEPT !["child1"] = {},
                                        !["main"] = @ \cup ({"CHLD"} \cap handled)]
      BY <1>6 DEF Return, At, Exit
    <2>2. pc'["main"] = pc["main"] /\ pc'["child2"] = pc["child2"]
      BY <1>0, <2>1 DEF Processes, Children
    <2>3. CASE pc["main"] \notin Early \cup Waits BY <2>2, <2>3, Elsewhere
    <2>4. CASE pc["main"] \in Early \cup Waits
      <3>1. Alive("main") BY <2>4 DEF Alive, Early, Waits
      <3>2. pc'["child1"] = "zombie" BY <1>0, <2>1, <3>1 DEF Processes, Children
      <3>3. pending'["main"] = pending["main"]
        BY <1>0, <2>1, <2>4 DEF Undisturbed, Processes, Children
      <3>4. Undisturbed' BY <2>1, <2>2, <3>3 DEF Undisturbed
      <3>5. Sender' BY <2>1, <2>2, <3>2, <3>3 DEF Sender, ChildInterrupted
      <3> QED BY <3>4, <3>5
    <2> QED BY <2>3, <2>4
  <1>7. CASE Child2
    <2>1. pc["child2"] # "none" BY <1>7 DEF Child2, Step, Return, At
    <2>2. pc'["main"] = pc["main"]
      BY <1>0, <1>7 DEF Child2, Step, Return, Goto, Exit, Processes, Children
    <2> QED BY <2>1, <2>2, Elsewhere DEF Undisturbed
  <1>8. CASE UNCHANGED vars
    BY <1>8, SenderSame DEF vars
  <1> QED BY <1>1, <1>2, <1>3, <1>4, <1>5, <1>6, <1>7, <1>8 DEF Child1

\* However often Ctrl+C is pressed and wherever it cuts sleep() and wait() short:
\* main never waits for a signal or a child that cannot come any more, unless
\* the interrupt ended the child; the safety half of EndsUnlessChildInterrupted.
THEOREM SomethingToWaitForCorrect == Spec => []SomethingToWaitFor
  <1>1. Init => Undisturbed /\ Sender
    <2> SUFFICES ASSUME Init PROVE Undisturbed /\ Sender OBVIOUS
    <2>1. /\ pc["main"] = "basic:sigaction" /\ pc["child1"] = "none" /\ pc["child2"] = "none"
          /\ handled = {} /\ pending["main"] = {} /\ blocked["main"] = {}
          /\ ~usr1 /\ ~reaping
      BY DEF Init, Processes, Children
    <2>2. Undisturbed BY <2>1 DEF Undisturbed
    <2>3. Sender BY <2>1 DEF Sender, Waits
    <2> QED BY <2>2, <2>3
  <1>2. SInv /\ Undisturbed /\ Sender /\ [Next]_vars => (Undisturbed /\ Sender)'
    <2> SUFFICES ASSUME SInv, Undisturbed, Sender, [Next]_vars
                 PROVE  Undisturbed' /\ Sender'
      OBVIOUS
    <2>1. CASE Main BY <2>1, SenderMain
    <2>2. CASE Delivery BY <2>2, SenderHandleInt, SenderHandle, SenderRest DEF Delivery
    <2>3. CASE CtrlC \/ AlarmClock \/ Child1 \/ Child2 \/ UNCHANGED vars
      BY <2>3, SenderRest
    <2> QED BY <2>1, <2>2, <2>3 DEF Next, Terminated
  <1>3. Undisturbed /\ Sender => SomethingToWaitFor
    <2> SUFFICES ASSUME Undisturbed, Sender PROVE SomethingToWaitFor OBVIOUS
    <2>1. pc["main"] \in Waits => Deliverable("main") = pending["main"]
      BY DEF Undisturbed, Deliverable
    <2> QED BY <2>1 DEF Sender, SomethingToWaitFor, ChildInterrupted, Waits
  <1> QED BY <1>1, <1>2, <1>3, Invariance, PTL DEF Spec

=============================================================================
