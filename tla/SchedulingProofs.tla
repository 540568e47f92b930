------------------------- MODULE SchedulingProofs -------------------------
(* What is proved of module Scheduling, for any number of slots and CPUs:  *)
(* the safety properties that TLC checks, from the inductive invariant     *)
(* SInv.                                                                   *)
EXTENDS Scheduling, TLAPS

-----------------------------------------------------------------------------
(* The inductive invariant. *)

Alive == {"SLEEPING", "RUNNABLE", "RUNNING"}

TypeOK ==
  /\ state \in [Proc -> Alive \cup {"UNUSED", "EMBRYO", "ZOMBIE"}]
  /\ parent \in [Proc -> Proc \cup {None}]
  /\ chan \in [Proc -> Proc \cup {Event, None}]
  /\ pc \in [Proc -> {"user", "fork", "wait", "read", "check", "sleep"}]
  /\ child \in [Proc -> Proc \cup {None}]
  /\ on \in [Cpu -> Proc \cup {None}]
  /\ lock \in Cpu \cup {None}
  /\ scan \in [Cpu -> Nat]
  /\ lk \in Cpu \cup {None, "device"}
  /\ ready \in BOOLEAN
  /\ device \in {"idle", "wakeup"}

(* Nobody runs on the stack of a slot that is free or being filled. *)
StacksAreUsed == \A c \in Cpu : on[c] # None => state[on[c]] \notin {"UNUSED", "EMBRYO"}

(* A process is in a system call only while it lives; init always does. *)
CallersLive ==
  /\ \A p \in Proc : pc[p] # "user" => state[p] \in Alive
  /\ state[initproc] \in Alive

(* The slot fork is filling is its own. *)
ForksOwnChild ==
  /\ \A p \in Proc : pc[p] = "fork" => child[p] \in Proc /\ state[child[p]] = "EMBRYO"
  /\ \A p, q \in Proc : pc[p] = "fork" /\ pc[q] = "fork" /\ child[p] = child[q] => p = q

NotOwnParent ==
  \A p \in Proc : state[p] \notin {"UNUSED", "EMBRYO"} /\ p # initproc => parent[p] # p

(* Who has checked the device, or is about to, holds its lock; so the      *)
(* handler has not come since.                                             *)
DeviceIsLocked ==
  /\ device = "wakeup" <=> lk = "device"
  /\ \A p \in Proc : pc[p] \in {"check", "sleep"} => lk \in Cpu
  /\ \A p, q \in Proc : pc[p] \in {"check", "sleep"} /\ pc[q] \in {"check", "sleep"} => p = q
  /\ \A p \in Proc : pc[p] = "sleep" => ~ready

SInv ==
  /\ TypeOK
  /\ OneStackEach
  /\ StacksAreUsed
  /\ CallersLive
  /\ ForksOwnChild
  /\ ParentIsAlive
  /\ NotOwnParent
  /\ DeviceIsLocked
  /\ NoLostWakeup
  /\ WaiterIsWoken

-----------------------------------------------------------------------------
(* Facts about the constants and the helpers. *)

(* The constants, spelled out. *)
LEMMA Constants ==
  /\ initproc \in Proc /\ initproc = 1
  /\ None \notin Proc /\ None \notin Cpu /\ None # Event /\ Event \notin Proc
  /\ "device" \notin Cpu /\ "device" # None
  /\ Killable \subseteq Proc /\ initproc \notin Killable
BY SchedulingAssumption DEF Proc, initproc

(* wakeup1 makes sleepers on the channel runnable and does nothing else. *)
LEMMA WakeupFacts ==
  ASSUME NEW s \in [Proc -> Alive \cup {"UNUSED", "EMBRYO", "ZOMBIE"}], NEW ch
  PROVE  /\ wakeup1(s, ch) \in [Proc -> Alive \cup {"UNUSED", "EMBRYO", "ZOMBIE"}]
         /\ \A p \in Proc : \/ wakeup1(s, ch)[p] = s[p] /\ ~(s[p] = "SLEEPING" /\ chan[p] = ch)
                            \/ /\ s[p] = "SLEEPING" /\ chan[p] = ch
                               /\ wakeup1(s, ch)[p] = "RUNNABLE"
BY Zenon DEF wakeup1, Alive

(* What exit does to the states of others: the parent, and init if it gets *)
(* a zombie, do not sleep in wait any more.                                *)
LEMMA ExitWakesFacts ==
  ASSUME TypeOK, NEW p \in Proc
  PROVE  /\ exitWakes(p) \in [Proc -> Alive \cup {"UNUSED", "EMBRYO", "ZOMBIE"}]
         /\ \A q \in Proc : \/ exitWakes(p)[q] = state[q]
                            \/ state[q] = "SLEEPING" /\ exitWakes(p)[q] = "RUNNABLE"
         /\ \A q \in Proc : exitWakes(p)[q] = "SLEEPING" => chan[q] # parent[p]
         /\ \A q, z \in Proc :
              exitWakes(p)[q] = "SLEEPING" /\ chan[q] = initproc
                => ~(parent[z] = p /\ state[z] = "ZOMBIE")
<1> DEFINE St == [Proc -> Alive \cup {"UNUSED", "EMBRYO", "ZOMBIE"}]
           s == wakeup1(state, parent[p])
           t == wakeup1(s, initproc)
<1>0. state \in St
  BY Zenon DEF TypeOK
<1>1. s \in St /\ \A q \in Proc :
        \/ s[q] = state[q] /\ ~(state[q] = "SLEEPING" /\ chan[q] = parent[p])
        \/ state[q] = "SLEEPING" /\ chan[q] = parent[p] /\ s[q] = "RUNNABLE"
  BY <1>0, WakeupFacts
<1>2. t \in St /\ \A q \in Proc :
        \/ t[q] = s[q] /\ ~(s[q] = "SLEEPING" /\ chan[q] = initproc)
        \/ s[q] = "SLEEPING" /\ chan[q] = initproc /\ t[q] = "RUNNABLE"
  BY <1>1, WakeupFacts
<1>3. exitWakes(p) = IF \E q \in Children(p) : s[q] = "ZOMBIE" THEN t ELSE s
  BY Zenon DEF exitWakes
<1>4. \A z \in Proc : parent[z] = p /\ state[z] = "ZOMBIE" => z \in Children(p) /\ s[z] = "ZOMBIE"
  BY <1>1, Zenon DEF Children
<1> HIDE DEF s, t
<1>5. CASE \E q \in Children(p) : s[q] = "ZOMBIE"
  <2>1. exitWakes(p) = t
    BY <1>3, <1>5, Zenon
  <2>2. QED
    BY <1>1, <1>2, <2>1
<1>6. CASE ~ \E q \in Children(p) : s[q] = "ZOMBIE"
  <2>1. exitWakes(p) = s
    BY <1>3, <1>6, Zenon
  <2>2. QED
    BY <1>1, <1>4, <1>6, <2>1, Zenon
<1>7. QED
  BY <1>5, <1>6, Zenon

(* The handler's wakeup changes states only, and only from asleep to       *)
(* runnable.                                                               *)
WakeupEffect ==
  /\ lock = None
  /\ \A p \in Proc : \/ state'[p] = state[p]
                     \/ state[p] = "SLEEPING" /\ state'[p] = "RUNNABLE"
  /\ on' = on /\ lock' = lock /\ parent' = parent /\ pc' = pc /\ child' = child

(* wakeup has this effect. *)
LEMMA WakeupStates ==
  ASSUME SInv, wakeup
  PROVE  WakeupEffect
<1>1. state \in [Proc -> Alive \cup {"UNUSED", "EMBRYO", "ZOMBIE"}]
  BY Zenon DEF SInv, TypeOK
<1>2. state' = wakeup1(state, Event)
  BY Zenon DEF wakeup
<1>3. \A p \in Proc : \/ state'[p] = state[p]
                      \/ state[p] = "SLEEPING" /\ state'[p] = "RUNNABLE"
  BY <1>1, <1>2, WakeupFacts
<1>4. QED
  BY <1>3, Zenon DEF WakeupEffect, wakeup, cpuVars, Free

(* What exit does to the table, process by process. *)
ExitEffect(c, p) ==
  /\ state[p] = "RUNNING" /\ on[c] = p /\ p # initproc /\ pc[p] = "user"
  /\ state'[p] = "ZOMBIE"
  /\ \A q \in Proc : q # p => \/ state'[q] = state[q]
                              \/ state[q] = "SLEEPING" /\ state'[q] = "RUNNABLE"
  /\ \A q \in Proc : parent[q] = p => parent'[q] = initproc
  /\ \A q \in Proc : parent[q] # p => parent'[q] = parent[q]
  /\ lock = None /\ lock' = c
  /\ on' = on /\ pc' = pc /\ child' = child

(* exit has this effect. *)
LEMMA ExitStates ==
  ASSUME SInv, NEW c \in Cpu, NEW p \in Proc, exit(c, p)
  PROVE  ExitEffect(c, p)
<1>1. TypeOK
  BY Zenon DEF SInv
<1>2. state[p] = "RUNNING" /\ on[c] = p
  BY Constants, Zenon DEF SInv, OneStackEach, exit, Runs
<1>3. state'[p] = "ZOMBIE" /\ \A q \in Proc \ {p} : state'[q] = exitWakes(p)[q]
  BY <1>1, ExitWakesFacts DEF exit
<1>4. \A q \in Proc : q # p => \/ state'[q] = state[q]
                               \/ state[q] = "SLEEPING" /\ state'[q] = "RUNNABLE"
  BY <1>1, <1>3, ExitWakesFacts
<1>5. QED
  BY <1>1, <1>2, <1>3, <1>4, Zenon DEF ExitEffect, exit, passChildren, Free

(* What the scheduler's loop does when it comes to a process to run. *)
Picks(c, q) ==
  /\ state[q] = "RUNNABLE"
  /\ on' = [on EXCEPT ![c] = q]
  /\ state' = [state EXCEPT ![q] = "RUNNING"]

ScanFrame(c) ==
  /\ on[c] = None /\ lock = c /\ scan[c] \in Proc
  /\ scan' = [scan EXCEPT ![c] = @ + 1]
  /\ UNCHANGED <<parent, chan, pc, child, lock, lk, ready, device>>

(* A round of the scheduler's loop picks a process or passes it by. *)
LEMMA ScanCases ==
  ASSUME NEW c \in Cpu, SchedScan(c)
  PROVE  /\ ScanFrame(c)
         /\ (\E q \in Proc : Picks(c, q)) \/ UNCHANGED <<on, state>>
BY Zenon DEF SchedScan, ScanFrame, Picks, deviceVars

(* The three ways a round of wait ends: it reaps a child, it has no child  *)
(* to wait for, or it sleeps.                                              *)
Reaps(p, z) ==
  /\ parent[z] = p /\ state[z] = "ZOMBIE"
  /\ state' = [state EXCEPT ![z] = "UNUSED"]
  /\ parent' = [parent EXCEPT ![z] = None]
  /\ chan' = [chan EXCEPT ![p] = None]
  /\ pc' = [pc EXCEPT ![p] = "user"]
  /\ lock' = None

GivesUp(p) ==
  /\ chan' = [chan EXCEPT ![p] = None]
  /\ pc' = [pc EXCEPT ![p] = "user"]
  /\ lock' = None
  /\ UNCHANGED <<state, parent>>

WaitSleeps(c, p) ==
  /\ chan' = [chan EXCEPT ![p] = p]
  /\ state' = [state EXCEPT ![p] = "SLEEPING"]
  /\ lock' = c
  /\ UNCHANGED <<parent, pc>>

WaitFrame(c, p) ==
  /\ on[c] = p /\ lock \in {None, c} /\ state[p] = "RUNNING" /\ pc[p] = "wait"
  /\ UNCHANGED <<child, on, scan, lk, ready, device>>

(* A round of wait ends in one of these ways. *)
LEMMA WaitCases ==
  ASSUME NEW c \in Cpu, NEW p \in Proc, wait(c, p)
  PROVE  /\ WaitFrame(c, p)
         /\ (\E z \in Proc : Reaps(p, z)) \/ GivesUp(p) \/ WaitSleeps(c, p)
BY Zenon DEF wait, Children, deviceVars, WaitFrame, Reaps, GivesUp, WaitSleeps

-----------------------------------------------------------------------------
(* Preservation, one lemma per part of the invariant. *)

(* Every step keeps the types. *)
LEMMA TypeStep ==
  ASSUME SInv, Next
  PROVE  TypeOK'
<1>0. SInv
  OBVIOUS
<1>1. ASSUME NEW c \in Cpu, SchedAcquire(c) PROVE TypeOK'
  BY <1>0, <1>1, Zenon DEF SInv, TypeOK, SchedAcquire, tableVars, deviceVars
<1>2. ASSUME NEW c \in Cpu, SchedScan(c) PROVE TypeOK'
  <2>0. ScanFrame(c)
    BY <1>2, ScanCases, Zenon
  <2>1. ASSUME NEW q \in Proc, Picks(c, q) PROVE TypeOK'
    BY <1>0, <2>0, <2>1 DEF SInv, TypeOK, Alive, ScanFrame, Picks
  <2>2. CASE on' = on /\ state' = state
    BY <1>0, <2>0, <2>2 DEF SInv, TypeOK, ScanFrame
  <2>3. QED
    BY <1>2, <2>1, <2>2, ScanCases, Zenon
<1>3. ASSUME NEW c \in Cpu, SchedRelease(c) PROVE TypeOK'
  BY <1>0, <1>3, Zenon DEF SInv, TypeOK, SchedRelease, tableVars, deviceVars
<1>4. ASSUME NEW c \in Cpu, swtch(c) PROVE TypeOK'
  BY <1>0, <1>4, Zenon DEF SInv, TypeOK, swtch, tableVars, deviceVars
<1>5. ASSUME NEW c \in Cpu, Resume(c) PROVE TypeOK'
  BY <1>0, <1>5, Zenon DEF SInv, TypeOK, Resume, deviceVars
<1>6. ASSUME NEW c \in Cpu, NEW p \in Proc, yield(c, p) PROVE TypeOK'
  BY <1>0, <1>6, Zenon DEF SInv, TypeOK, Alive, yield, deviceVars
<1>7. ASSUME NEW c \in Cpu, NEW p \in Proc, ForkFails(c, p) PROVE TypeOK'
  BY <1>0, <1>7, Zenon DEF SInv, TypeOK, ForkFails, cpuVars, deviceVars
<1>8. ASSUME NEW c \in Cpu, NEW p \in Proc, ForkHalf(c, p) PROVE TypeOK'
  BY <1>0, <1>8, Zenon DEF SInv, TypeOK, ForkHalf, cpuVars, deviceVars
<1>9. ASSUME NEW c \in Cpu, NEW p \in Proc, ForkDone(c, p) PROVE TypeOK'
  BY <1>0, <1>9, Zenon DEF SInv, TypeOK, Alive, ForkDone, cpuVars, deviceVars
<1>10. ASSUME NEW c \in Cpu, NEW p \in Proc, wait(c, p) PROVE TypeOK'
  <2>0. WaitFrame(c, p)
    BY <1>10, WaitCases, Zenon
  <2>1. ASSUME NEW z \in Proc, Reaps(p, z) PROVE TypeOK'
    BY <1>0, <2>0, <2>1, Zenon DEF SInv, TypeOK, WaitFrame, Reaps
  <2>2. CASE GivesUp(p)
    BY <1>0, <2>0, <2>2, Zenon DEF SInv, TypeOK, WaitFrame, GivesUp
  <2>3. CASE WaitSleeps(c, p)
    BY <1>0, <2>0, <2>3, Zenon DEF SInv, TypeOK, Alive, WaitFrame, WaitSleeps
  <2>4. QED
    BY <1>10, <2>1, <2>2, <2>3, WaitCases, Zenon
<1>11. ASSUME NEW c \in Cpu, NEW p \in Proc, ReadAcquire(c, p) PROVE TypeOK'
  BY <1>0, <1>11, Zenon DEF SInv, TypeOK, ReadAcquire, tableVars, cpuVars
<1>12. ASSUME NEW c \in Cpu, NEW p \in Proc, ReadCheck(c, p) PROVE TypeOK'
  <2>1. state' = state /\ parent' = parent /\ chan' = chan /\ child' = child
        /\ on' = on /\ lock' = lock /\ scan' = scan /\ device' = device
    BY <1>12, Zenon DEF ReadCheck, tableVars, cpuVars
  <2>2. CASE lk' = None /\ ready' = FALSE /\ pc' = [pc EXCEPT ![p] = "user"]
    BY <1>0, <2>1, <2>2, Zenon DEF SInv, TypeOK
  <2>3. CASE lk' = lk /\ ready' = ready /\ pc' = [pc EXCEPT ![p] = "sleep"]
    BY <1>0, <2>1, <2>3, Zenon DEF SInv, TypeOK
  <2>4. QED
    BY <1>12, <2>2, <2>3, Zenon DEF ReadCheck
<1>13. ASSUME NEW c \in Cpu, NEW p \in Proc, sleep(c, p) PROVE TypeOK'
  BY <1>0, <1>13, Zenon DEF SInv, TypeOK, Alive, sleep
<1>14. ASSUME NEW c \in Cpu, NEW p \in Proc, WaitCall(c, p) PROVE TypeOK'
  BY <1>0, <1>14, Zenon DEF SInv, TypeOK, WaitCall, tableVars, cpuVars, deviceVars
<1>15. ASSUME NEW c \in Cpu, NEW p \in Proc, ReadCall(c, p) PROVE TypeOK'
  BY <1>0, <1>15, Zenon DEF SInv, TypeOK, ReadCall, tableVars, cpuVars, deviceVars
<1>16. ASSUME NEW c \in Cpu, NEW p \in Proc, exit(c, p) PROVE TypeOK'
  BY <1>0, <1>16, Constants, ExitWakesFacts, Zenon
     DEF SInv, TypeOK, exit, passChildren, Runs, deviceVars
<1>17. ASSUME NEW c \in Cpu, NEW p \in Proc, NEW q \in Proc, allocproc(c, p, q) PROVE TypeOK'
  BY <1>0, <1>17, Zenon DEF SInv, TypeOK, allocproc, cpuVars, deviceVars
<1>18. ASSUME NEW c \in Cpu, NEW p \in Proc, NEW q \in Killable, kill(c, p, q) PROVE TypeOK'
  BY <1>0, <1>18, Zenon DEF SInv, TypeOK, Alive, kill, cpuVars, deviceVars
<1>19. ASSUME Interrupt PROVE TypeOK'
  BY <1>0, <1>19, Zenon DEF SInv, TypeOK, Interrupt, tableVars, cpuVars
<1>20. ASSUME wakeup PROVE TypeOK'
  BY <1>0, <1>20, WakeupFacts, Zenon DEF SInv, TypeOK, wakeup, cpuVars
<1>21. QED
  BY <1>1, <1>2, <1>3, <1>4, <1>5, <1>6, <1>7, <1>8, <1>9, <1>10, <1>11, <1>12, <1>13, <1>14,
     <1>15, <1>16, <1>17, <1>18, <1>19, <1>20, ZenonT(30)
     DEF Next, Switch, Kernel, Call

(* A stack has one user, which nobody else can find. *)
LEMMA StackStep ==
  ASSUME SInv, Next, TypeOK'
  PROVE  (OneStackEach /\ StacksAreUsed)'
<1>0. SInv
  OBVIOUS
<1>1. ASSUME NEW c \in Cpu, SchedAcquire(c) PROVE (OneStackEach /\ StacksAreUsed)'
  BY <1>0, <1>1, Constants, Zenon
     DEF SInv, OneStackEach, StacksAreUsed, SchedAcquire, Free, tableVars, deviceVars
<1>2. ASSUME NEW c \in Cpu, SchedScan(c) PROVE (OneStackEach /\ StacksAreUsed)'
  <2>0. ScanFrame(c)
    BY <1>2, ScanCases, Zenon
  <2>1. ASSUME NEW q \in Proc, Picks(c, q) PROVE (OneStackEach /\ StacksAreUsed)'
    BY <1>0, <2>0, <2>1 DEF SInv, OneStackEach, StacksAreUsed, ScanFrame, Picks
  <2>2. CASE on' = on /\ state' = state
    BY <1>0, <2>0, <2>2, Zenon DEF SInv, OneStackEach, StacksAreUsed, ScanFrame
  <2>3. QED
    BY <1>2, <2>1, <2>2, ScanCases, Zenon
<1>3. ASSUME NEW c \in Cpu, SchedRelease(c) PROVE (OneStackEach /\ StacksAreUsed)'
  BY <1>0, <1>3, Zenon
     DEF SInv, OneStackEach, StacksAreUsed, SchedRelease, tableVars, deviceVars
<1>4. ASSUME NEW c \in Cpu, swtch(c) PROVE (OneStackEach /\ StacksAreUsed)'
  BY <1>0, <1>4 DEF SInv, OneStackEach, StacksAreUsed, swtch, tableVars, deviceVars
<1>5. ASSUME NEW c \in Cpu, Resume(c) PROVE (OneStackEach /\ StacksAreUsed)'
  BY <1>0, <1>5, Zenon DEF SInv, OneStackEach, StacksAreUsed, Resume, deviceVars
<1>6. ASSUME NEW c \in Cpu, NEW p \in Proc, yield(c, p) PROVE (OneStackEach /\ StacksAreUsed)'
  BY <1>0, <1>6, Constants
     DEF SInv, OneStackEach, StacksAreUsed, yield, Free, Interruptible, User, Runs, deviceVars
<1>7. ASSUME NEW c \in Cpu, NEW p \in Proc, ForkFails(c, p) PROVE (OneStackEach /\ StacksAreUsed)'
  BY <1>0, <1>7
     DEF SInv, OneStackEach, StacksAreUsed, ForksOwnChild, ForkFails, Runs, cpuVars, deviceVars
<1>8. ASSUME NEW c \in Cpu, NEW p \in Proc, ForkDone(c, p) PROVE (OneStackEach /\ StacksAreUsed)'
  BY <1>0, <1>8
     DEF SInv, OneStackEach, StacksAreUsed, ForksOwnChild, ForkDone, Runs, cpuVars, deviceVars
<1>9. ASSUME NEW c \in Cpu, NEW p \in Proc, wait(c, p) PROVE (OneStackEach /\ StacksAreUsed)'
  <2>0. WaitFrame(c, p)
    BY <1>9, WaitCases, Zenon
  <2>1. ASSUME NEW z \in Proc, Reaps(p, z) PROVE (OneStackEach /\ StacksAreUsed)'
    BY <1>0, <2>0, <2>1, Constants DEF SInv, OneStackEach, StacksAreUsed, WaitFrame, Reaps
  <2>2. CASE GivesUp(p)
    BY <1>0, <2>0, <2>2, Zenon DEF SInv, OneStackEach, StacksAreUsed, WaitFrame, GivesUp
  <2>3. CASE WaitSleeps(c, p)
    BY <1>0, <2>0, <2>3, Constants DEF SInv, OneStackEach, StacksAreUsed, WaitFrame, WaitSleeps
  <2>4. QED
    BY <1>9, <2>1, <2>2, <2>3, WaitCases, Zenon
<1>10. ASSUME NEW c \in Cpu, NEW p \in Proc, sleep(c, p) PROVE (OneStackEach /\ StacksAreUsed)'
  BY <1>0, <1>10, Constants DEF SInv, OneStackEach, StacksAreUsed, sleep, Free, Runs
<1>11. ASSUME NEW c \in Cpu, NEW p \in Proc, exit(c, p) PROVE (OneStackEach /\ StacksAreUsed)'
  <2>1. ExitEffect(c, p)
    BY <1>0, <1>11, ExitStates, Zenon
  <2>2. SUFFICES ASSUME NEW d \in Cpu, on[d] # None
                 PROVE  /\ \A e \in Cpu : on[e] = on[d] => e = d
                        /\ state'[on[d]] = "RUNNING" \/ lock' = d
                        /\ state'[on[d]] \notin {"UNUSED", "EMBRYO"}
    BY <2>1, Zenon DEF ExitEffect, OneStackEach, StacksAreUsed
  <2>3. /\ on[d] \in Proc /\ state[on[d]] = "RUNNING"
        /\ \A e \in Cpu : on[e] = on[d] => e = d
    BY <1>0, <2>1, <2>2, Constants DEF SInv, TypeOK, OneStackEach, ExitEffect
  <2>4. QED
    BY <2>1, <2>3, Zenon DEF ExitEffect
<1>12. ASSUME NEW c \in Cpu, NEW p \in Proc, NEW q \in Proc, allocproc(c, p, q)
       PROVE  (OneStackEach /\ StacksAreUsed)'
  BY <1>0, <1>12
     DEF SInv, OneStackEach, StacksAreUsed, allocproc, User, Runs, cpuVars, deviceVars
<1>13. ASSUME NEW c \in Cpu, NEW p \in Proc, NEW q \in Killable, kill(c, p, q)
       PROVE  (OneStackEach /\ StacksAreUsed)'
  BY <1>0, <1>13 DEF SInv, OneStackEach, StacksAreUsed, kill, User, Runs, cpuVars, deviceVars
<1>14. ASSUME wakeup PROVE (OneStackEach /\ StacksAreUsed)'
  <2>1. WakeupEffect
    BY <1>0, <1>14, WakeupStates, Zenon
  <2>2. SUFFICES ASSUME NEW d \in Cpu, on[d] # None
                 PROVE  /\ \A e \in Cpu : on[e] = on[d] => e = d
                        /\ state'[on[d]] = "RUNNING" \/ lock' = d
                        /\ state'[on[d]] \notin {"UNUSED", "EMBRYO"}
    BY <2>1, Zenon DEF WakeupEffect, OneStackEach, StacksAreUsed
  <2>3. /\ on[d] \in Proc /\ state[on[d]] = "RUNNING"
        /\ \A e \in Cpu : on[e] = on[d] => e = d
    BY <1>0, <2>1, <2>2, Constants DEF SInv, TypeOK, OneStackEach, WakeupEffect
  <2>4. QED
    BY <2>1, <2>3, Zenon DEF WakeupEffect
<1>15. ASSUME UNCHANGED <<on, state, lock>> PROVE (OneStackEach /\ StacksAreUsed)'
  BY <1>0, <1>15, Zenon DEF SInv, OneStackEach, StacksAreUsed
<1>16. QED
  BY <1>1, <1>2, <1>3, <1>4, <1>5, <1>6, <1>7, <1>8, <1>9, <1>10, <1>11, <1>12, <1>13, <1>14,
     <1>15, ZenonT(30)
     DEF Next, Switch, Kernel, Call, ForkHalf, ReadAcquire, ReadCheck, WaitCall, ReadCall,
         Interrupt, tableVars, cpuVars, deviceVars

(* Who is in a call lives, and init does. *)
LEMMA CallersStep ==
  ASSUME SInv, Next, TypeOK'
  PROVE  CallersLive'
<1>0. SInv
  OBVIOUS
<1>1. ASSUME NEW c \in Cpu, SchedScan(c) PROVE CallersLive'
  BY <1>0, <1>1, Constants DEF SInv, TypeOK, CallersLive, SchedScan, deviceVars
<1>2. ASSUME NEW c \in Cpu, NEW p \in Proc, yield(c, p) PROVE CallersLive'
  BY <1>0, <1>2 DEF SInv, TypeOK, CallersLive, yield, deviceVars
<1>3. ASSUME NEW c \in Cpu, NEW p \in Proc, ForkFails(c, p) PROVE CallersLive'
  BY <1>0, <1>3 DEF SInv, Alive, CallersLive, ForksOwnChild, ForkFails, cpuVars, deviceVars
<1>4. ASSUME NEW c \in Cpu, NEW p \in Proc, ForkHalf(c, p) PROVE CallersLive'
  BY <1>0, <1>4 DEF SInv, CallersLive, ForkHalf, cpuVars, deviceVars
<1>5. ASSUME NEW c \in Cpu, NEW p \in Proc, ForkDone(c, p) PROVE CallersLive'
  BY <1>0, <1>5 DEF SInv, TypeOK, CallersLive, ForkDone, cpuVars, deviceVars
<1>6. ASSUME NEW c \in Cpu, NEW p \in Proc, wait(c, p) PROVE CallersLive'
  BY <1>0, <1>6, Constants DEF SInv, TypeOK, Alive, CallersLive, wait, deviceVars
<1>7. ASSUME NEW c \in Cpu, NEW p \in Proc, ReadAcquire(c, p) PROVE CallersLive'
  BY <1>0, <1>7 DEF SInv, CallersLive, ReadAcquire, tableVars, cpuVars
<1>8. ASSUME NEW c \in Cpu, NEW p \in Proc, ReadCheck(c, p) PROVE CallersLive'
  BY <1>0, <1>8 DEF SInv, TypeOK, CallersLive, ReadCheck, tableVars, cpuVars
<1>9. ASSUME NEW c \in Cpu, NEW p \in Proc, sleep(c, p) PROVE CallersLive'
  BY <1>0, <1>9 DEF SInv, TypeOK, CallersLive, sleep
<1>10. ASSUME NEW c \in Cpu, NEW p \in Proc, WaitCall(c, p) PROVE CallersLive'
  BY <1>0, <1>10, Constants
     DEF SInv, TypeOK, OneStackEach, CallersLive, WaitCall, User, Runs, tableVars, cpuVars,
         deviceVars
<1>11. ASSUME NEW c \in Cpu, NEW p \in Proc, ReadCall(c, p) PROVE CallersLive'
  BY <1>0, <1>11, Constants
     DEF SInv, TypeOK, OneStackEach, CallersLive, ReadCall, User, Runs, tableVars, cpuVars,
         deviceVars
<1>12. ASSUME NEW c \in Cpu, NEW p \in Proc, exit(c, p) PROVE CallersLive'
  BY <1>0, <1>12, Constants, ExitWakesFacts DEF SInv, CallersLive, exit, Runs, deviceVars
<1>13. ASSUME NEW c \in Cpu, NEW p \in Proc, NEW q \in Proc, allocproc(c, p, q) PROVE CallersLive'
  BY <1>0, <1>13, Constants
     DEF SInv, Alive, OneStackEach, CallersLive, allocproc, User, Runs, cpuVars, deviceVars
<1>14. ASSUME NEW c \in Cpu, NEW p \in Proc, NEW q \in Killable, kill(c, p, q) PROVE CallersLive'
  BY <1>0, <1>14 DEF SInv, TypeOK, CallersLive, kill, cpuVars, deviceVars
<1>15. ASSUME wakeup PROVE CallersLive'
  BY <1>0, <1>15, Constants, WakeupFacts DEF SInv, CallersLive, TypeOK, wakeup, cpuVars
<1>16. ASSUME UNCHANGED <<state, pc>> PROVE CallersLive'
  BY <1>0, <1>16, Zenon DEF SInv, CallersLive
<1>17. QED
  BY <1>1, <1>2, <1>3, <1>4, <1>5, <1>6, <1>7, <1>8, <1>9, <1>10, <1>11, <1>12, <1>13, <1>14,
     <1>15, <1>16, ZenonT(30)
     DEF Next, Switch, Kernel, Call, SchedAcquire, SchedRelease, swtch, Resume, Interrupt,
         tableVars, cpuVars, deviceVars

(* A fork keeps its child to itself. *)
LEMMA ForkStep ==
  ASSUME SInv, Next, TypeOK'
  PROVE  ForksOwnChild'
<1>0. SInv
  OBVIOUS
<1>1. ASSUME NEW c \in Cpu, SchedScan(c) PROVE ForksOwnChild'
  <2>0. ScanFrame(c)
    BY <1>1, ScanCases
  <2>1. ASSUME NEW q \in Proc, Picks(c, q) PROVE ForksOwnChild'
    BY <1>0, <2>0, <2>1 DEF SInv, ForksOwnChild, ScanFrame, Picks
  <2>2. CASE on' = on /\ state' = state
    BY <1>0, <2>0, <2>2, Zenon DEF SInv, ForksOwnChild, ScanFrame
  <2>3. QED
    BY <1>1, <2>1, <2>2, ScanCases, Zenon
<1>2. ASSUME NEW c \in Cpu, NEW p \in Proc, yield(c, p) PROVE ForksOwnChild'
  BY <1>0, <1>2, Constants
     DEF SInv, OneStackEach, ForksOwnChild, yield, Interruptible, User, Runs, deviceVars
<1>3. ASSUME NEW c \in Cpu, NEW p \in Proc, ForkFails(c, p) PROVE ForksOwnChild'
  BY <1>0, <1>3 DEF SInv, TypeOK, ForksOwnChild, ForkFails, cpuVars, deviceVars
<1>4. ASSUME NEW c \in Cpu, NEW p \in Proc, ForkHalf(c, p) PROVE ForksOwnChild'
  BY <1>0, <1>4 DEF SInv, TypeOK, ForksOwnChild, ForkHalf, cpuVars, deviceVars
<1>5. ASSUME NEW c \in Cpu, NEW p \in Proc, ForkDone(c, p) PROVE ForksOwnChild'
  BY <1>0, <1>5 DEF SInv, TypeOK, ForksOwnChild, ForkDone, cpuVars, deviceVars
<1>6. ASSUME NEW c \in Cpu, NEW p \in Proc, wait(c, p) PROVE ForksOwnChild'
  <2>0. WaitFrame(c, p)
    BY <1>6, WaitCases
  <2>1. ASSUME NEW z \in Proc, Reaps(p, z) PROVE ForksOwnChild'
    BY <1>0, <2>0, <2>1 DEF SInv, ForksOwnChild, WaitFrame, Reaps
  <2>2. CASE GivesUp(p)
    BY <1>0, <2>0, <2>2 DEF SInv, ForksOwnChild, WaitFrame, GivesUp
  <2>3. CASE WaitSleeps(c, p)
    BY <1>0, <2>0, <2>3 DEF SInv, ForksOwnChild, WaitFrame, WaitSleeps
  <2>4. QED
    BY <1>6, <2>1, <2>2, <2>3, WaitCases, Zenon
<1>7. ASSUME NEW c \in Cpu, NEW p \in Proc, ReadAcquire(c, p) PROVE ForksOwnChild'
  BY <1>0, <1>7 DEF SInv, ForksOwnChild, ReadAcquire, tableVars, cpuVars
<1>8. ASSUME NEW c \in Cpu, NEW p \in Proc, ReadCheck(c, p) PROVE ForksOwnChild'
  BY <1>0, <1>8 DEF SInv, TypeOK, ForksOwnChild, ReadCheck, tableVars, cpuVars
<1>9. ASSUME NEW c \in Cpu, NEW p \in Proc, sleep(c, p) PROVE ForksOwnChild'
  BY <1>0, <1>9 DEF SInv, Alive, CallersLive, ForksOwnChild, sleep
<1>10. ASSUME NEW c \in Cpu, NEW p \in Proc, WaitCall(c, p) PROVE ForksOwnChild'
  BY <1>0, <1>10 DEF SInv, ForksOwnChild, WaitCall, tableVars, cpuVars, deviceVars
<1>11. ASSUME NEW c \in Cpu, NEW p \in Proc, ReadCall(c, p) PROVE ForksOwnChild'
  BY <1>0, <1>11 DEF SInv, ForksOwnChild, ReadCall, tableVars, cpuVars, deviceVars
<1>12. ASSUME NEW c \in Cpu, NEW p \in Proc, exit(c, p) PROVE ForksOwnChild'
  <2>1. ExitEffect(c, p)
    BY <1>0, <1>12, ExitStates
  <2>2. SUFFICES ASSUME NEW q \in Proc, pc[q] = "fork"
                 PROVE  state'[child[q]] = "EMBRYO"
    BY <1>0, <2>1 DEF SInv, ForksOwnChild, ExitEffect
  <2>3. child[q] \in Proc /\ state[child[q]] = "EMBRYO"
    BY <1>0, <2>2, Zenon DEF SInv, ForksOwnChild
  <2>4. QED
    BY <2>1, <2>3, Zenon DEF ExitEffect
<1>13. ASSUME NEW c \in Cpu, NEW p \in Proc, NEW q \in Proc, allocproc(c, p, q)
       PROVE  ForksOwnChild'
  BY <1>0, <1>13 DEF SInv, TypeOK, ForksOwnChild, allocproc, cpuVars, deviceVars
<1>14. ASSUME NEW c \in Cpu, NEW p \in Proc, NEW q \in Killable, kill(c, p, q)
       PROVE  ForksOwnChild'
  BY <1>0, <1>14 DEF SInv, ForksOwnChild, kill, cpuVars, deviceVars
<1>15. ASSUME wakeup PROVE ForksOwnChild'
  <2>1. WakeupEffect
    BY <1>0, <1>15, WakeupStates
  <2>2. SUFFICES ASSUME NEW q \in Proc, pc[q] = "fork"
                 PROVE  state'[child[q]] = "EMBRYO"
    BY <1>0, <2>1, Zenon DEF SInv, ForksOwnChild, WakeupEffect
  <2>3. child[q] \in Proc /\ state[child[q]] = "EMBRYO"
    BY <1>0, <2>2, Zenon DEF SInv, ForksOwnChild
  <2>4. QED
    BY <2>1, <2>3, Zenon DEF WakeupEffect
<1>16. ASSUME UNCHANGED <<state, pc, child>> PROVE ForksOwnChild'
  BY <1>0, <1>16, Zenon DEF SInv, ForksOwnChild
<1>17. QED
  BY <1>1, <1>2, <1>3, <1>4, <1>5, <1>6, <1>7, <1>8, <1>9, <1>10, <1>11, <1>12, <1>13, <1>14,
     <1>15, <1>16, ZenonT(30)
     DEF Next, Switch, Kernel, Call, SchedAcquire, SchedRelease, swtch, Resume, Interrupt,
         tableVars, cpuVars, deviceVars

(* The parent of a process can call wait, and is another process. *)
LEMMA ParentStep ==
  ASSUME SInv, Next, TypeOK'
  PROVE  (ParentIsAlive /\ NotOwnParent)'
<1>0. SInv
  OBVIOUS
<1>1. ASSUME NEW c \in Cpu, SchedScan(c) PROVE (ParentIsAlive /\ NotOwnParent)'
  <2>0. ScanFrame(c)
    BY <1>1, ScanCases
  <2>1. ASSUME NEW q \in Proc, Picks(c, q) PROVE (ParentIsAlive /\ NotOwnParent)'
    BY <1>0, <2>0, <2>1 DEF SInv, ParentIsAlive, NotOwnParent, ScanFrame, Picks
  <2>2. CASE on' = on /\ state' = state
    BY <1>0, <2>0, <2>2, Zenon DEF SInv, ParentIsAlive, NotOwnParent, ScanFrame
  <2>3. QED
    BY <1>1, <2>1, <2>2, ScanCases
<1>2. ASSUME NEW c \in Cpu, NEW p \in Proc, yield(c, p) PROVE (ParentIsAlive /\ NotOwnParent)'
  BY <1>0, <1>2, Constants
     DEF SInv, OneStackEach, ParentIsAlive, NotOwnParent, yield, Interruptible, User, Runs,
         deviceVars
<1>3. ASSUME NEW c \in Cpu, NEW p \in Proc, ForkFails(c, p) PROVE (ParentIsAlive /\ NotOwnParent)'
  BY <1>0, <1>3
     DEF SInv, ForksOwnChild, ParentIsAlive, NotOwnParent, ForkFails, cpuVars, deviceVars
<1>4. ASSUME NEW c \in Cpu, NEW p \in Proc, ForkHalf(c, p) PROVE (ParentIsAlive /\ NotOwnParent)'
  BY <1>0, <1>4
     DEF SInv, ForksOwnChild, ParentIsAlive, NotOwnParent, ForkHalf, cpuVars, deviceVars
<1>5. ASSUME NEW c \in Cpu, NEW p \in Proc, ForkDone(c, p) PROVE (ParentIsAlive /\ NotOwnParent)'
  BY <1>0, <1>5
     DEF SInv, TypeOK, Alive, CallersLive, ForksOwnChild, ParentIsAlive, NotOwnParent, ForkDone,
          cpuVars, deviceVars
<1>6. ASSUME NEW c \in Cpu, NEW p \in Proc, wait(c, p) PROVE (ParentIsAlive /\ NotOwnParent)'
  <2>0. WaitFrame(c, p)
    BY <1>6, WaitCases
  <2>1. ASSUME NEW z \in Proc, Reaps(p, z) PROVE (ParentIsAlive /\ NotOwnParent)'
    BY <1>0, <2>0, <2>1 DEF SInv, TypeOK, ParentIsAlive, NotOwnParent, WaitFrame, Reaps
  <2>2. CASE GivesUp(p)
    BY <1>0, <2>0, <2>2, Zenon DEF SInv, ParentIsAlive, NotOwnParent, WaitFrame, GivesUp
  <2>3. CASE WaitSleeps(c, p)
    BY <1>0, <2>0, <2>3 DEF SInv, ParentIsAlive, NotOwnParent, WaitFrame, WaitSleeps
  <2>4. QED
    BY <1>6, <2>1, <2>2, <2>3, WaitCases
<1>7. ASSUME NEW c \in Cpu, NEW p \in Proc, sleep(c, p) PROVE (ParentIsAlive /\ NotOwnParent)'
  BY <1>0, <1>7 DEF SInv, Alive, CallersLive, ParentIsAlive, NotOwnParent, sleep
<1>8. ASSUME NEW c \in Cpu, NEW p \in Proc, exit(c, p) PROVE (ParentIsAlive /\ NotOwnParent)'
  <2>1. ExitEffect(c, p)
    BY <1>0, <1>8, ExitStates
  <2>2. \A q \in Proc : q # p /\ state[q] \in Alive => state'[q] \in Alive
    BY <2>1, Zenon DEF ExitEffect, Alive
  <2>3. SUFFICES ASSUME NEW r \in Proc, state'[r] \notin {"UNUSED", "EMBRYO"}, r # initproc
                 PROVE  parent'[r] \in Proc /\ state'[parent'[r]] \in Alive /\ parent'[r] # r
    BY Zenon DEF ParentIsAlive, NotOwnParent, Alive
  <2>4. state[r] \notin {"UNUSED", "EMBRYO"}
    BY <2>1, <2>3, Zenon DEF ExitEffect
  <2>5. parent[r] \in Proc /\ state[parent[r]] \in Alive /\ parent[r] # r
    BY <1>0, <2>3, <2>4, Zenon DEF SInv, TypeOK, ParentIsAlive, NotOwnParent
  <2>6. CASE parent[r] = p
    BY <1>0, <2>1, <2>2, <2>3, <2>6, Constants, Zenon DEF SInv, CallersLive, ExitEffect
  <2>7. CASE parent[r] # p
    BY <2>1, <2>2, <2>5, <2>7, Zenon DEF ExitEffect
  <2>8. QED
    BY <2>6, <2>7, Zenon
<1>9. ASSUME NEW c \in Cpu, NEW p \in Proc, NEW q \in Proc, allocproc(c, p, q)
      PROVE  (ParentIsAlive /\ NotOwnParent)'
  BY <1>0, <1>9 DEF SInv, ParentIsAlive, NotOwnParent, allocproc, cpuVars, deviceVars
<1>10. ASSUME NEW c \in Cpu, NEW p \in Proc, NEW q \in Killable, kill(c, p, q)
       PROVE  (ParentIsAlive /\ NotOwnParent)'
  BY <1>0, <1>10 DEF SInv, ParentIsAlive, NotOwnParent, kill, cpuVars, deviceVars
<1>11. ASSUME wakeup PROVE (ParentIsAlive /\ NotOwnParent)'
  <2>1. WakeupEffect
    BY <1>0, <1>11, WakeupStates
  <2>2. QED
    BY <1>0, <2>1, Zenon DEF SInv, ParentIsAlive, NotOwnParent, WakeupEffect
<1>12. ASSUME UNCHANGED <<state, parent>> PROVE (ParentIsAlive /\ NotOwnParent)'
  BY <1>0, <1>12, Zenon DEF SInv, ParentIsAlive, NotOwnParent
<1>13. QED
  BY <1>1, <1>2, <1>3, <1>4, <1>5, <1>6, <1>7, <1>8, <1>9, <1>10, <1>11, <1>12, ZenonT(30)
     DEF Next, Switch, Kernel, Call, SchedAcquire, SchedRelease, swtch, Resume, ReadAcquire,
         ReadCheck, WaitCall, ReadCall, Interrupt, tableVars, cpuVars, deviceVars

(* The lock of the device is held from the check to the sleep. *)
LEMMA DeviceStep ==
  ASSUME SInv, Next, TypeOK'
  PROVE  DeviceIsLocked'
<1>0. SInv
  OBVIOUS
<1>1. ASSUME NEW c \in Cpu, NEW p \in Proc, ForkFails(c, p) PROVE DeviceIsLocked'
  BY <1>0, <1>1 DEF SInv, DeviceIsLocked, ForkFails, Runs, cpuVars, deviceVars
<1>2. ASSUME NEW c \in Cpu, NEW p \in Proc, ForkHalf(c, p) PROVE DeviceIsLocked'
  BY <1>0, <1>2 DEF SInv, DeviceIsLocked, ForkHalf, Runs, cpuVars, deviceVars
<1>3. ASSUME NEW c \in Cpu, NEW p \in Proc, ForkDone(c, p) PROVE DeviceIsLocked'
  BY <1>0, <1>3 DEF SInv, TypeOK, DeviceIsLocked, ForkDone, Runs, cpuVars, deviceVars
<1>4. ASSUME NEW c \in Cpu, NEW p \in Proc, wait(c, p) PROVE DeviceIsLocked'
  BY <1>0, <1>4 DEF SInv, TypeOK, DeviceIsLocked, wait, deviceVars
<1>5. ASSUME NEW c \in Cpu, NEW p \in Proc, ReadAcquire(c, p) PROVE DeviceIsLocked'
  BY <1>0, <1>5, Constants DEF SInv, DeviceIsLocked, ReadAcquire, Runs, tableVars, cpuVars
<1>6. ASSUME NEW c \in Cpu, NEW p \in Proc, ReadCheck(c, p) PROVE DeviceIsLocked'
  BY <1>0, <1>6, Constants DEF SInv, TypeOK, DeviceIsLocked, ReadCheck, Runs, tableVars, cpuVars
<1>7. ASSUME NEW c \in Cpu, NEW p \in Proc, sleep(c, p) PROVE DeviceIsLocked'
  BY <1>0, <1>7, Constants DEF SInv, TypeOK, DeviceIsLocked, sleep, Runs
<1>8. ASSUME NEW c \in Cpu, NEW p \in Proc, WaitCall(c, p) PROVE DeviceIsLocked'
  BY <1>0, <1>8 DEF SInv, DeviceIsLocked, WaitCall, User, Runs, tableVars, cpuVars, deviceVars
<1>9. ASSUME NEW c \in Cpu, NEW p \in Proc, ReadCall(c, p) PROVE DeviceIsLocked'
  BY <1>0, <1>9 DEF SInv, DeviceIsLocked, ReadCall, User, Runs, tableVars, cpuVars, deviceVars
<1>10. ASSUME NEW c \in Cpu, NEW p \in Proc, NEW q \in Proc, allocproc(c, p, q)
       PROVE  DeviceIsLocked'
  BY <1>0, <1>10 DEF SInv, DeviceIsLocked, allocproc, User, Runs, cpuVars, deviceVars
<1>11. ASSUME Interrupt PROVE DeviceIsLocked'
  BY <1>0, <1>11, Constants, Zenon DEF SInv, DeviceIsLocked, Interrupt, tableVars, cpuVars
<1>12. ASSUME wakeup PROVE DeviceIsLocked'
  BY <1>0, <1>12, Constants, Zenon DEF SInv, DeviceIsLocked, wakeup, cpuVars
<1>13. ASSUME UNCHANGED <<pc, lk, ready, device>> PROVE DeviceIsLocked'
  BY <1>0, <1>13, Zenon DEF SInv, DeviceIsLocked
<1>14. QED
  BY <1>1, <1>2, <1>3, <1>4, <1>5, <1>6, <1>7, <1>8, <1>9, <1>10, <1>11, <1>12, <1>13,
     ZenonT(30)
     DEF Next, Switch, Kernel, Call, SchedAcquire, SchedScan, SchedRelease, swtch, Resume,
         yield, exit, kill, tableVars, cpuVars, deviceVars

(* No process sleeps on the device past the handler's wakeup. *)
LEMMA WakeupStep ==
  ASSUME SInv, Next, TypeOK'
  PROVE  NoLostWakeup'
<1>0. SInv
  OBVIOUS
<1>1. ASSUME NEW c \in Cpu, SchedScan(c) PROVE NoLostWakeup'
  BY <1>0, <1>1 DEF SInv, TypeOK, DeviceIsLocked, NoLostWakeup, SchedScan, deviceVars
<1>2. ASSUME NEW c \in Cpu, Resume(c) PROVE NoLostWakeup'
  BY <1>0, <1>2 DEF SInv, DeviceIsLocked, NoLostWakeup, Resume, deviceVars
<1>3. ASSUME NEW c \in Cpu, NEW p \in Proc, yield(c, p) PROVE NoLostWakeup'
  BY <1>0, <1>3 DEF SInv, DeviceIsLocked, NoLostWakeup, yield, deviceVars
<1>4. ASSUME NEW c \in Cpu, NEW p \in Proc, ForkFails(c, p) PROVE NoLostWakeup'
  BY <1>0, <1>4 DEF SInv, DeviceIsLocked, NoLostWakeup, ForkFails, Runs, cpuVars, deviceVars
<1>5. ASSUME NEW c \in Cpu, NEW p \in Proc, ForkDone(c, p) PROVE NoLostWakeup'
  BY <1>0, <1>5 DEF SInv, DeviceIsLocked, NoLostWakeup, ForkDone, Runs, cpuVars, deviceVars
<1>6. ASSUME NEW c \in Cpu, NEW p \in Proc, wait(c, p) PROVE NoLostWakeup'
  BY <1>0, <1>6, Constants DEF SInv, TypeOK, DeviceIsLocked, NoLostWakeup, wait, deviceVars
<1>7. ASSUME NEW c \in Cpu, NEW p \in Proc, ReadCheck(c, p) PROVE NoLostWakeup'
  BY <1>0, <1>7, Zenon
     DEF SInv, DeviceIsLocked, NoLostWakeup, ReadCheck, Runs, tableVars, cpuVars
<1>8. ASSUME NEW c \in Cpu, NEW p \in Proc, sleep(c, p) PROVE NoLostWakeup'
  <2>1. ~ready'
    BY <1>0, <1>8, Zenon DEF SInv, DeviceIsLocked, sleep
  <2>2. QED
    BY <2>1, Zenon DEF NoLostWakeup
<1>9. ASSUME NEW c \in Cpu, NEW p \in Proc, exit(c, p) PROVE NoLostWakeup'
  <2>1. ExitEffect(c, p)
    BY <1>0, <1>9, ExitStates
  <2>2. chan' = chan /\ ready' = ready /\ device' = device
    BY <1>9, Zenon DEF exit, deviceVars
  <2>3. \A q \in Proc : state'[q] = "SLEEPING" => state[q] = "SLEEPING"
    BY <2>1, Zenon DEF ExitEffect
  <2>4. QED
    BY <1>0, <2>2, <2>3, Zenon DEF SInv, NoLostWakeup
<1>10. ASSUME NEW c \in Cpu, NEW p \in Proc, NEW q \in Proc, allocproc(c, p, q)
       PROVE  NoLostWakeup'
  BY <1>0, <1>10
     DEF SInv, DeviceIsLocked, NoLostWakeup, allocproc, User, Runs, cpuVars, deviceVars
<1>11. ASSUME NEW c \in Cpu, NEW p \in Proc, NEW q \in Killable, kill(c, p, q) PROVE NoLostWakeup'
  BY <1>0, <1>11 DEF SInv, DeviceIsLocked, NoLostWakeup, kill, User, Runs, cpuVars, deviceVars
<1>12. ASSUME Interrupt PROVE NoLostWakeup'
  BY <1>0, <1>12, Zenon DEF SInv, DeviceIsLocked, NoLostWakeup, Interrupt, tableVars, cpuVars
<1>13. ASSUME wakeup PROVE NoLostWakeup'
  BY <1>0, <1>13, WakeupFacts DEF SInv, NoLostWakeup, TypeOK, wakeup, cpuVars
<1>14. ASSUME UNCHANGED <<state, chan, ready, device>> PROVE NoLostWakeup'
  BY <1>0, <1>14, Zenon DEF SInv, DeviceIsLocked, NoLostWakeup
<1>15. QED
  BY <1>1, <1>2, <1>3, <1>4, <1>5, <1>6, <1>7, <1>8, <1>9, <1>10, <1>11, <1>12, <1>13, <1>14,
     ZenonT(30)
     DEF Next, Switch, Kernel, Call, SchedAcquire, SchedRelease, swtch, ForkHalf, ReadAcquire,
         WaitCall, ReadCall, tableVars, cpuVars, deviceVars

(* No process sleeps in wait past the end of a child. *)
LEMMA WaiterStep ==
  ASSUME SInv, Next, TypeOK'
  PROVE  WaiterIsWoken'
<1>0. SInv
  OBVIOUS
<1>1. ASSUME NEW c \in Cpu, SchedScan(c) PROVE WaiterIsWoken'
  BY <1>0, <1>1 DEF SInv, TypeOK, WaiterIsWoken, Children, SchedScan, deviceVars
<1>2. ASSUME NEW c \in Cpu, Resume(c) PROVE WaiterIsWoken'
  BY <1>0, <1>2, Constants DEF SInv, TypeOK, WaiterIsWoken, Children, Resume, deviceVars
<1>3. ASSUME NEW c \in Cpu, NEW p \in Proc, yield(c, p) PROVE WaiterIsWoken'
  BY <1>0, <1>3 DEF SInv, WaiterIsWoken, Children, yield, deviceVars
<1>4. ASSUME NEW c \in Cpu, NEW p \in Proc, ForkFails(c, p) PROVE WaiterIsWoken'
  BY <1>0, <1>4 DEF SInv, WaiterIsWoken, Children, ForkFails, cpuVars, deviceVars
<1>5. ASSUME NEW c \in Cpu, NEW p \in Proc, ForkHalf(c, p) PROVE WaiterIsWoken'
  BY <1>0, <1>5 DEF SInv, WaiterIsWoken, ForksOwnChild, Children, ForkHalf, cpuVars, deviceVars
<1>6. ASSUME NEW c \in Cpu, NEW p \in Proc, ForkDone(c, p) PROVE WaiterIsWoken'
  BY <1>0, <1>6 DEF SInv, TypeOK, WaiterIsWoken, Children, ForkDone, cpuVars, deviceVars
<1>7. ASSUME NEW c \in Cpu, NEW p \in Proc, wait(c, p) PROVE WaiterIsWoken'
  BY <1>0, <1>7 DEF SInv, TypeOK, WaiterIsWoken, Children, wait, Children, deviceVars
<1>8. ASSUME NEW c \in Cpu, NEW p \in Proc, sleep(c, p) PROVE WaiterIsWoken'
  BY <1>0, <1>8, Constants DEF SInv, TypeOK, WaiterIsWoken, Children, sleep, Runs
<1>9. ASSUME NEW c \in Cpu, NEW p \in Proc, exit(c, p) PROVE WaiterIsWoken'
  BY <1>0, <1>9, Constants, ExitWakesFacts
     DEF SInv, WaiterIsWoken, NotOwnParent, Children, OneStackEach, exit, passChildren, Runs,
         deviceVars
<1>10. ASSUME NEW c \in Cpu, NEW p \in Proc, NEW q \in Proc, allocproc(c, p, q)
       PROVE  WaiterIsWoken'
  BY <1>0, <1>10 DEF SInv, WaiterIsWoken, Children, allocproc, cpuVars, deviceVars
<1>11. ASSUME NEW c \in Cpu, NEW p \in Proc, NEW q \in Killable, kill(c, p, q)
       PROVE  WaiterIsWoken'
  BY <1>0, <1>11 DEF SInv, WaiterIsWoken, Children, kill, cpuVars, deviceVars
<1>12. ASSUME wakeup PROVE WaiterIsWoken'
  BY <1>0, <1>12, WakeupFacts DEF SInv, WaiterIsWoken, Children, TypeOK, wakeup, cpuVars
<1>13. ASSUME UNCHANGED <<state, chan, parent>> PROVE WaiterIsWoken'
  BY <1>0, <1>13, Zenon DEF SInv, WaiterIsWoken, Children
<1>14. QED
  BY <1>1, <1>2, <1>3, <1>4, <1>5, <1>6, <1>7, <1>8, <1>9, <1>10, <1>11, <1>12, <1>13,
     ZenonT(30)
     DEF Next, Switch, Kernel, Call, SchedAcquire, SchedRelease, swtch, ReadAcquire, ReadCheck,
         WaitCall, ReadCall, Interrupt, tableVars, cpuVars, deviceVars

-----------------------------------------------------------------------------
(* The theorems. *)

(* The invariant holds in every reachable state of the process table. *)
THEOREM Invariant == Spec => []SInv
<1>1. Init => SInv
  <2> SUFFICES ASSUME Init PROVE SInv
    OBVIOUS
  <2>1. TypeOK
    BY Constants, Zenon DEF Init, TypeOK, Alive
  <2>2. OneStackEach /\ StacksAreUsed
    BY Zenon DEF Init, OneStackEach, StacksAreUsed
  <2>3. CallersLive /\ ForksOwnChild
    BY Constants, Zenon DEF Init, CallersLive, ForksOwnChild, Alive
  <2>4. ParentIsAlive /\ NotOwnParent
    BY Zenon DEF Init, ParentIsAlive, NotOwnParent
  <2>5. DeviceIsLocked /\ NoLostWakeup
    BY Constants, Zenon DEF Init, DeviceIsLocked, NoLostWakeup
  <2>6. WaiterIsWoken
    BY Zenon DEF Init, WaiterIsWoken
  <2>7. QED
    BY <2>1, <2>2, <2>3, <2>4, <2>5, <2>6, Zenon DEF SInv
<1>2. SInv /\ [Next]_vars => SInv'
  <2>1. ASSUME SInv, Next PROVE SInv'
    <3>1. TypeOK'
      BY <2>1, TypeStep, Zenon
    <3>2. QED
      BY <2>1, <3>1, StackStep, CallersStep, ForkStep, ParentStep, DeviceStep, WakeupStep,
         WaiterStep, Zenon DEF SInv
  <2>2. ASSUME SInv, UNCHANGED vars PROVE SInv'
    BY <2>2 DEF SInv, vars, tableVars, cpuVars, deviceVars, TypeOK, OneStackEach, StacksAreUsed,
       CallersLive, ForksOwnChild, ParentIsAlive, NotOwnParent, DeviceIsLocked, NoLostWakeup,
       WaiterIsWoken, Children
  <2>3. QED
    BY <2>1, <2>2, Zenon
<1>3. QED
  BY <1>1, <1>2, PTL DEF Spec

(* scheduler, sched and yield never put two CPUs on one kernel stack, on   *)
(* any number of CPUs.                                                     *)
THEOREM StacksAreSeparate == Spec => []OneStackEach
<1>1. SInv => OneStackEach
  BY Zenon DEF SInv
<1>2. QED
  BY <1>1, Invariant, PTL

(* exit, fork and wait leave every process a parent that can reap it. *)
THEOREM ParentsAreAlive == Spec => []ParentIsAlive
<1>1. SInv => ParentIsAlive
  BY Zenon DEF SInv
<1>2. QED
  BY <1>1, Invariant, PTL

(* sleep, wakeup, exit and wait lose no wakeup. *)
THEOREM WakeupsAreKept == Spec => []SleepersAreWoken
<1>1. SInv => SleepersAreWoken
  BY Zenon DEF SInv, SleepersAreWoken
<1>2. QED
  BY <1>1, Invariant, PTL
=============================================================================
