----------------------------- MODULE Scheduling -----------------------------
(***************************************************************************)
(* The process table on several CPUs: scheduler, sched, yield, sleep,      *)
(* wakeup, fork, exit, wait and kill of proc.c, and a device that wakes    *)
(* processes the way pipes, the disk, the console and the clock do.        *)
(*                                                                         *)
(* What a CPU does while it holds ptable.lock is one step, except that     *)
(* the lock is held across swtch: the scheduler takes it, the process it   *)
(* picks releases it, and the process that gives up the CPU takes it again *)
(* for the scheduler.                                                      *)
(***************************************************************************)
EXTENDS Integers, FiniteSets

CONSTANTS
  NPROC,     \* slots of ptable.proc; initproc is slot 1
  Cpu,
  Killable,  \* processes that others kill; init is not among them
  Event,     \* the channel of the device
  None       \* no process, no CPU, no channel

Proc == 1..NPROC
initproc == 1

ASSUME SchedulingAssumption ==
  /\ NPROC \in Nat \ {0}
  /\ IsFiniteSet(Cpu) /\ Cpu # {}
  /\ Killable \subseteq Proc \ {initproc}
  /\ None \notin Proc \cup Cpu \cup {Event}
  /\ Event \notin Proc /\ "device" \notin Cpu \cup {None}

VARIABLES
  state, parent, chan, killed,  \* fields of struct proc
  pid,     \* the slots with a pid
  pc,      \* where a process is, or goes on when it runs again
  child,   \* np in fork
  on,      \* the process whose kernel stack a CPU uses; None: the scheduler's
  lock,    \* the CPU that holds ptable.lock
  scan,    \* the scheduler's loop variable
  lk,      \* who holds the lock of the device: a CPU or the interrupt handler
  ready,   \* the device has data
  device   \* idle, or between the data and the wakeup

tableVars == <<state, parent, chan, killed, pid>>
cpuVars == <<on, lock, scan>>
deviceVars == <<lk, ready, device>>
vars == <<tableVars, pc, child, cpuVars, deviceVars>>

-----------------------------------------------------------------------------
(* Process p executes on CPU c, and not in the middle of a switch. *)
Runs(c, p) == on[c] = p /\ lock # c

Free == lock = None

wakeup1(s, ch) ==
  [p \in Proc |-> IF s[p] = "SLEEPING" /\ chan[p] = ch THEN "RUNNABLE" ELSE s[p]]

Children(p) == {q \in Proc : parent[q] = p}

Init ==
  /\ state = [p \in Proc |-> IF p = initproc THEN "RUNNABLE" ELSE "UNUSED"]
  /\ parent = [p \in Proc |-> None]
  /\ chan = [p \in Proc |-> None]
  /\ killed = [p \in Proc |-> FALSE]
  /\ pid = {initproc}
  /\ pc = [p \in Proc |-> "user"]
  /\ child = [p \in Proc |-> None]
  /\ on = [c \in Cpu |-> None]
  /\ lock = None
  /\ scan = [c \in Cpu |-> 1]
  /\ lk = None
  /\ ready = FALSE
  /\ device = "idle"

-----------------------------------------------------------------------------
(* The scheduler of CPU c. *)

(* Mutant: the loop goes on where it stopped. *)
SchedAcquireNoReset(c) ==
  /\ on[c] = None
  /\ Free
  /\ lock' = c
  /\ UNCHANGED <<tableVars, pc, child, on, scan, deviceVars>>

SchedAcquire(c) ==
  /\ on[c] = None
  /\ Free
  /\ lock' = c
  /\ scan' = [scan EXCEPT ![c] = 1]
  /\ UNCHANGED <<tableVars, pc, child, on, deviceVars>>

SchedScan(c) ==
  /\ on[c] = None
  /\ lock = c
  /\ scan[c] \in Proc
  /\ scan' = [scan EXCEPT ![c] = @ + 1]
  /\ IF state[scan[c]] = "RUNNABLE"
     THEN /\ on' = [on EXCEPT ![c] = scan[c]]
          /\ state' = [state EXCEPT ![scan[c]] = "RUNNING"]
     ELSE UNCHANGED <<on, state>>
  /\ UNCHANGED <<parent, chan, killed, pid, pc, child, lock, deviceVars>>

SchedRelease(c) ==
  /\ on[c] = None
  /\ lock = c
  /\ scan[c] \notin Proc
  /\ lock' = None
  /\ UNCHANGED <<tableVars, pc, child, on, scan, deviceVars>>

(* sched: the process has changed its state and leaves its stack. *)
swtch(c) ==
  /\ on[c] # None
  /\ lock = c
  /\ state[on[c]] # "RUNNING"
  /\ on' = [on EXCEPT ![c] = None]
  /\ UNCHANGED <<tableVars, pc, child, lock, scan, deviceVars>>

(* The end of yield and sleep, and forkret.  A sleep in wait returns with  *)
(* the lock.                                                               *)
Resume(c) ==
  /\ on[c] # None
  /\ lock = c
  /\ state[on[c]] = "RUNNING"
  /\ pc[on[c]] # "wait"
  /\ chan' = [chan EXCEPT ![on[c]] = None]
  /\ lock' = None
  /\ UNCHANGED <<state, parent, killed, pid, pc, child, on, scan, deviceVars>>

-----------------------------------------------------------------------------
(* Processes. *)

(* A process in user space is not killed: the trap that brings it into the *)
(* kernel calls exit otherwise.                                            *)
User(c, p) == Runs(c, p) /\ pc[p] = "user" /\ ~killed[p]

(* The clock interrupts programs and fork; a process that waits for a spin *)
(* lock or holds one has interrupts off.                                   *)
Interruptible(c, p) == User(c, p) \/ (Runs(c, p) /\ pc[p] = "fork")

(* Mutant: the lock is released before the switch. *)
yieldUnlocked(c, p) ==
  /\ Interruptible(c, p)
  /\ Free
  /\ state' = [state EXCEPT ![p] = "RUNNABLE"]
  /\ UNCHANGED <<parent, chan, killed, pid, pc, child, cpuVars, deviceVars>>

(* The clock interrupt. *)
yield(c, p) ==
  /\ Interruptible(c, p)
  /\ Free
  /\ state' = [state EXCEPT ![p] = "RUNNABLE"]
  /\ lock' = c
  /\ UNCHANGED <<parent, chan, killed, pid, pc, child, on, scan, deviceVars>>

(* allocproc.  It does not clear killed. *)
allocproc(c, p, q) ==
  /\ User(c, p)
  /\ Free
  /\ state[q] = "UNUSED"
  /\ \A r \in Proc : state[r] = "UNUSED" => q <= r
  /\ state' = [state EXCEPT ![q] = "EMBRYO"]
  /\ pid' = pid \cup {q}
  /\ pc' = [pc EXCEPT ![p] = "fork"]
  /\ child' = [child EXCEPT ![p] = q]
  /\ UNCHANGED <<parent, chan, killed, cpuVars, deviceVars>>

(* No kernel stack or no memory for the child: without ptable.lock. *)
ForkFails(c, p) ==
  /\ Runs(c, p)
  /\ pc[p] = "fork"
  /\ state' = [state EXCEPT ![child[p]] = "UNUSED"]
  /\ pc' = [pc EXCEPT ![p] = "user"]
  /\ child' = [child EXCEPT ![p] = None]
  /\ UNCHANGED <<parent, chan, killed, pid, cpuVars, deviceVars>>

(* CopyVirtualMemoryData returns -1: the child has its parent and stays.   *)
ForkHalf(c, p) ==
  /\ Runs(c, p)
  /\ pc[p] = "fork"
  /\ parent' = [parent EXCEPT ![child[p]] = p]
  /\ pc' = [pc EXCEPT ![p] = "user"]
  /\ child' = [child EXCEPT ![p] = None]
  /\ UNCHANGED <<state, chan, killed, pid, cpuVars, deviceVars>>

ForkDone(c, p) ==
  /\ Runs(c, p)
  /\ pc[p] = "fork"
  /\ Free
  /\ parent' = [parent EXCEPT ![child[p]] = p]
  /\ state' = [state EXCEPT ![child[p]] = "RUNNABLE"]
  /\ pc' = [pc EXCEPT ![p] = "user", ![child[p]] = "user"]
  /\ child' = [child EXCEPT ![p] = None]
  /\ UNCHANGED <<chan, killed, pid, cpuVars, deviceVars>>

(* Mutants: a zombie child of the dying process is not announced to init;  *)
(* the parent is not woken; the children keep it as their parent.          *)
exitSilent(p) == wakeup1(state, parent[p])

exitUnseen(p) ==
  IF \E q \in Children(p) : state[q] = "ZOMBIE"
  THEN wakeup1(state, initproc) ELSE state

keepChildren(p) == parent

(* The processes exit wakes. *)
exitWakes(p) ==
  LET s == wakeup1(state, parent[p])
  IN IF \E q \in Children(p) : s[q] = "ZOMBIE" THEN wakeup1(s, initproc) ELSE s

(* Pass abandoned children to init. *)
passChildren(p) ==
  [q \in Proc |-> IF parent[q] = p THEN initproc ELSE parent[q]]

exit(c, p) ==
  /\ Runs(c, p)
  /\ pc[p] = "user"
  /\ p # initproc
  /\ Free
  /\ state' = [exitWakes(p) EXCEPT ![p] = "ZOMBIE"]
  /\ parent' = passChildren(p)
  /\ lock' = c
  /\ UNCHANGED <<chan, killed, pid, pc, child, on, scan, deviceVars>>

WaitCall(c, p) ==
  /\ User(c, p)
  /\ pc' = [pc EXCEPT ![p] = "wait"]
  /\ UNCHANGED <<tableVars, child, cpuVars, deviceVars>>

(* One round of wait's loop, with ptable.lock. *)
wait(c, p) ==
  /\ on[c] = p
  /\ lock \in {None, c}
  /\ state[p] = "RUNNING"
  /\ pc[p] = "wait"
  /\ \/ \E z \in Children(p) :
          /\ state[z] = "ZOMBIE"
          /\ \A q \in Children(p) : state[q] = "ZOMBIE" => z <= q
          /\ state' = [state EXCEPT ![z] = "UNUSED"]
          /\ parent' = [parent EXCEPT ![z] = None]
          /\ killed' = [killed EXCEPT ![z] = FALSE]
          /\ pid' = pid \ {z}
          /\ chan' = [chan EXCEPT ![p] = None]
          /\ pc' = [pc EXCEPT ![p] = "user"]
          /\ lock' = None
     \/ /\ \A z \in Children(p) : state[z] # "ZOMBIE"
        /\ Children(p) = {} \/ killed[p]
        /\ chan' = [chan EXCEPT ![p] = None]
        /\ pc' = [pc EXCEPT ![p] = "user"]
        /\ lock' = None
        /\ UNCHANGED <<state, parent, killed, pid>>
     \/ /\ \A z \in Children(p) : state[z] # "ZOMBIE"
        /\ Children(p) # {} /\ ~killed[p]
        /\ chan' = [chan EXCEPT ![p] = p]
        /\ state' = [state EXCEPT ![p] = "SLEEPING"]
        /\ lock' = c
        /\ UNCHANGED <<parent, killed, pid, pc>>
  /\ UNCHANGED <<child, on, scan, deviceVars>>

(* Mutant: a process that sleeps is left asleep. *)
killSilent(c, p, q) ==
  /\ User(c, p)
  /\ Free
  /\ q \in pid
  /\ killed' = [killed EXCEPT ![q] = TRUE]
  /\ UNCHANGED <<state, parent, chan, pid, pc, child, cpuVars, deviceVars>>

kill(c, p, q) ==
  /\ User(c, p)
  /\ Free
  /\ q \in pid
  /\ killed' = [killed EXCEPT ![q] = TRUE]
  /\ state' = IF state[q] = "SLEEPING" THEN [state EXCEPT ![q] = "RUNNABLE"] ELSE state
  /\ UNCHANGED <<parent, chan, pid, pc, child, cpuVars, deviceVars>>

-----------------------------------------------------------------------------
(* A system call that waits for the device: piperead, iderw, consoleread,  *)
(* sys_sleep.  init does not call it: init.c only forks and waits.         *)

ReadCall(c, p) ==
  /\ User(c, p)
  /\ p # initproc
  /\ pc' = [pc EXCEPT ![p] = "read"]
  /\ UNCHANGED <<tableVars, child, cpuVars, deviceVars>>

(* acquire of the device's lock, at the start or at the end of sleep. *)
ReadAcquire(c, p) ==
  /\ Runs(c, p)
  /\ pc[p] = "read"
  /\ lk = None
  /\ lk' = c
  /\ pc' = [pc EXCEPT ![p] = "check"]
  /\ UNCHANGED <<tableVars, child, cpuVars, ready, device>>

ReadCheck(c, p) ==
  /\ Runs(c, p)
  /\ pc[p] = "check"
  /\ IF ready \/ killed[p]
     THEN /\ lk' = None
          /\ ready' = FALSE
          /\ pc' = [pc EXCEPT ![p] = "user"]
     ELSE /\ pc' = [pc EXCEPT ![p] = "sleep"]
          /\ UNCHANGED <<lk, ready>>
  /\ UNCHANGED <<tableVars, child, cpuVars, device>>

(* Mutant: the device's lock is released before ptable.lock is taken. *)
sleepEarly(c, p) ==
  /\ Runs(c, p)
  /\ pc[p] = "sleep"
  /\ \/ /\ lk = c
        /\ lk' = None
        /\ UNCHANGED <<state, chan, pc, lock>>
     \/ /\ lk # c
        /\ Free
        /\ chan' = [chan EXCEPT ![p] = Event]
        /\ state' = [state EXCEPT ![p] = "SLEEPING"]
        /\ pc' = [pc EXCEPT ![p] = "read"]
        /\ lock' = c
        /\ UNCHANGED lk
  /\ UNCHANGED <<parent, killed, pid, child, on, scan, ready, device>>

(* sleep on a channel with another lock than ptable.lock. *)
sleep(c, p) ==
  /\ Runs(c, p)
  /\ pc[p] = "sleep"
  /\ Free
  /\ chan' = [chan EXCEPT ![p] = Event]
  /\ state' = [state EXCEPT ![p] = "SLEEPING"]
  /\ pc' = [pc EXCEPT ![p] = "read"]
  /\ lock' = c
  /\ lk' = None
  /\ UNCHANGED <<parent, killed, pid, child, on, scan, ready, device>>

(* The interrupt handler. *)
Interrupt ==
  /\ device = "idle"
  /\ lk = None
  /\ lk' = "device"
  /\ ready' = TRUE
  /\ device' = "wakeup"
  /\ UNCHANGED <<tableVars, pc, child, cpuVars>>

wakeup ==
  /\ device = "wakeup"
  /\ Free
  /\ state' = wakeup1(state, Event)
  /\ lk' = None
  /\ device' = "idle"
  /\ UNCHANGED <<parent, chan, killed, pid, pc, child, cpuVars, ready>>

-----------------------------------------------------------------------------
(* What the kernel does without being asked by a program. *)
Switch(c) == SchedScan(c) \/ SchedRelease(c) \/ swtch(c) \/ Resume(c)

Kernel(c, p) ==
  \/ ForkFails(c, p) \/ ForkHalf(c, p) \/ ForkDone(c, p) \/ wait(c, p)
  \/ ReadAcquire(c, p) \/ ReadCheck(c, p) \/ sleep(c, p)

Call(c, p) ==
  \/ WaitCall(c, p) \/ ReadCall(c, p) \/ exit(c, p)
  \/ \E q \in Proc : allocproc(c, p, q)
  \/ \E q \in Killable : kill(c, p, q)

Next ==
  \/ \E c \in Cpu : \/ SchedAcquire(c) \/ Switch(c)
                    \/ \E p \in Proc : yield(c, p) \/ Kernel(c, p) \/ Call(c, p)
  \/ Interrupt
  \/ wakeup

(* CPUs do not stop, the clock keeps interrupting user programs but leaves *)
(* a process in the kernel time to go on, init calls wait again and again, *)
(* and the device answers.  This is for one CPU: on several, spin locks    *)
(* would have to be fair as well, which xchg is not.                       *)
Fairness ==
  /\ \A c \in Cpu :
       /\ WF_vars(SchedAcquire(c)) /\ WF_vars(Switch(c))
       /\ \A p \in Proc : SF_vars(Kernel(c, p) \/ (killed[p] /\ exit(c, p)))
       /\ SF_vars(\E p \in Proc : yield(c, p))
       /\ SF_vars(WaitCall(c, initproc))
  /\ SF_vars(Interrupt) /\ SF_vars(wakeup)

Spec == Init /\ [][Next]_vars /\ Fairness
-----------------------------------------------------------------------------
(* OneStackEach: no two CPUs are on the kernel stack of one process, and a *)
(* process that another CPU can find RUNNABLE, or wait can free, is on no  *)
(* stack: ptable.lock is held until swtch is over.                         *)
OneStackEach ==
  \A c \in Cpu : on[c] # None =>
    /\ \A d \in Cpu : on[d] = on[c] => d = c
    /\ state[on[c]] = "RUNNING" \/ lock = c

(* ParentIsAlive: whatever order parents and children exit in, the parent  *)
(* of a process is a process that can still call wait.                     *)
ParentIsAlive ==
  \A p \in Proc : state[p] \notin {"UNUSED", "EMBRYO"} /\ p # initproc =>
    /\ parent[p] \in Proc
    /\ state[parent[p]] \notin {"UNUSED", "EMBRYO", "ZOMBIE"}

(* NoLostWakeup: a process sleeps on the device while there is data only   *)
(* until the handler that brought the data calls wakeup (proc.c, "we can   *)
(* be guaranteed that we won't miss any wakeup").                          *)
NoLostWakeup ==
  \A p \in Proc : state[p] = "SLEEPING" /\ chan[p] = Event /\ ready =>
    device = "wakeup"

(* WaiterIsWoken: a process does not sleep in wait while a child of its is *)
(* a zombie.                                                               *)
WaiterIsWoken ==
  \A p \in Proc : state[p] = "SLEEPING" /\ chan[p] = p =>
    \A z \in Children(p) : state[z] # "ZOMBIE"

(* SleepersAreWoken: no process sleeps past the event it waits for: the    *)
(* device's data, or the end of a child.                                   *)
SleepersAreWoken == NoLostWakeup /\ WaiterIsWoken

(* WaitersHaveChildren: a process sleeps in wait only while it has a child *)
(* that fork has started ("Return -1 if this process has no children").    *)
WaitersHaveChildren ==
  \A p \in Proc : state[p] = "SLEEPING" /\ chan[p] = p =>
    \E q \in Children(p) : state[q] \notin {"UNUSED", "EMBRYO"}

(* RunnableRuns: the scheduler comes to every RUNNABLE process. *)
RunnableRuns == \A p \in Proc : state[p] = "RUNNABLE" ~> state[p] = "RUNNING"

(* KilledExits: a process that is killed exits, asleep or not when kill    *)
(* was called.                                                             *)
KilledExits == \A p \in Proc :
  killed[p] /\ state[p] \notin {"UNUSED", "EMBRYO"} ~> state[p] \in {"ZOMBIE", "UNUSED"}

Orphan(p) == state[p] = "ZOMBIE" /\ parent[p] = initproc

(* OrphansAreReaped: init reaps a zombie left to it, unless again and      *)
(* again another one turns up in an earlier slot of the table, where       *)
(* wait's loop finds it first.                                             *)
OrphansAreReaped == \A p \in Proc :
  []<>(Orphan(p) => \E q \in 1..(p - 1) : Orphan(q))
=============================================================================
