------------------------------- MODULE MCSched -------------------------------
(***************************************************************************)
(* Scheduling: blocking, waking and handing over tasks (TaskSched), the    *)
(* ready queue with its idle CPUs (IdleCpus), and timers (Timers).  In the *)
(* family "sched" the CPUs of `on' run tasks: all of them, or one together *)
(* with the timer interrupt.  The other families make `left' calls: "idle" *)
(* wakeups, yields, blocks and affinity changes; "itimers" and "sleeps"    *)
(* until the last moment of the clock.                                     *)
(***************************************************************************)
EXTENDS TaskSched, IdleCpus, Timers, TLC

Families == [sched |-> 0, idle |-> 2, itimers |-> 2, sleeps |-> 3]

VARIABLES fam, on, left

SchedInit ==
    /\ fam \in DOMAIN Families /\ left = Families[fam]
    /\ on \in IF fam = "sched" THEN {Cpus} \cup {{c} : c \in Cpus} ELSE {{}}
    /\ Init
    /\ \E prio \in {[t \in ITasks |-> 0], [t \in ITasks |-> t]} :
          /\ fam # "idle" => \A t \in ITasks : prio[t] = 0
          /\ IdleInit(prio)
    /\ \E fg \in BOOLEAN : TimersInit(fg) /\ (fam \in {"sched", "idle"} => ~fg)

Running ==
    \/ \E c \in on : CpuStep(c)
    \/ \E c \in on, t \in Tasks :
          Fetch(c, t) \/ Tick(c, t) \/ UserStep(c, t) \/ KernelStep(c, t)
    \/ \E w \in Wakers : Produce(w) \/ (on # Cpus /\ Expire(w)) \/ WakerStep(w)

Idling ==
    \E c \in ICpus :
        \/ IdleStep(c) /\ UNCHANGED left
        \/ left > 0 /\ left' = left - 1 /\ IdleCall(c)

TimersCall(t) ==
    \/ ExitReset(t)
    \/ /\ fam = "itimers"
       /\ \E w \in Kinds, interval \in {0, 2} : SetTimer(t, w, interval, 1) \/ SetTimer(t, w, 0, 0)
    \/ fam = "sleeps" /\ (InterruptSleep(t) \/ \E us \in {1, 4} : Nanosleep(t, us))

Timing ==
    \/ Advance /\ UNCHANGED left
    \/ \E t \in TmTasks : TimerStep(t) /\ UNCHANGED left
    \/ left > 0 /\ left' = left - 1 /\ \E t \in TmTasks : TimersCall(t)
    \/ now = MaxTime /\ UNCHANGED <<tmVars, left>>

SchedNext ==
    /\ UNCHANGED <<fam, on>>
    /\ \/ fam = "sched" /\ Running /\ UNCHANGED <<idleVars, tmVars, left>>
       \/ fam = "idle" /\ Idling /\ UNCHANGED <<vars, tmVars>>
       \/ fam \in {"itimers", "sleeps"} /\ Timing /\ UNCHANGED <<vars, idleVars>>

SchedSpec == SchedInit /\ [][SchedNext]_<<vars, idleVars, tmVars, fam, on, left>>

SchedSymmetry == Permutations(Tasks) \cup Permutations(Cpus) \cup Permutations(TmTasks)

=============================================================================
