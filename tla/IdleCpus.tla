------------------------------ MODULE IdleCpus ------------------------------
(***************************************************************************)
(* The ready queue and the idle CPUs: which queued task a CPU takes        *)
(* (os/src/task/manager.rs), how a CPU that finds none publishes its idle  *)
(* bit and waits for an interrupt (os/src/task/mod.rs), and how whoever    *)
(* queues a task interrupts one idle CPU that may run it (os/src/          *)
(* platform.rs notify_runnable_for()).                                     *)
(*                                                                         *)
(* Interrupts are off in the kernel except in idle_until_interrupt(),      *)
(* which first enables them and then executes the wait instruction: a      *)
(* pending interrupt is taken before that instruction.                     *)
(***************************************************************************)
EXTENDS Integers, Sequences, FiniteSets, SequencesExt

CONSTANTS
    ICpus,      \* online CPUs, numbers: trailing_zeros() picks the lowest
    ITasks,     \* tasks
    RtBudget,   \* RT_LOWER_RUN_BUDGET
    NoTask

ASSUME IdleAssumption ==
    /\ ICpus \subseteq Nat /\ ICpus # {} /\ IsFiniteSet(ITasks) /\ NoTask \notin ITasks
    /\ RtBudget \in Nat

\* sched_setscheduler() takes real-time priorities up to this one.
MaxRtPrio == 99

VARIABLES
    rq,         \* USER_READY_QUEUE.tasks
    rtRuns,     \* RT_RUNS_SINCE_NORMAL, counted up to the budget it is compared with
    its,        \* per task: status, affinity mask, real-time priority
    idle,       \* IDLE_MASK
    ipis,       \* CPUs with a reschedule interrupt pending
    ic,         \* per CPU: control point, task, eligible mask of a notification
    lost,       \* CPUs that took an interrupt between enabling and waiting
    passed      \* per task: fetches that chose a higher real-time priority

idleVars == <<rq, rtRuns, its, idle, ipis, ic, lost, passed>>

Prio(t) == its[t].prio
RunnableOn(c) == {i \in 1..Len(rq) : c \in its[rq[i]].aff}
Lowest(S) == CHOOSE x \in S : \A y \in S : x <= y
Highest(S) == CHOOSE x \in S : \A y \in S : x >= y
Go(c, at) == ic' = [ic EXCEPT ![c].at = at]

-----------------------------------------------------------------------------
(* Choosing a task *)

\* fetch_from_queue(): the first runnable entry of the highest priority; when
\* the top priority has had its runs, the first of the next real-time priority.
Levels(c) == {Prio(rq[i]) : i \in RunnableOn(c)}
FirstAt(c, p) == Lowest({i \in RunnableOn(c) : Prio(rq[i]) = p})
LowerRt(c) == {p \in Levels(c) : 0 < p /\ p < Highest(Levels(c))}

Chosen(c) ==
    IF LowerRt(c) # {} /\ rtRuns >= RtBudget
    THEN FirstAt(c, Highest(LowerRt(c)))
    ELSE FirstAt(c, Highest(Levels(c)))

Removed(i) == RemoveAt(rq, i)

FetchNext(c) ==
    /\ ic[c].at = "look"
    /\ IF RunnableOn(c) = {}
       THEN /\ Go(c, "prepare")
            /\ UNCHANGED <<rq, rtRuns, its, idle, ipis, lost, passed>>
       ELSE LET i == Chosen(c) top == Highest(Levels(c)) IN
            /\ rq' = Removed(i)
            /\ rtRuns' = IF top > 0 /\ Prio(rq[i]) = top
                          THEN (IF rtRuns < RtBudget THEN rtRuns + 1 ELSE rtRuns) ELSE 0
            /\ its' = [its EXCEPT ![rq[i]].st = "running"]
            /\ ic' = [ic EXCEPT ![c].at = "run", ![c].task = rq[i]]
            /\ passed' = [t \in ITasks |->
                 IF t = rq[i] THEN 0
                 ELSE IF \E j \in RunnableOn(c) : rq[j] = t /\ 0 < Prio(t) /\ Prio(t) < Prio(rq[i])
                      THEN passed[t] + 1 ELSE passed[t]]
            /\ UNCHANGED <<idle, ipis, lost>>

-----------------------------------------------------------------------------
(* Going idle *)

PrepareIdle_NoRecheck(c) ==
    /\ ic[c].at = "prepare"
    /\ idle' = idle \cup {c}
    /\ Go(c, "enable")
    /\ UNCHANGED <<rq, rtRuns, its, ipis, lost, passed>>

\* wait_for_interrupt(): prepare_idle() publishes the bit ...
PrepareIdle(c) ==
    /\ ic[c].at = "prepare"
    /\ idle' = idle \cup {c}
    /\ Go(c, "check")
    /\ UNCHANGED <<rq, rtRuns, its, ipis, lost, passed>>

\* ... the queue is looked at again, and finish_idle() undoes it if need be.
RecheckQueue(c) ==
    /\ ic[c].at = "check"
    /\ IF RunnableOn(c) # {}
       THEN idle' = idle \ {c} /\ Go(c, "look")
       ELSE idle' = idle /\ Go(c, "enable")
    /\ UNCHANGED <<rq, rtRuns, its, ipis, lost, passed>>

\* idle_until_interrupt(): interrupts are enabled; one that is pending, or that
\* arrives before the wait instruction, is handled here and is gone.
IdleEnable(c) ==
    /\ ic[c].at = "enable"
    /\ lost' = lost \ {c}
    /\ Go(c, "on")
    /\ UNCHANGED <<rq, rtRuns, its, idle, ipis, passed>>

IdleIrq(c) ==
    /\ ic[c].at = "on" /\ c \in ipis
    /\ ipis' = ipis \ {c}
    /\ lost' = lost \cup {c}
    /\ UNCHANGED <<rq, rtRuns, its, idle, ic, passed>>

IdleWait(c) ==
    /\ ic[c].at = "on" /\ c \notin ipis
    /\ Go(c, "wait")
    /\ UNCHANGED <<rq, rtRuns, its, idle, ipis, lost, passed>>

\* An interrupt ends the wait; finish_idle(), and the loop looks again.
IdleEnds(c) ==
    /\ ic[c].at = "wait" /\ c \in ipis
    /\ ipis' = ipis \ {c}
    /\ idle' = idle \ {c}
    /\ Go(c, "look")
    /\ UNCHANGED <<rq, rtRuns, its, lost, passed>>

\* The timer interrupt also ends the wait (rearm_kernel_tick()).
IdleTick(c) ==
    /\ ic[c].at = "wait"
    /\ idle' = idle \ {c}
    /\ Go(c, "look")
    /\ UNCHANGED <<rq, rtRuns, its, ipis, lost, passed>>

-----------------------------------------------------------------------------
(* Queueing a task *)

\* push_task_back(): queue once, then notify unless the publisher keeps it; the
\* CPU goes on with its task k, or with the run loop.
Back(k) == IF k = NoTask THEN "look" ELSE "run"

Push(c, t, k, notify) ==
    /\ rq' = IF Contains(rq, t) THEN rq ELSE Append(rq, t)
    /\ ic' = [ic EXCEPT ![c] =
                [at |-> IF notify /\ ~Contains(rq, t) THEN "notify" ELSE Back(k),
                 task |-> k, mask |-> its[t].aff \ {c}]]

\* A running task wakes another one: add_task().
WakeOther(c, t) ==
    /\ ic[c].at = "run" /\ its[t].st = "blocked"
    /\ its' = [its EXCEPT ![t].st = "ready"]
    /\ Push(c, t, ic[c].task, TRUE)
    /\ UNCHANGED <<rtRuns, idle, ipis, lost, passed>>

\* The end of a time slice: add_task_local() notifies only when the task may
\* no longer run here.
YieldNotifies(c, t) == c \notin its[t].aff

YieldOn(c) ==
    /\ ic[c].at = "run"
    /\ its' = [its EXCEPT ![ic[c].task].st = "ready"]
    /\ Push(c, ic[c].task, NoTask, YieldNotifies(c, ic[c].task))
    /\ UNCHANGED <<rtRuns, idle, ipis, lost, passed>>

BlockOn(c) ==
    /\ ic[c].at = "run"
    /\ its' = [its EXCEPT ![ic[c].task].st = "blocked"]
    /\ ic' = [ic EXCEPT ![c].at = "look", ![c].task = NoTask]
    /\ UNCHANGED <<rq, rtRuns, idle, ipis, lost, passed>>

\* notify_runnable_for(): claim the bit of the lowest idle CPU of the mask ...
Notify(c) ==
    /\ ic[c].at = "notify"
    /\ LET targets == idle \cap ic[c].mask IN
       IF targets = {}
       THEN Go(c, Back(ic[c].task)) /\ UNCHANGED idle
       ELSE /\ idle' = idle \ {Lowest(targets)}
            /\ ic' = [ic EXCEPT ![c].at = "send", ![c].mask = {Lowest(targets)}]
    /\ UNCHANGED <<rq, rtRuns, its, ipis, lost, passed>>

\* ... and interrupt that CPU.
SendIpi(c) ==
    /\ ic[c].at = "send"
    /\ ipis' = ipis \cup ic[c].mask
    /\ Go(c, Back(ic[c].task))
    /\ UNCHANGED <<rq, rtRuns, its, idle, lost, passed>>

\* sys_sched_setaffinity() of any task: store the mask, then notify_runnable()
\* interrupts every other idle CPU without claiming its bit.
SetAffinity(c, t, m) ==
    /\ ic[c].at = "run"
    /\ its' = [its EXCEPT ![t].aff = m]
    /\ Go(c, "notifyall")
    /\ UNCHANGED <<rq, rtRuns, idle, ipis, lost, passed>>

NotifyAll(c) ==
    /\ ic[c].at = "notifyall"
    /\ ipis' = ipis \cup (idle \ {c})
    /\ Go(c, "run")
    /\ UNCHANGED <<rq, rtRuns, its, idle, lost, passed>>

-----------------------------------------------------------------------------

IdleInit(prio) ==
    /\ rq = SetToSeq(ITasks)
    /\ rtRuns = 0
    /\ its = [t \in ITasks |-> [st |-> "ready", aff |-> ICpus, prio |-> prio[t]]]
    /\ idle = {} /\ ipis = {} /\ lost = {}
    /\ ic = [c \in ICpus |-> [at |-> "look", task |-> NoTask, mask |-> {}]]
    /\ passed = [t \in ITasks |-> 0]

IdleStep(c) ==
    \/ FetchNext(c) \/ PrepareIdle(c) \/ RecheckQueue(c) \/ IdleEnable(c) \/ IdleIrq(c)
    \/ IdleWait(c) \/ IdleEnds(c) \/ IdleTick(c) \/ Notify(c) \/ SendIpi(c) \/ NotifyAll(c)
    \/ YieldOn(c) \/ BlockOn(c)

IdleCall(c) ==
    \E t \in ITasks : WakeOther(c, t) \/ \E m \in (SUBSET ICpus) \ {{}} : SetAffinity(c, t, m)

\* Any number of calls, from any priorities.
IdleSpec ==
    /\ \E prio \in [ITasks -> 0..MaxRtPrio] : IdleInit(prio)
    /\ [][\E c \in ICpus : IdleStep(c) \/ IdleCall(c)]_idleVars

-----------------------------------------------------------------------------
(* Properties *)

\* The types; no task is queued twice, a queued task is Ready, and the run of
\* higher real-time tasks stays within its budget (ReadyQueue, fetch_from_queue()).
IdleTypeOK ==
    /\ rq \in Seq(ITasks) /\ IsInjective(rq) /\ \A i \in 1..Len(rq) : its[rq[i]].st = "ready"
    /\ rtRuns \in 0..RtBudget
    /\ its \in [ITasks -> [st : {"ready", "running", "blocked"}, aff : (SUBSET ICpus) \ {{}},
                           prio : 0..MaxRtPrio]]
    /\ idle \subseteq ICpus /\ ipis \subseteq ICpus
    /\ ic \in [ICpus -> [at : {"look", "run", "prepare", "check", "enable", "on", "wait",
                               "notify", "send", "notifyall"},
                         task : ITasks \cup {NoTask}, mask : SUBSET ICpus]]

\* Somebody will still look at task t: a CPU that may run it is awake or is
\* being interrupted, or the one who queued it has not finished notifying.
Attended(t) ==
    \/ \E c \in its[t].aff : ic[c].at \in {"look", "run", "prepare", "check"} \/ c \in ipis
    \/ \E c \in ICpus : ic[c].at \in {"notify", "send", "notifyall"}

\* A queued task is never left to CPUs that all wait for an interrupt nobody has
\* sent, except where one of them took the interrupt between enabling interrupts
\* and the wait instruction: publishing the idle bit before the recheck, and the
\* task before the claim, leaves no other window (wait_for_interrupt(),
\* notify_runnable_for()).
OnlyIrqWindowStrands ==
    \A i \in 1..Len(rq) :
        Attended(rq[i]) \/ \E c \in its[rq[i]].aff : c \in lost

\* A real-time task of the second-highest priority is passed over at most
\* RT_LOWER_RUN_BUDGET times in a row by higher ones (fetch_from_queue()).
LowerRtRuns == \A t \in ITasks : passed[t] <= RtBudget

\* Together: no task waits in the ready queue while every CPU that may run it
\* waits for an interrupt nobody sends, outside the one window; and none is
\* passed over for ever by tasks of a higher priority.
IdleSafe == IdleTypeOK /\ OnlyIrqWindowStrands /\ LowerRtRuns

=============================================================================
