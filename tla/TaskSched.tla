------------------------------ MODULE TaskSched ------------------------------
(***************************************************************************)
(* The SMP scheduler and the blocking protocol of os/src/task: how a task  *)
(* goes to sleep on a WaitQueue, how wait-queue wakers, expired timers and *)
(* signals wake it, and how the CPUs hand the task over to each other      *)
(* through running_cpu, blocking_cpu and the shared ready queue.           *)
(*                                                                         *)
(* User tasks run under the foreground driver (task/harness.rs): a wait    *)
(* without a deadline parks the system call, which is restarted when the   *)
(* task runs again; a wait with a deadline keeps its kernel stack and runs *)
(* other tasks on top of it until it is woken ("blocked owner" loop).      *)
(*                                                                         *)
(* One action is one critical section or one atomic access.  Steps that    *)
(* touch only state no other context can reach in between are merged.      *)
(***************************************************************************)
EXTENDS Naturals, Sequences, FiniteSets

CONSTANTS
    Tasks,       \* user task control blocks
    Cpus,        \* processors
    Producers,   \* contexts that make the awaited condition true and wake_all()
    TimerIrqs,   \* contexts that run wake_expired_timers()
    Signallers,  \* contexts that run queue_signal() for a handled signal
    MaxToken,    \* bound on the number of sleeps of one task
    None         \* NO_CPU, no task, no outcome, no lock holder

Wakers == Producers \cup TimerIrqs \cup Signallers

ASSUME NoneAssumption ==
    None \notin Tasks \cup Cpus \cup Wakers
ASSUME WakersAssumption ==
    /\ Producers \cap TimerIrqs = {}
    /\ Producers \cap Signallers = {}
    /\ TimerIrqs \cap Signallers = {}
ASSUME MaxTokenAssumption == MaxToken \in Nat

VARIABLES
    status,      \* TaskControlBlock.status
    runningCpu,  \* TaskControlBlock.running_cpu: the execution claim
    blockingCpu, \* TaskControlBlock.blocking_cpu: the CPU that owns the transition
    token,       \* TaskControlBlock.wait_token
    reason,      \* TaskControlBlock.block_reason.is_some()
    outcome,     \* TaskControlBlock.wait_outcome, with the token of its wake
    pending,     \* a deliverable signal is pending
    lock,        \* holder of the status lock across an early wake
    timed,       \* the wait in progress has a deadline
    parked,      \* the interrupted system call will be restarted
    pc,          \* where the task's kernel path stands
    ready,       \* USER_READY_QUEUE (its queued_pids)
    waiters,     \* WaitQueue.waiters
    timers,      \* TIMER_WAITERS
    event,       \* the condition should_sleep() tests
    frames,      \* per CPU, the nested user runs, innermost last
    jobOp,       \* per CPU, the next step of its scheduler ...
    jobTask,     \* ... for the task in its hands
    wkPc,        \* per waker, its next step ...
    wkTask,      \* ... the task of the entry it works on
    wkTok,       \* ... the token of that entry
    wkHow,       \* ... the outcome it delivers
    wkBatch      \* ... and the expired timers it has taken out

taskVars == <<status, runningCpu, blockingCpu, token, reason, outcome,
              pending, lock, timed, parked, pc>>
queueVars == <<ready, waiters, timers, event>>
job == <<jobOp, jobTask>>
wk == <<wkPc, wkTask, wkTok, wkHow, wkBatch>>
vars == <<taskVars, queueVars, frames, job, wk>>

Statuses == {"Ready", "Running", "Blocked", "Stopped", "Zombie"}
Hows == {"Woken", "TimedOut", "Interrupted"}
Tokens == 0..MaxToken
Entries == [task : Tasks, tok : Tokens]
Outcomes == [how : Hows, tok : Tokens]

TaskPcs == {"off", "boundary", "user", "take", "register", "check", "arm",
            "preblock", "publish", "recheck", "undo", "wait", "resume",
            "finish", "collect", "unwind"}
JobOps == {"none", "start", "parkcheck", "requeue", "handoff", "handoffCheck",
           "ready", "publish", "push", "insert"}
WkPcs == {"idle", "next", "token", "status", "signal", "early", "owner",
          "push", "insert"}

Entry(t) == [task |-> t, tok |-> token[t]]

Top(c) == frames[c][Len(frames[c])]

\* Task t is the innermost run on CPU c, which is executing its kernel path.
Exec(c, t, p) ==
    /\ frames[c] # <<>>
    /\ t = Top(c)
    /\ jobOp[c] = "none"
    /\ pc[t] = p

Goto(t, p) == pc' = [pc EXCEPT ![t] = p]

SetJob(c, op, t) ==
    /\ jobOp' = [jobOp EXCEPT ![c] = op]
    /\ jobTask' = [jobTask EXCEPT ![c] = t]
EndJob(c) == SetJob(c, "none", None)

\* A system call returns to the run loop; a run nested in a blocked owner's
\* loop ends at its first trap.
Boundary(c) == IF Len(frames[c]) = 1 THEN "boundary" ELSE "unwind"

\* is_foreground_user_task_active(): the task is inside run_user_task().
Active(t) == pc[t] \notin {"off", "boundary", "unwind"}

-----------------------------------------------------------------------------
(* Running a user task *)

\* current_cpu_owns_running_user_task()
Owns(c, t) ==
    status[t] = "Running" /\ runningCpu[t] = c /\ blockingCpu[t] = None

\* The head of run_current_user_task_until_reschedule(): deliver a pending
\* signal and enter user mode, or give the CPU up.
EnterUser(c, t) ==
    /\ Exec(c, t, "boundary")
    /\ IF Owns(c, t)
       THEN /\ pending' = [pending EXCEPT ![t] = FALSE]
            /\ Goto(t, "user")
       ELSE /\ Goto(t, "unwind")
            /\ UNCHANGED pending
    /\ UNCHANGED <<status, runningCpu, blockingCpu, token, reason, outcome,
                   lock, timed, parked, queueVars, frames, job, wk>>

\* A timer or inter-processor interrupt returns to the scheduler.
Tick(c, t) ==
    /\ Exec(c, t, "user")
    /\ Goto(t, "unwind")
    /\ UNCHANGED <<status, runningCpu, blockingCpu, token, reason, outcome,
                   pending, lock, timed, parked, queueVars, frames, job, wk>>

\* sched_yield() under the foreground driver.
Yield(c, t) ==
    /\ Exec(c, t, "user")
    /\ ~parked[t]
    /\ lock[t] = None
    /\ status' = [status EXCEPT ![t] = "Ready"]
    /\ Goto(t, Boundary(c))
    /\ UNCHANGED <<runningCpu, blockingCpu, token, reason, outcome, pending,
                   lock, timed, parked, queueVars, frames, job, wk>>

\* A system call uses the condition up (reads the data, reaps the child...).
Consume(c, t) ==
    /\ Exec(c, t, "user")
    /\ event
    /\ event' = FALSE
    /\ Goto(t, Boundary(c))
    /\ UNCHANGED <<status, runningCpu, blockingCpu, token, reason, outcome,
                   pending, lock, timed, parked, ready, waiters, timers,
                   frames, job, wk>>

\* The user-run wrapper: CURRENT_TASK is cleared, the execution claim dropped.
Unwind(c, t) ==
    /\ Exec(c, t, "unwind")
    /\ runningCpu' = [runningCpu EXCEPT ![t] = None]
    /\ frames' = [frames EXCEPT ![c] = SubSeq(@, 1, Len(@) - 1)]
    /\ SetJob(c, "requeue", t)
    /\ Goto(t, "off")
    /\ UNCHANGED <<status, blockingCpu, token, reason, outcome, pending, lock,
                   timed, parked, queueVars, wk>>

-----------------------------------------------------------------------------
(* WaitQueue::sleep_until_keys_if_with_reason *)

\* A parked system call restarts unchanged; another one is free to choose.
StartSleep(c, t) ==
    /\ Exec(c, t, "user")
    /\ parked[t] \/ token[t] < MaxToken
    /\ \E d \in BOOLEAN :
          /\ parked[t] => ~d
          /\ timed' = [timed EXCEPT ![t] = d]
    /\ Goto(t, "take")
    /\ UNCHANGED <<status, runningCpu, blockingCpu, token, reason, outcome,
                   pending, lock, parked, queueVars, frames, job, wk>>

\* Consume the outcome of a completed wait, or go on unless the deadline
\* has passed already.
Take(c, t) ==
    /\ Exec(c, t, "take")
    /\ outcome' = [outcome EXCEPT ![t] = None]
    /\ IF outcome[t] # None
       THEN /\ waiters' = waiters \ {Entry(t)}
            /\ timers' = timers \ {Entry(t)}
            /\ reason' = [reason EXCEPT ![t] = FALSE]
            /\ parked' = [parked EXCEPT ![t] = FALSE]
            /\ Goto(t, Boundary(c))
       ELSE /\ \/ Goto(t, "register")
               \/ timed[t] /\ Goto(t, Boundary(c))
            /\ UNCHANGED <<waiters, timers, reason, parked>>
    /\ UNCHANGED <<status, runningCpu, blockingCpu, token, pending, lock,
                   timed, ready, event, frames, job, wk>>

Register(c, t) ==
    /\ Exec(c, t, "register")
    /\ token[t] < MaxToken
    /\ token' = [token EXCEPT ![t] = @ + 1]
    /\ waiters' = {e \in waiters : e.task # t}
                    \cup {[task |-> t, tok |-> token[t] + 1]}
    /\ timers' = {e \in timers : e.task # t}
    /\ outcome' = [outcome EXCEPT ![t] = None]
    /\ reason' = [reason EXCEPT ![t] = TRUE]
    /\ parked' = [parked EXCEPT ![t] = FALSE]
    /\ Goto(t, "check")
    /\ UNCHANGED <<status, runningCpu, blockingCpu, pending, lock, timed,
                   ready, event, frames, job, wk>>

\* should_sleep() and the pending-signal test, both after registration.
Check(c, t) ==
    /\ Exec(c, t, "check")
    /\ IF event \/ pending[t]
       THEN /\ waiters' = waiters \ {Entry(t)}
            /\ reason' = [reason EXCEPT ![t] = FALSE]
            /\ Goto(t, Boundary(c))
       ELSE /\ Goto(t, "arm")
            /\ UNCHANGED <<waiters, reason>>
    /\ UNCHANGED <<status, runningCpu, blockingCpu, token, outcome, pending,
                   lock, timed, parked, ready, timers, event, frames, job, wk>>

Arm(c, t) ==
    /\ Exec(c, t, "arm")
    /\ timers' = IF timed[t] THEN timers \cup {Entry(t)} ELSE timers
    /\ Goto(t, "preblock")
    /\ UNCHANGED <<status, runningCpu, blockingCpu, token, reason, outcome,
                   pending, lock, timed, parked, ready, waiters, event,
                   frames, job, wk>>

\* block_current_for_reason_until(): an early wake makes the block a no-op;
\* otherwise this CPU becomes the owner of the transition.
PreBlock(c, t) ==
    /\ Exec(c, t, "preblock")
    /\ IF outcome[t] # None
       THEN /\ Goto(t, "finish")
            /\ UNCHANGED <<reason, blockingCpu>>
       ELSE /\ reason' = [reason EXCEPT ![t] = TRUE]
            /\ blockingCpu' = [blockingCpu EXCEPT ![t] = c]
            /\ Goto(t, "publish")
    /\ UNCHANGED <<status, runningCpu, token, outcome, pending, lock, timed,
                   parked, queueVars, frames, job, wk>>

\* block_current_and_run_next(): Running -> Blocked under the status lock.
Publish(c, t) ==
    /\ Exec(c, t, "publish")
    /\ lock[t] = None
    /\ IF status[t] = "Running"
       THEN /\ status' = [status EXCEPT ![t] = "Blocked"]
            /\ Goto(t, "recheck")
            /\ UNCHANGED blockingCpu
       ELSE /\ blockingCpu' = [blockingCpu EXCEPT ![t] = None]
            /\ Goto(t, "finish")
            /\ UNCHANGED status
    /\ UNCHANGED <<runningCpu, token, reason, outcome, pending, lock, timed,
                   parked, queueVars, frames, job, wk>>

\* Mutant: no recheck after Blocked is published.
Recheck_Skipped(c, t) ==
    /\ Exec(c, t, "recheck")
    /\ parked' = [parked EXCEPT ![t] = ~timed[t]]
    /\ Goto(t, IF timed[t] THEN "wait" ELSE "unwind")
    /\ UNCHANGED <<status, runningCpu, blockingCpu, token, reason, outcome,
                   pending, lock, timed, queueVars, frames, job, wk>>

\* The recheck of wait_outcome after Blocked is visible.  Without an early
\* wake the call is parked (no deadline) or waits on its own stack.
Recheck(c, t) ==
    /\ Exec(c, t, "recheck")
    /\ IF outcome[t] # None
       THEN /\ blockingCpu' = [blockingCpu EXCEPT ![t] = None]
            /\ Goto(t, "undo")
            /\ UNCHANGED parked
       ELSE /\ parked' = [parked EXCEPT ![t] = ~timed[t]]
            /\ Goto(t, IF timed[t] THEN "wait" ELSE "unwind")
            /\ UNCHANGED blockingCpu
    /\ UNCHANGED <<status, runningCpu, token, reason, outcome, pending, lock,
                   timed, queueVars, frames, job, wk>>

Undo(c, t) ==
    /\ Exec(c, t, "undo")
    /\ lock[t] = None
    /\ status' = [status EXCEPT ![t] =
                    IF @ \in {"Blocked", "Ready"} THEN "Running" ELSE @]
    /\ Goto(t, "finish")
    /\ UNCHANGED <<runningCpu, blockingCpu, token, reason, outcome, pending,
                   lock, timed, parked, queueVars, frames, job, wk>>

\* The blocked owner's loop ends: give up the transition, leave the queue...
WaitOver(c, t) ==
    /\ Exec(c, t, "wait")
    /\ status[t] # "Blocked"
    /\ blockingCpu' = [blockingCpu EXCEPT ![t] = None]
    /\ ready' = ready \ {t}
    /\ Goto(t, "resume")
    /\ UNCHANGED <<status, runningCpu, token, reason, outcome, pending, lock,
                   timed, parked, waiters, timers, event, frames, job, wk>>

\* ... and take the Ready task back as this CPU's running task.
Resume(c, t) ==
    /\ Exec(c, t, "resume")
    /\ lock[t] = None
    /\ IF status[t] = "Ready"
       THEN /\ status' = [status EXCEPT ![t] = "Running"]
            /\ reason' = [reason EXCEPT ![t] = FALSE]
       ELSE UNCHANGED <<status, reason>>
    /\ Goto(t, "finish")
    /\ UNCHANGED <<runningCpu, blockingCpu, token, outcome, pending, lock,
                   timed, parked, queueVars, frames, job, wk>>

Finish(c, t) ==
    /\ Exec(c, t, "finish")
    /\ reason' = [reason EXCEPT ![t] = FALSE]
    /\ waiters' = waiters \ {Entry(t)}
    /\ timers' = IF timed[t] THEN timers \ {Entry(t)} ELSE timers
    /\ Goto(t, "collect")
    /\ UNCHANGED <<status, runningCpu, blockingCpu, token, outcome, pending,
                   lock, timed, parked, ready, event, frames, job, wk>>

\* finish_wait() takes the outcome and the system call returns.
Collect(c, t) ==
    /\ Exec(c, t, "collect")
    /\ outcome' = [outcome EXCEPT ![t] = None]
    /\ Goto(t, Boundary(c))
    /\ UNCHANGED <<status, runningCpu, blockingCpu, token, reason, pending,
                   lock, timed, parked, queueVars, frames, job, wk>>

\* What a program does in user mode, and what the kernel does for it.
UserStep(c, t) == Yield(c, t) \/ Consume(c, t) \/ StartSleep(c, t)

KernelStep(c, t) ==
    \/ EnterUser(c, t) \/ Unwind(c, t) \/ Take(c, t) \/ Register(c, t)
    \/ Check(c, t) \/ Arm(c, t) \/ PreBlock(c, t) \/ Publish(c, t)
    \/ Recheck(c, t) \/ Undo(c, t) \/ WaitOver(c, t) \/ Resume(c, t)
    \/ Finish(c, t) \/ Collect(c, t)

-----------------------------------------------------------------------------
(* The scheduler loop of a CPU *)

\* A CPU looks for work at the bottom of its stack and in the loop of a
\* blocked owner.
Scheduling(c) ==
    /\ jobOp[c] = "none"
    /\ frames[c] # <<>> => pc[Top(c)] = "wait" /\ status[Top(c)] = "Blocked"

\* fetch_dispatchable_user_task(): entries that are no longer Ready are
\* dropped, tasks inside run_user_task() are skipped.  The task found is
\* started at once, or by wait_for_blocked_owner_event() after another look.
Runnable == {t \in ready : status[t] = "Ready"}

Fetch(c, t) ==
    /\ Scheduling(c)
    /\ t \in Runnable
    /\ ~Active(t)
    /\ ready' = Runnable \ {t}
    /\ \/ SetJob(c, "start", t)
       \/ frames[c] # <<>> /\ SetJob(c, "parkcheck", t)
    /\ UNCHANGED <<taskVars, waiters, timers, event, frames, wk>>

FetchNothing(c) ==
    /\ Scheduling(c)
    /\ Runnable # ready
    /\ \A t \in Runnable : Active(t)
    /\ ready' = Runnable
    /\ UNCHANGED <<taskVars, waiters, timers, event, frames, job, wk>>

ParkCheck(c) ==
    /\ jobOp[c] = "parkcheck"
    /\ SetJob(c, IF status[Top(c)] = "Blocked" THEN "start" ELSE "push",
              jobTask[c])
    /\ UNCHANGED <<taskVars, queueVars, frames, wk>>

\* Mutant: a Ready task is started without looking at its execution claim.
Start_NoClaim(c) ==
    LET t == jobTask[c] IN
    /\ jobOp[c] = "start"
    /\ lock[t] = None
    /\ IF status[t] = "Ready"
       THEN /\ status' = [status EXCEPT ![t] = "Running"]
            /\ runningCpu' = [runningCpu EXCEPT ![t] = c]
            /\ frames' = [frames EXCEPT ![c] = Append(@, t)]
            /\ Goto(t, "boundary")
       ELSE UNCHANGED <<status, runningCpu, frames, pc>>
    /\ EndJob(c)
    /\ UNCHANGED <<blockingCpu, token, reason, outcome, pending, lock, timed,
                   parked, queueVars, wk>>

\* try_start_running(), then CURRENT_TASK = task.
Start(c) ==
    LET t == jobTask[c] IN
    /\ jobOp[c] = "start"
    /\ lock[t] = None
    /\ IF status[t] = "Ready" /\ runningCpu[t] = None
       THEN /\ status' = [status EXCEPT ![t] = "Running"]
            /\ runningCpu' = [runningCpu EXCEPT ![t] = c]
            /\ frames' = [frames EXCEPT ![c] = Append(@, t)]
            /\ Goto(t, "boundary")
       ELSE UNCHANGED <<status, runningCpu, frames, pc>>
    /\ EndJob(c)
    /\ UNCHANGED <<blockingCpu, token, reason, outcome, pending, lock, timed,
                   parked, queueVars, wk>>

\* requeue_after_user_run() samples the status once...
Requeue(c) ==
    LET t == jobTask[c] IN
    /\ jobOp[c] = "requeue"
    /\ CASE status[t] \in {"Zombie", "Stopped"} ->
              /\ blockingCpu' = [blockingCpu EXCEPT ![t] = None]
              /\ EndJob(c)
         [] status[t] = "Blocked" ->
              SetJob(c, "handoff", t) /\ UNCHANGED blockingCpu
         [] OTHER -> SetJob(c, "ready", t) /\ UNCHANGED blockingCpu
    /\ UNCHANGED <<status, runningCpu, token, reason, outcome, pending, lock,
                   timed, parked, pc, queueVars, frames, wk>>

\* ... hands a blocked task's transition to the wakers and then compensates
\* for a waker that saw the old owner...
Handoff(c) ==
    /\ jobOp[c] = "handoff"
    /\ blockingCpu' = [blockingCpu EXCEPT ![jobTask[c]] = None]
    /\ SetJob(c, "handoffCheck", jobTask[c])
    /\ UNCHANGED <<status, runningCpu, token, reason, outcome, pending, lock,
                   timed, parked, pc, queueVars, frames, wk>>

\* Mutant: no second look after the hand-off.
HandoffCheck_Skipped(c) ==
    /\ jobOp[c] = "handoffCheck"
    /\ EndJob(c)
    /\ UNCHANGED <<taskVars, queueVars, frames, wk>>

HandoffCheck(c) ==
    /\ jobOp[c] = "handoffCheck"
    /\ IF status[jobTask[c]] = "Ready"
       THEN SetJob(c, "insert", jobTask[c])
       ELSE EndJob(c)
    /\ UNCHANGED <<taskVars, queueVars, frames, wk>>

\* ... and publishes a task that is still Running or Ready.
RequeueReady(c) ==
    LET t == jobTask[c] IN
    /\ jobOp[c] = "ready"
    /\ blockingCpu' = [blockingCpu EXCEPT ![t] = None]
    /\ reason' = [reason EXCEPT ![t] = FALSE]
    /\ SetJob(c, "publish", t)
    /\ UNCHANGED <<status, runningCpu, token, outcome, pending, lock, timed,
                   parked, pc, queueVars, frames, wk>>

RequeuePublish(c) ==
    LET t == jobTask[c] IN
    /\ jobOp[c] = "publish"
    /\ lock[t] = None
    /\ IF status[t] \in {"Running", "Ready"}
       THEN status' = [status EXCEPT ![t] = "Ready"] /\ SetJob(c, "push", t)
       ELSE EndJob(c) /\ UNCHANGED status
    /\ UNCHANGED <<runningCpu, blockingCpu, token, reason, outcome, pending,
                   lock, timed, parked, pc, queueVars, frames, wk>>

\* push_task_back(): the status is read before the queue lock is taken.
JobPush(c) ==
    /\ jobOp[c] = "push"
    /\ IF status[jobTask[c]] = "Ready"
       THEN SetJob(c, "insert", jobTask[c])
       ELSE EndJob(c)
    /\ UNCHANGED <<taskVars, queueVars, frames, wk>>

JobInsert(c) ==
    /\ jobOp[c] = "insert"
    /\ ready' = ready \cup {jobTask[c]}
    /\ EndJob(c)
    /\ UNCHANGED <<taskVars, waiters, timers, event, frames, wk>>

CpuStep(c) ==
    \/ FetchNothing(c) \/ ParkCheck(c) \/ Start(c) \/ Requeue(c)
    \/ Handoff(c) \/ HandoffCheck(c) \/ RequeueReady(c) \/ RequeuePublish(c)
    \/ JobPush(c) \/ JobInsert(c)

-----------------------------------------------------------------------------
(* Wakers *)

\* Where a waker continues after one entry: wake_all() pops the next waiter,
\* wake_expired_timers() takes the next expired one.
Done(w) == IF w \in Signallers THEN "idle" ELSE "next"

WkGoto(w, p) ==
    /\ wkPc' = [wkPc EXCEPT ![w] = p]
    /\ UNCHANGED <<wkTask, wkTok, wkHow, wkBatch>>

WkTake(w, e, how) ==
    /\ wkPc' = [wkPc EXCEPT ![w] = "token"]
    /\ wkTask' = [wkTask EXCEPT ![w] = e.task]
    /\ wkTok' = [wkTok EXCEPT ![w] = e.tok]
    /\ wkHow' = [wkHow EXCEPT ![w] = how]
    /\ wkBatch' = [wkBatch EXCEPT ![w] = @ \ {e}]

\* The waker is done; what it worked on is forgotten.
WkReset(w) ==
    /\ wkPc' = [wkPc EXCEPT ![w] = "idle"]
    /\ wkTask' = [wkTask EXCEPT ![w] = None]
    /\ wkTok' = [wkTok EXCEPT ![w] = 0]
    /\ UNCHANGED <<wkHow, wkBatch>>

\* The condition becomes true; the queue is woken afterwards.
Produce(w) ==
    /\ w \in Producers
    /\ wkPc[w] = "idle"
    /\ event' = TRUE
    /\ WkGoto(w, "next")
    /\ UNCHANGED <<taskVars, ready, waiters, timers, frames, job>>

\* WaitQueue::wake_all() pops one entry under the queue lock.
PopWaiter(w) ==
    /\ w \in Producers
    /\ wkPc[w] = "next"
    /\ \/ \E e \in waiters :
             /\ waiters' = waiters \ {e}
             /\ WkTake(w, e, "Woken")
       \/ /\ waiters = {}
          /\ WkReset(w)
          /\ UNCHANGED waiters
    /\ UNCHANGED <<taskVars, ready, timers, event, frames, job>>

\* wake_expired_timers() removes the expired entries, then wakes each.
Expire(w) ==
    /\ w \in TimerIrqs
    /\ wkPc[w] = "idle"
    /\ \E b \in SUBSET timers \ {{}} :
          /\ timers' = timers \ b
          /\ wkPc' = [wkPc EXCEPT ![w] = "next"]
          /\ wkBatch' = [wkBatch EXCEPT ![w] = b]
    /\ UNCHANGED <<taskVars, ready, waiters, event, frames, job, wkTask,
                   wkTok, wkHow>>

NextExpired(w) ==
    /\ w \in TimerIrqs
    /\ wkPc[w] = "next"
    /\ \/ \E e \in wkBatch[w] : WkTake(w, e, "TimedOut")
       \/ wkBatch[w] = {} /\ WkReset(w)
    /\ UNCHANGED <<taskVars, queueVars, frames, job>>

\* wake_task_token_with(): the token is compared before the lock is taken.
WkToken(w) ==
    /\ wkPc[w] = "token"
    /\ WkGoto(w, IF token[wkTask[w]] = wkTok[w] THEN "status" ELSE Done(w))
    /\ UNCHANGED <<taskVars, queueVars, frames, job>>

\* Blocked -> Ready with the outcome, under the status lock.
MarkReady(w, o) ==
    LET t == wkTask[w] IN
    /\ lock[t] = None
    /\ status[t] = "Blocked"
    /\ status' = [status EXCEPT ![t] = "Ready"]
    /\ reason' = [reason EXCEPT ![t] = FALSE]
    /\ outcome' = [outcome EXCEPT ![t] = o]
    /\ WkGoto(w, "owner")
    /\ UNCHANGED <<runningCpu, blockingCpu, token, pending, lock, timed,
                   parked, pc>>

\* Mutant: a wake that finds the task not Blocked yet is dropped.
WkStatus_NoEarly(w) ==
    LET t == wkTask[w] IN
    /\ wkPc[w] = "status"
    /\ lock[t] = None
    /\ \/ MarkReady(w, [how |-> wkHow[w], tok |-> wkTok[w]])
       \/ /\ status[t] # "Blocked"
          /\ WkGoto(w, Done(w))
          /\ UNCHANGED taskVars
    /\ UNCHANGED <<queueVars, frames, job>>

WkStatus(w) ==
    LET t == wkTask[w] IN
    /\ wkPc[w] = "status"
    /\ lock[t] = None
    /\ \/ MarkReady(w, [how |-> wkHow[w], tok |-> wkTok[w]])
       \/ /\ status[t] # "Blocked"
          /\ IF reason[t]
             THEN lock' = [lock EXCEPT ![t] = w] /\ WkGoto(w, "early")
             ELSE WkGoto(w, Done(w)) /\ UNCHANGED lock
          /\ UNCHANGED <<status, runningCpu, blockingCpu, token, reason,
                         outcome, pending, timed, parked, pc>>
    /\ UNCHANGED <<queueVars, frames, job>>

\* The task is on its way to Blocked: leave the outcome for its recheck.
WkEarly(w) ==
    LET t == wkTask[w] IN
    /\ wkPc[w] = "early"
    /\ outcome' = [outcome EXCEPT ![t] =
                     [how |-> wkHow[w], tok |-> wkTok[w]]]
    /\ lock' = [lock EXCEPT ![t] = None]
    /\ WkGoto(w, Done(w))
    /\ UNCHANGED <<status, runningCpu, blockingCpu, token, reason, pending,
                   timed, parked, pc, queueVars, frames, job>>

\* An unowned task is enqueued; an owned one is left to its owner's CPU.
WkOwner(w) ==
    /\ wkPc[w] = "owner"
    /\ WkGoto(w, IF blockingCpu[wkTask[w]] = None THEN "push" ELSE Done(w))
    /\ UNCHANGED <<taskVars, queueVars, frames, job>>

WkPush(w) ==
    /\ wkPc[w] = "push"
    /\ WkGoto(w, IF status[wkTask[w]] = "Ready" THEN "insert" ELSE Done(w))
    /\ UNCHANGED <<taskVars, queueVars, frames, job>>

WkInsert(w) ==
    /\ wkPc[w] = "insert"
    /\ ready' = ready \cup {wkTask[w]}
    /\ WkGoto(w, Done(w))
    /\ UNCHANGED <<taskVars, waiters, timers, event, frames, job>>

\* queue_signal() of a handled, unblocked signal...
Raise(w) ==
    /\ w \in Signallers
    /\ wkPc[w] = "idle"
    /\ \E t \in Tasks :
          /\ pending' = [pending EXCEPT ![t] = TRUE]
          /\ wkPc' = [wkPc EXCEPT ![w] = "signal"]
          /\ wkTask' = [wkTask EXCEPT ![w] = t]
    /\ UNCHANGED <<status, runningCpu, blockingCpu, token, reason, outcome,
                   lock, timed, parked, pc, queueVars, frames, job, wkTok,
                   wkHow, wkBatch>>

\* ... then wake_for_signal(), which only wakes a task that is Blocked.
WkSignal(w) ==
    LET t == wkTask[w] IN
    /\ wkPc[w] = "signal"
    /\ \/ /\ pending[t]
          /\ MarkReady(w, [how |-> "Interrupted", tok |-> token[t]])
       \/ /\ status[t] # "Blocked" \/ ~pending[t]
          /\ WkGoto(w, "idle")
          /\ UNCHANGED taskVars
    /\ UNCHANGED <<queueVars, frames, job>>

WakerStep(w) ==
    \/ PopWaiter(w) \/ NextExpired(w) \/ WkToken(w) \/ WkStatus(w)
    \/ WkEarly(w) \/ WkOwner(w) \/ WkPush(w) \/ WkInsert(w) \/ WkSignal(w)

-----------------------------------------------------------------------------
\* The tasks of `live' have been created; the others have exited.
InitWith(live) ==
    /\ status = [t \in Tasks |-> IF t \in live THEN "Ready" ELSE "Zombie"]
    /\ runningCpu = [t \in Tasks |-> None]
    /\ blockingCpu = [t \in Tasks |-> None]
    /\ token = [t \in Tasks |-> 0]
    /\ reason = [t \in Tasks |-> FALSE]
    /\ outcome = [t \in Tasks |-> None]
    /\ pending = [t \in Tasks |-> FALSE]
    /\ lock = [t \in Tasks |-> None]
    /\ timed = [t \in Tasks |-> FALSE]
    /\ parked = [t \in Tasks |-> FALSE]
    /\ pc = [t \in Tasks |-> "off"]
    /\ ready = live
    /\ waiters = {}
    /\ timers = {}
    /\ event = FALSE
    /\ frames = [c \in Cpus |-> <<>>]
    /\ jobOp = [c \in Cpus |-> "none"]
    /\ jobTask = [c \in Cpus |-> None]
    /\ wkPc = [w \in Wakers |-> "idle"]
    /\ wkTask = [w \in Wakers |-> None]
    /\ wkTok = [w \in Wakers |-> 0]
    /\ wkHow = [w \in Wakers |-> "Woken"]
    /\ wkBatch = [w \in Wakers |-> {}]

Init == InitWith(Tasks)

Next ==
    \/ \E c \in Cpus : CpuStep(c)
    \/ \E c \in Cpus, t \in Tasks :
          Fetch(c, t) \/ Tick(c, t) \/ UserStep(c, t) \/ KernelStep(c, t)
    \/ \E w \in Wakers : Produce(w) \/ Expire(w) \/ Raise(w) \/ WakerStep(w)

Spec == Init /\ [][Next]_vars

(***************************************************************************)
(* The kernel keeps running: a CPU in the kernel or a waker in the middle  *)
(* of a wake takes its next step, armed timers expire.  A pending timer    *)
(* interrupt is taken whenever user mode is entered (strong fairness of    *)
(* Tick), and the ready queue is first in, first out (strong fairness of   *)
(* Fetch per task).  Programs and producers owe nothing.                   *)
(***************************************************************************)
Fairness ==
    /\ \A c \in Cpus : WF_vars(CpuStep(c))
    /\ \A c \in Cpus, t \in Tasks :
          WF_vars(KernelStep(c, t)) /\ SF_vars(Tick(c, t))
    /\ \A t \in Tasks : SF_vars(\E c \in Cpus : Fetch(c, t))
    /\ \A w \in Wakers : WF_vars(WakerStep(w)) /\ WF_vars(Expire(w))

-----------------------------------------------------------------------------
(* Properties *)

TaskTypes ==
    /\ status \in [Tasks -> Statuses]
    /\ runningCpu \in [Tasks -> Cpus \cup {None}]
    /\ blockingCpu \in [Tasks -> Cpus \cup {None}]
    /\ token \in [Tasks -> Tokens]
    /\ reason \in [Tasks -> BOOLEAN]
    /\ outcome \in [Tasks -> Outcomes \cup {None}]
    /\ pending \in [Tasks -> BOOLEAN]
    /\ lock \in [Tasks -> Wakers \cup {None}]
    /\ timed \in [Tasks -> BOOLEAN]
    /\ parked \in [Tasks -> BOOLEAN]
    /\ pc \in [Tasks -> TaskPcs]

QueueTypes ==
    /\ ready \subseteq Tasks
    /\ waiters \subseteq Entries
    /\ timers \subseteq Entries
    /\ event \in BOOLEAN

CpuTypes ==
    /\ frames \in [Cpus -> Seq(Tasks)]
    /\ jobOp \in [Cpus -> JobOps]
    /\ jobTask \in [Cpus -> Tasks \cup {None}]
    /\ \A c \in Cpus : jobOp[c] # "none" => jobTask[c] # None

WakerTypes ==
    /\ wkPc \in [Wakers -> WkPcs]
    /\ wkTask \in [Wakers -> Tasks \cup {None}]
    /\ wkTok \in [Wakers -> Tokens]
    /\ wkHow \in [Wakers -> Hows]
    /\ wkBatch \in [Wakers -> SUBSET Entries]
    /\ \A w \in Wakers : wkPc[w] \notin {"idle", "next"} => wkTask[w] # None

\* The types of the scheduler's state; a CPU's scheduler, and a waker that has
\* taken an entry, always have a task in hand.
TypeOK == TaskTypes /\ QueueTypes /\ CpuTypes /\ WakerTypes

OnCpu(c, t) == \E i \in 1..Len(frames[c]) : frames[c][i] = t

\* A task's kernel stack and trap frame are in use by at most one CPU, and
\* only once there: what the running_cpu claim of try_start_running() and
\* release_running_cpu() exists for, whatever stale ready-queue entries,
\* late wakers and hand-offs do.
OneCpu ==
    /\ \A c \in Cpus : \A i, j \in 1..Len(frames[c]) :
          frames[c][i] = frames[c][j] => i = j
    /\ \A c, d \in Cpus, t \in Tasks : OnCpu(c, t) /\ OnCpu(d, t) => c = d

\* Somebody is still going to look at task t's status and put it back into
\* the ready queue, or run it.
Requeuer(t) ==
    \/ \E c \in Cpus : OnCpu(c, t)
    \/ \E c \in Cpus : jobOp[c] # "none" /\ jobTask[c] = t
    \/ \E w \in Wakers : wkPc[w] \in {"owner", "push", "insert"}
                         /\ wkTask[w] = t

\* A Ready task is never forgotten: it is queued, or a CPU or a waker that
\* will queue or run it has not finished with it.  This is the hand-off of
\* requeue_after_user_run() against mark_blocked_task_ready().
ReadyNotLost ==
    \A t \in Tasks : status[t] = "Ready" => t \in ready \/ Requeuer(t)

\* A wakeup for the wait that task t is in is under way: its own recheck
\* will find the outcome, a waker is about to mark it Ready, or one is still
\* emptying the queue.
WakeInFlight(t) ==
    \/ pc[t] \in {"recheck", "undo"} /\ outcome[t] # None
    \/ \E w \in Wakers : /\ wkTask[w] = t
                         /\ wkTok[w] = token[t]
                         /\ wkPc[w] \in {"token", "status"}
    \/ /\ Entry(t) \in waiters
       /\ \E w \in Producers : wkPc[w] # "idle"

\* No lost wakeup: if the condition a Blocked task sleeps on is true, a
\* wakeup for this wait is under way.  The waiter registers before it tests
\* the condition, the producer sets the condition before it pops the queue,
\* and the wait_outcome recheck covers the switch to Blocked.
NoLostWakeup ==
    \A t \in Tasks : status[t] = "Blocked" /\ event => WakeInFlight(t)

\* Stale timer wakeups are rejected by the wait token: the outcome a task
\* finds was meant for the wait its token stands for.
NoStaleOutcome ==
    \A t \in Tasks : outcome[t] # None => outcome[t].tok = token[t]

\* A deliverable signal does not leave its task asleep: a Blocked task with
\* a pending signal is about to be interrupted.
SignalNotLost ==
    \A t \in Tasks : status[t] = "Blocked" /\ pending[t] =>
        \/ \E w \in Signallers : wkPc[w] = "signal" /\ wkTask[w] = t
        \/ WakeInFlight(t)

\* A woken or preempted task runs again: neither the queue hand-offs nor the
\* runs nested on a blocked owner's stack keep a Ready task off its CPU.
ReadyRuns ==
    \A t \in Tasks : status[t] = "Ready" ~> status[t] = "Running"

\* A wait with a deadline ends.
TimedWaitEnds ==
    \A t \in Tasks :
        status[t] = "Blocked" /\ timed[t] ~> status[t] = "Running"

\* A task whose condition holds while it sleeps runs again.
WakeupDelivered ==
    \A t \in Tasks : status[t] = "Blocked" /\ event ~> status[t] = "Running"

\* Together: every wait ends that can, by its wakeup or its deadline.
WaitsEnd == WakeupDelivered /\ TimedWaitEnds

=============================================================================
