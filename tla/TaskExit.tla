------------------------------ MODULE TaskExit ------------------------------
(***************************************************************************)
(* How tasks and thread groups end, stop and continue (os/src/task/mod.rs, *)
(* syscall/signal.rs, syscall/process.rs) while other CPUs run, start or   *)
(* requeue the same tasks.                                                 *)
(*                                                                         *)
(* Blocking is reduced to its effect on the status; TaskSched has the      *)
(* protocol.  A CPU that stops, continues or terminates a group visits the *)
(* members one after the other, each in the critical sections of the code. *)
(***************************************************************************)
EXTENDS Naturals, Sequences, FiniteSets

CONSTANTS
    Tasks,      \* user task control blocks, created or not
    Groups,     \* thread groups
    GroupOf,    \* the group of each task
    FirstTasks, \* the tasks that exist at the beginning
    Cpus,
    Calls,      \* the operations that the programs use
    None

AllCalls == {"exit", "exit_group", "kill", "exec", "stop", "cont", "clone",
             "yield", "block"}

ASSUME GroupOfAssumption == GroupOf \in [Tasks -> Groups]
ASSUME FirstTasksAssumption == FirstTasks \subseteq Tasks
ASSUME CallsAssumption == Calls \subseteq AllCalls
ASSUME ExitNoneAssumption == None \notin Tasks \cup Groups \cup Cpus

VARIABLES
    status,      \* TaskControlBlock.status, "Absent" before clone
    runningCpu,  \* TaskControlBlock.running_cpu
    frame,       \* TaskControlBlock.trap_frame.is_some()
    ready,       \* USER_READY_QUEUE
    members,     \* ThreadGroup.members, in order of creation
    procZombie,  \* ThreadGroup.process_zombie
    stopped,     \* ThreadGroup.stopped
    cur,         \* per CPU, the task whose run it executes
    at,          \* per CPU, its next step
    op,          \* per CPU, the group operation it performs ...
    grp,         \* ... on this group
    left,        \* ... with these members still to visit
    mem          \* ... and this one in hand

taskVars == <<status, runningCpu, frame, ready>>
groupVars == <<members, procZombie, stopped>>
opVars == <<op, grp, left, mem>>
vars == <<taskVars, groupVars, cur, at, opVars>>

Statuses == {"Absent", "Ready", "Running", "Blocked", "Stopped", "Zombie"}
CpuPcs == {"idle", "boundary", "user", "exitCheck", "release", "unwind",
           "drop", "requeue", "visit", "purge", "stopPurge", "stopSet",
           "contSet", "contPush"}
Ops == {"none", "exit_group", "kill", "exec", "stop", "cont"}

MembersOf(g) == {members[g][i] : i \in 1..Len(members[g])}

AllZombie(g) == \A t \in MembersOf(g) : status[t] = "Zombie"

GotoAt(c, p) == at' = [at EXCEPT ![c] = p]

\* current_cpu_owns_running_user_task()
Owns(c) == status[cur[c]] = "Running" /\ runningCpu[cur[c]] = c

\* is_foreground_user_task_active()
ActiveRun(t) == \E c \in Cpus :
    cur[c] = t /\ at[c] \notin {"boundary", "unwind", "drop", "requeue"}

-----------------------------------------------------------------------------
(* Running *)

\* fetch_dispatchable_user_task() and try_start_running().  An entry whose
\* task another CPU still holds is dropped: that CPU requeues the task.  A
\* task without a trap frame is given up.
Dispatch(c, t) ==
    /\ at[c] = "idle"
    /\ t \in ready
    /\ status[t] = "Ready"
    /\ ~ActiveRun(t)
    /\ ready' = {u \in ready : status[u] = "Ready"} \ {t}
    /\ IF runningCpu[t] = None
       THEN /\ status' = [status EXCEPT ![t] = "Running"]
            /\ IF frame[t]
               THEN /\ runningCpu' = [runningCpu EXCEPT ![t] = c]
                    /\ frame' = [frame EXCEPT ![t] = FALSE]
                    /\ cur' = [cur EXCEPT ![c] = t]
                    /\ GotoAt(c, "boundary")
               ELSE UNCHANGED <<runningCpu, frame, cur, at>>
       ELSE UNCHANGED <<status, runningCpu, frame, cur, at>>
    /\ UNCHANGED <<groupVars, opVars>>

\* run_current_user_task_until_reschedule() before each entry to user mode.
EnterUser(c) ==
    /\ at[c] = "boundary"
    /\ GotoAt(c, IF Owns(c) THEN "user" ELSE "unwind")
    /\ UNCHANGED <<taskVars, groupVars, cur, opVars>>

\* A timer interrupt ends the run.
Tick(c) ==
    /\ at[c] = "user"
    /\ GotoAt(c, "unwind")
    /\ UNCHANGED <<taskVars, groupVars, cur, opVars>>

\* yield_current_once() sets Ready whatever the status is.
Yield(c) ==
    /\ "yield" \in Calls
    /\ at[c] = "user"
    /\ status' = [status EXCEPT ![cur[c]] = "Ready"]
    /\ GotoAt(c, "boundary")
    /\ UNCHANGED <<runningCpu, frame, ready, groupVars, cur, opVars>>

\* Mutant: Blocked is published whatever the status is.
Block_Unconditional(c) ==
    /\ "block" \in Calls
    /\ at[c] = "user"
    /\ frame' = [frame EXCEPT ![cur[c]] = TRUE]
    /\ status' = [status EXCEPT ![cur[c]] = "Blocked"]
    /\ GotoAt(c, "unwind")
    /\ UNCHANGED <<runningCpu, ready, groupVars, cur, opVars>>

\* block_current_and_run_next() saves the frame and publishes Blocked unless
\* somebody changed the status of the running task.
Block(c) ==
    /\ "block" \in Calls
    /\ at[c] = "user"
    /\ frame' = [frame EXCEPT ![cur[c]] = TRUE]
    /\ IF status[cur[c]] = "Running"
       THEN /\ status' = [status EXCEPT ![cur[c]] = "Blocked"]
            /\ GotoAt(c, "unwind")
       ELSE GotoAt(c, "boundary") /\ UNCHANGED status
    /\ UNCHANGED <<runningCpu, ready, groupVars, cur, opVars>>

\* A wakeup; the hand-off of the ready-queue entry is TaskSched's subject.
Wake(t) ==
    /\ status[t] = "Blocked"
    /\ status' = [status EXCEPT ![t] = "Ready"]
    /\ ready' = ready \cup {t}
    /\ UNCHANGED <<runningCpu, frame, groupVars, cur, at, opVars>>

\* After run_user_task(): the frame is kept unless the task has ended, ...
Unwind(c) ==
    /\ at[c] = "unwind"
    /\ frame' = [frame EXCEPT ![cur[c]] = @ \/ status[cur[c]] # "Zombie"]
    /\ GotoAt(c, "drop")
    /\ UNCHANGED <<status, runningCpu, ready, groupVars, cur, opVars>>

\* ... release_running_cpu() drops the claim if this CPU holds it, ...
Drop(c) ==
    /\ at[c] = "drop"
    /\ runningCpu' = [runningCpu EXCEPT ![cur[c]] = IF @ = c THEN None ELSE @]
    /\ GotoAt(c, "requeue")
    /\ UNCHANGED <<status, frame, ready, groupVars, cur, opVars>>

\* ... and requeue_after_user_run() queues a task that can go on.
Requeue(c) ==
    /\ at[c] = "requeue"
    /\ IF status[cur[c]] \in {"Running", "Ready"}
       THEN /\ status' = [status EXCEPT ![cur[c]] = "Ready"]
            /\ ready' = ready \cup {cur[c]}
       ELSE UNCHANGED <<status, ready>>
    /\ cur' = [cur EXCEPT ![c] = None]
    /\ GotoAt(c, "idle")
    /\ UNCHANGED <<runningCpu, frame, groupVars, opVars>>

-----------------------------------------------------------------------------
(* Creating and ending *)

\* sys_clone() with CLONE_THREAD: the new member of the caller's group is
\* registered and queued; the state of the group is not looked at.
Clone(c, u) ==
    LET g == GroupOf[u] IN
    /\ "clone" \in Calls
    /\ at[c] = "user"
    /\ status[u] = "Absent"
    /\ g = GroupOf[cur[c]]
    /\ status' = [status EXCEPT ![u] = "Ready"]
    /\ frame' = [frame EXCEPT ![u] = TRUE]
    /\ ready' = ready \cup {u}
    /\ members' = [members EXCEPT ![g] = Append(@, u)]
    /\ GotoAt(c, "boundary")
    /\ UNCHANGED <<runningCpu, procZombie, stopped, cur, opVars>>

\* finish_task_exit() for the task that runs here.
FinishTask(t) ==
    /\ ready' = ready \ {t}
    /\ frame' = [frame EXCEPT ![t] = FALSE]
    /\ status' = [status EXCEPT ![t] = "Zombie"]

\* exit_current_and_run_next(): the task ends, ...
Exit(c) ==
    /\ "exit" \in Calls
    /\ at[c] = "user"
    /\ FinishTask(cur[c])
    /\ GotoAt(c, "exitCheck")
    /\ UNCHANGED <<runningCpu, groupVars, cur, opVars>>

\* Mutant: the other threads are looked at before this one has ended.
ExitCheck_Early(c) ==
    LET g == GroupOf[cur[c]] IN
    /\ at[c] = "exitCheck"
    /\ procZombie' = [procZombie EXCEPT ![g] = @ \/ Cardinality(MembersOf(g)) = 1]
    /\ GotoAt(c, "release")
    /\ UNCHANGED <<taskVars, members, stopped, cur, opVars>>

\* ... with the last member the process (finish_process_exit), ...
ExitCheck(c) ==
    LET g == GroupOf[cur[c]] IN
    /\ at[c] = "exitCheck"
    /\ procZombie' = [procZombie EXCEPT ![g] = @ \/ AllZombie(g)]
    /\ GotoAt(c, "release")
    /\ UNCHANGED <<taskVars, members, stopped, cur, opVars>>

\* ... and the claim is dropped before the kernel stack is left.
Release(c) ==
    /\ at[c] = "release"
    /\ runningCpu' = [runningCpu EXCEPT ![cur[c]] = IF @ = c THEN None ELSE @]
    /\ GotoAt(c, "unwind")
    /\ UNCHANGED <<status, frame, ready, groupVars, cur, opVars>>

-----------------------------------------------------------------------------
(* Operations on a group *)

BeginOp(c, o, g, ms) ==
    /\ op' = [op EXCEPT ![c] = o]
    /\ grp' = [grp EXCEPT ![c] = g]
    /\ left' = [left EXCEPT ![c] = ms]
    /\ GotoAt(c, "visit")
    /\ UNCHANGED <<taskVars, members, procZombie, cur, mem>>

\* exit_thread_group_and_run_next()
ExitGroup(c) ==
    LET g == GroupOf[cur[c]] IN
    /\ "exit_group" \in Calls
    /\ at[c] = "user"
    /\ BeginOp(c, "exit_group", g, members[g])
    /\ UNCHANGED stopped

\* terminate_task_group(): a signal whose default action ends the process.
Kill(c, g) ==
    /\ "kill" \in Calls
    /\ at[c] = "user"
    /\ BeginOp(c, "kill", g, members[g])
    /\ UNCHANGED stopped

\* terminate_thread_group_peers_for_exec()
Exec(c) ==
    LET g == GroupOf[cur[c]] IN
    /\ "exec" \in Calls
    /\ at[c] = "user"
    /\ BeginOp(c, "exec", g, SelectSeq(members[g], LAMBDA t : t # cur[c]))
    /\ UNCHANGED stopped

\* stop_task_group()
Stop(c, g) ==
    /\ "stop" \in Calls
    /\ at[c] = "user"
    /\ ~procZombie[g]
    /\ BeginOp(c, "stop", g, members[g])
    /\ stopped' = [stopped EXCEPT ![g] = TRUE]

\* continue_task_group(): only a group that was marked stopped is continued.
Cont(c, g) ==
    /\ "cont" \in Calls
    /\ at[c] = "user"
    /\ ~procZombie[g]
    /\ stopped[g]
    /\ BeginOp(c, "cont", g, members[g])
    /\ stopped' = [stopped EXCEPT ![g] = FALSE]

\* The next member is dealt with, or passed over.
TakeMember(c, p) ==
    /\ mem' = [mem EXCEPT ![c] = Head(left[c])]
    /\ left' = [left EXCEPT ![c] = Tail(@)]
    /\ GotoAt(c, p)
    /\ UNCHANGED <<runningCpu, groupVars, cur, op, grp>>

\* request_task_exit() marks the member under its status lock; a member that
\* runs here is finished on the spot.
VisitEnd(c) ==
    LET t == Head(left[c]) IN
    /\ at[c] = "visit" /\ left[c] # <<>>
    /\ op[c] \in {"exit_group", "kill", "exec"}
    /\ \/ t = cur[c] /\ FinishTask(t) /\ TakeMember(c, "visit")
       \/ /\ t # cur[c]
          /\ status' = [status EXCEPT ![t] = "Zombie"]
          /\ TakeMember(c, IF status[t] = "Zombie" THEN "visit" ELSE "purge")
          /\ UNCHANGED <<frame, ready>>

\* The rest of request_task_exit().
PurgeEnded(c) ==
    /\ at[c] = "purge"
    /\ ready' = ready \ {mem[c]}
    /\ frame' = [frame EXCEPT ![mem[c]] = FALSE]
    /\ GotoAt(c, "visit")
    /\ UNCHANGED <<status, runningCpu, groupVars, cur, opVars>>

\* stop_task_group() looks at the status, purges the member's queue entries
\* and sets Stopped, each on its own.
VisitStop(c) ==
    /\ at[c] = "visit" /\ left[c] # <<>>
    /\ op[c] = "stop"
    /\ TakeMember(c, IF status[Head(left[c])] = "Zombie" THEN "visit"
                                                         ELSE "stopPurge")
    /\ UNCHANGED <<status, frame, ready>>

StopPurge(c) ==
    /\ at[c] = "stopPurge"
    /\ ready' = ready \ {mem[c]}
    /\ GotoAt(c, "stopSet")
    /\ UNCHANGED <<status, runningCpu, frame, groupVars, cur, opVars>>

StopSet(c) ==
    /\ at[c] = "stopSet"
    /\ status' = [status EXCEPT ![mem[c]] = "Stopped"]
    /\ GotoAt(c, "visit")
    /\ UNCHANGED <<runningCpu, frame, ready, groupVars, cur, opVars>>

\* continue_task_group() looks at the status, sets Ready and queues the task.
VisitCont(c) ==
    /\ at[c] = "visit" /\ left[c] # <<>>
    /\ op[c] = "cont"
    /\ TakeMember(c, IF status[Head(left[c])] = "Stopped" THEN "contSet"
                                                          ELSE "visit")
    /\ UNCHANGED <<status, frame, ready>>

ContSet(c) ==
    /\ at[c] = "contSet"
    /\ status' = [status EXCEPT ![mem[c]] = "Ready"]
    /\ GotoAt(c, "contPush")
    /\ UNCHANGED <<runningCpu, frame, ready, groupVars, cur, opVars>>

ContPush(c) ==
    /\ at[c] = "contPush"
    /\ ready' = IF status[mem[c]] = "Ready" THEN ready \cup {mem[c]} ELSE ready
    /\ GotoAt(c, "visit")
    /\ UNCHANGED <<status, runningCpu, frame, groupVars, cur, opVars>>

\* All members are done: finish_process_exit() marks the process once.
EndOp(c) ==
    /\ at[c] = "visit" /\ left[c] = <<>>
    /\ procZombie' = IF op[c] \in {"exit_group", "kill"}
                     THEN [procZombie EXCEPT ![grp[c]] = TRUE]
                     ELSE procZombie
    /\ GotoAt(c, IF op[c] = "exit_group" THEN "release" ELSE "boundary")
    /\ op' = [op EXCEPT ![c] = "none"]
    /\ grp' = [grp EXCEPT ![c] = None]
    /\ mem' = [mem EXCEPT ![c] = None]
    /\ UNCHANGED <<taskVars, members, stopped, cur, left>>

-----------------------------------------------------------------------------
Init ==
    /\ status = [t \in Tasks |-> IF t \in FirstTasks THEN "Ready" ELSE "Absent"]
    /\ runningCpu = [t \in Tasks |-> None]
    /\ frame = [t \in Tasks |-> t \in FirstTasks]
    /\ ready = FirstTasks
    /\ members \in [Groups -> UNION {[1..n -> Tasks] : n \in 0..Cardinality(FirstTasks)}]
    /\ \A g \in Groups :
          /\ MembersOf(g) = {t \in FirstTasks : GroupOf[t] = g}
          /\ Len(members[g]) = Cardinality(MembersOf(g))
    /\ procZombie = [g \in Groups |-> FALSE]
    /\ stopped = [g \in Groups |-> FALSE]
    /\ cur = [c \in Cpus |-> None]
    /\ at = [c \in Cpus |-> "idle"]
    /\ op = [c \in Cpus |-> "none"]
    /\ grp = [c \in Cpus |-> None]
    /\ left = [c \in Cpus |-> <<>>]
    /\ mem = [c \in Cpus |-> None]

\* What a program asks for, and what the kernel does about it.
Program(c) ==
    \/ Yield(c) \/ Block(c) \/ Exit(c) \/ ExitGroup(c) \/ Exec(c)
    \/ \E u \in Tasks : Clone(c, u)
    \/ \E g \in Groups : Kill(c, g) \/ Stop(c, g) \/ Cont(c, g)

Kernel(c) ==
    \/ EnterUser(c) \/ Unwind(c) \/ Drop(c) \/ Requeue(c) \/ ExitCheck(c)
    \/ Release(c) \/ VisitEnd(c) \/ PurgeEnded(c) \/ VisitStop(c)
    \/ StopPurge(c) \/ StopSet(c) \/ VisitCont(c) \/ ContSet(c)
    \/ ContPush(c) \/ EndOp(c)

Next ==
    \/ \E c \in Cpus : Tick(c) \/ Program(c) \/ Kernel(c)
    \/ \E c \in Cpus, t \in Tasks : Dispatch(c, t)
    \/ \E t \in Tasks : Wake(t)

Spec == Init /\ [][Next]_vars

-----------------------------------------------------------------------------
(* Properties *)

\* The types; a CPU outside its idle loop has a task, and one that works on a
\* member knows which.
TypeOK ==
    /\ status \in [Tasks -> Statuses]
    /\ runningCpu \in [Tasks -> Cpus \cup {None}]
    /\ frame \in [Tasks -> BOOLEAN]
    /\ ready \subseteq Tasks
    /\ members \in [Groups -> Seq(Tasks)]
    /\ procZombie \in [Groups -> BOOLEAN]
    /\ stopped \in [Groups -> BOOLEAN]
    /\ cur \in [Cpus -> Tasks \cup {None}]
    /\ at \in [Cpus -> CpuPcs]
    /\ op \in [Cpus -> Ops]
    /\ grp \in [Cpus -> Groups \cup {None}]
    /\ left \in [Cpus -> Seq(Tasks)]
    /\ mem \in [Cpus -> Tasks \cup {None}]
    /\ \A c \in Cpus : (at[c] = "idle") <=> (cur[c] = None)

\* A task that has ended stays ended: exit, exit_group and a fatal signal
\* terminate it for good, whatever the CPU that still runs it does.
ExitIsFinal ==
    [][\A t \in Tasks : status[t] = "Zombie" => status'[t] = "Zombie"]_vars

\* A task is executed by one CPU at a time, although exit drops running_cpu
\* while the kernel stack is still in use.
OneCpu ==
    \A c, d \in Cpus : /\ cur[c] # None /\ cur[c] = cur[d]
                       /\ at[c] # "requeue" /\ at[d] # "requeue"
                       => c = d

\* The process ends with its last thread: once all members are zombies the
\* group is marked, or a CPU that will mark it is on its way.
LastThreadEndsProcess ==
    \A g \in Groups : MembersOf(g) # {} /\ AllZombie(g) =>
        \/ procZombie[g]
        \/ \E c \in Cpus : at[c] = "exitCheck" /\ GroupOf[cur[c]] = g
        \/ \E c \in Cpus : op[c] \in {"exit_group", "kill"} /\ grp[c] = g

\* A Ready task can be run: it is queued or in the hands of a CPU that will
\* queue it, and its user context has been kept.
ReadyCanRun ==
    \A t \in Tasks : status[t] = "Ready" =>
        \/ t \in ready /\ frame[t]
        \/ \E c \in Cpus : cur[c] = t
        \/ \E c \in Cpus : at[c] \in {"contPush", "stopSet"} /\ mem[c] = t

\* exit_group and fatal signals end every thread of the process: none is
\* left once the process is a zombie.
GroupIsGone == \A g \in Groups : procZombie[g] => AllZombie(g)

\* A stopped task can be continued: its group is marked stopped, so that
\* SIGCONT will find it, or an operation on the group is still under way.
StoppedCanContinue ==
    \A t \in Tasks : status[t] = "Stopped" =>
        \/ stopped[GroupOf[t]] \/ procZombie[GroupOf[t]]
        \/ \E c \in Cpus : grp[c] = GroupOf[t]

\* Together: a process ends with its last thread and its threads end with it,
\* while a thread that has not ended can run, or be continued and then run, on
\* one CPU (exit_current_and_run_next(), exit_group, fatal and job-control
\* signals).
GroupsSafe ==
    TypeOK /\ OneCpu /\ LastThreadEndsProcess /\ GroupIsGone /\ ReadyCanRun /\ StoppedCanContinue

=============================================================================
