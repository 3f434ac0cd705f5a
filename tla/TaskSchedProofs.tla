-------------------------- MODULE TaskSchedProofs ---------------------------
(***************************************************************************)
(* Proofs about TaskSched, for any number of tasks, CPUs and wakers:       *)
(* type correctness, no task on two CPUs, no Ready task lost.              *)
(***************************************************************************)
EXTENDS TaskSched, TLAPS

-----------------------------------------------------------------------------
(* Type correctness of TaskSched for any number of tasks, CPUs and wakers. *)

USE NoneAssumption, MaxTokenAssumption

\* The initial state is well typed.
LEMMA InitType == Init => TypeOK
<1> SUFFICES ASSUME Init PROVE TypeOK
  BY Zenon
<1>1. TaskTypes
  <2>1. 0 \in Tokens
    BY DEF Tokens
  <2> QED
    BY <2>1, Zenon DEF Init, InitWith, TaskTypes, Statuses, TaskPcs
<1>2. QueueTypes
  BY Zenon DEF Init, InitWith, QueueTypes
<1>3. CpuTypes
  <2>1. <<>> \in Seq(Tasks)
    OBVIOUS
  <2> QED
    BY <2>1, Zenon DEF Init, InitWith, CpuTypes, JobOps
<1>4. WakerTypes
  BY DEF Init, InitWith, WakerTypes, WkPcs, Hows, Tokens
<1> QED
  BY <1>1, <1>2, <1>3, <1>4, Zenon DEF TypeOK

\* A step that leaves a group of variables alone keeps their types.
LEMMA Frame ==
    /\ TaskTypes /\ UNCHANGED taskVars => TaskTypes'
    /\ QueueTypes /\ UNCHANGED queueVars => QueueTypes'
    /\ CpuTypes /\ UNCHANGED frames /\ UNCHANGED job => CpuTypes'
    /\ WakerTypes /\ UNCHANGED wk => WakerTypes'
<1>1. TaskTypes /\ UNCHANGED taskVars => TaskTypes'
  BY Zenon DEF TaskTypes, taskVars
<1>2. QueueTypes /\ UNCHANGED queueVars => QueueTypes'
  BY Zenon DEF QueueTypes, queueVars
<1>3. CpuTypes /\ UNCHANGED frames /\ UNCHANGED job => CpuTypes'
  BY Zenon DEF CpuTypes, job
<1>4. WakerTypes /\ UNCHANGED wk => WakerTypes'
  BY Zenon DEF WakerTypes, wk
<1> QED
  BY <1>1, <1>2, <1>3, <1>4, Zenon

\* Every step keeps the types.
LEMMA TypeStep == TypeOK /\ [Next]_vars => TypeOK'
<1> SUFFICES ASSUME TypeOK, [Next]_vars PROVE TypeOK'
  BY Zenon
<1> USE DEF TypeOK
<1>1. ASSUME NEW c \in Cpus, CpuStep(c) PROVE TypeOK'
  <2>1. CASE FetchNothing(c)
    <3>1. QueueTypes'
      BY <2>1, Zenon DEF FetchNothing, Runnable, QueueTypes, CpuTypes, TaskTypes,
         WakerTypes
    <3> QED
      BY <2>1, <3>1, Frame, Zenon DEF FetchNothing
  <2>2. CASE ParkCheck(c)
    <3>1. CpuTypes'
      BY <2>2, Zenon DEF ParkCheck, SetJob, CpuTypes, JobOps
    <3> QED
      BY <2>2, <3>1, Frame, Zenon DEF ParkCheck
  <2>3. CASE Start(c)
    <3> DEFINE t == jobTask[c]
    <3>1. t \in Tasks
      BY <2>3, Zenon DEF Start, CpuTypes
    <3>2. CASE status[t] = "Ready" /\ runningCpu[t] = None
      <4>1. TaskTypes'
        BY <2>3, <3>1, <3>2 DEF Start, Goto, TaskTypes, TaskPcs, Statuses
      <4>2. CpuTypes'
        <5>1. Append(frames[c], t) \in Seq(Tasks)
          BY <3>1 DEF CpuTypes
        <5> QED
          BY <2>3, <3>2, <5>1, ZenonT(30) DEF Start, EndJob, SetJob, CpuTypes, JobOps
      <4> QED
        BY <2>3, <4>1, <4>2, Frame, Zenon DEF Start
    <3>3. CASE ~(status[t] = "Ready" /\ runningCpu[t] = None)
      <4>1. UNCHANGED taskVars
        BY <2>3, <3>3, Zenon DEF Start, taskVars
      <4>2. CpuTypes'
        BY <2>3, <3>3, Zenon DEF Start, EndJob, SetJob, CpuTypes, JobOps
      <4> QED
        BY <2>3, <4>1, <4>2, Frame, Zenon DEF Start
    <3> QED
      BY <3>2, <3>3, Zenon
  <2>4. CASE Requeue(c)
    <3>1. TaskTypes'
      BY <2>4, Zenon DEF Requeue, SetJob, EndJob, TaskTypes, CpuTypes, WakerTypes
    <3>2. CpuTypes'
      BY <2>4, ZenonT(30) DEF Requeue, SetJob, EndJob, CpuTypes, JobOps
    <3> QED
      BY <2>4, <3>1, <3>2, Frame, Zenon DEF Requeue
  <2>5. CASE Handoff(c)
    <3>1. TaskTypes'
      BY <2>5, Zenon DEF Handoff, SetJob, TaskTypes, CpuTypes, WakerTypes
    <3>2. CpuTypes'
      BY <2>5, Zenon DEF Handoff, SetJob, CpuTypes, JobOps
    <3> QED
      BY <2>5, <3>1, <3>2, Frame, Zenon DEF Handoff
  <2>6. CASE HandoffCheck(c)
    <3>1. CpuTypes'
      BY <2>6, Zenon DEF HandoffCheck, SetJob, EndJob, CpuTypes, JobOps
    <3> QED
      BY <2>6, <3>1, Frame, Zenon DEF HandoffCheck
  <2>7. CASE RequeueReady(c)
    <3>1. TaskTypes'
      BY <2>7, Zenon DEF RequeueReady, SetJob, TaskTypes, CpuTypes, WakerTypes
    <3>2. CpuTypes'
      BY <2>7, Zenon DEF RequeueReady, SetJob, CpuTypes, JobOps
    <3> QED
      BY <2>7, <3>1, <3>2, Frame, Zenon DEF RequeueReady
  <2>8. CASE RequeuePublish(c)
    <3>1. TaskTypes'
      BY <2>8, ZenonT(30) DEF RequeuePublish, SetJob, EndJob, TaskTypes, CpuTypes,
         WakerTypes, Statuses
    <3>2. CpuTypes'
      BY <2>8, ZenonT(30) DEF RequeuePublish, SetJob, EndJob, CpuTypes, JobOps
    <3> QED
      BY <2>8, <3>1, <3>2, Frame, Zenon DEF RequeuePublish
  <2>9. CASE JobPush(c)
    <3>1. CpuTypes'
      BY <2>9, Zenon DEF JobPush, SetJob, EndJob, CpuTypes, JobOps
    <3> QED
      BY <2>9, <3>1, Frame, Zenon DEF JobPush
  <2>10. CASE JobInsert(c)
    <3>1. QueueTypes'
      BY <2>10 DEF JobInsert, EndJob, SetJob, QueueTypes, CpuTypes,
         TaskTypes, WakerTypes
    <3>2. CpuTypes'
      BY <2>10, Zenon DEF JobInsert, EndJob, SetJob, CpuTypes, JobOps
    <3> QED
      BY <2>10, <3>1, <3>2, Frame, Zenon DEF JobInsert
  <2> QED
    BY <1>1, <2>1, <2>2, <2>3, <2>4, <2>5, <2>6, <2>7, <2>8, <2>9, <2>10, Zenon
       DEF CpuStep
<1>2. ASSUME NEW c \in Cpus, NEW t \in Tasks,
             Fetch(c, t) \/ Tick(c, t) \/ UserStep(c, t) \/ KernelStep(c, t)
      PROVE  TypeOK'
  <2>1. CASE Fetch(c, t)
    <3>1. QueueTypes'
      BY <2>1, Zenon DEF Fetch, SetJob, Runnable, QueueTypes, CpuTypes,
         TaskTypes, WakerTypes
    <3>2. CpuTypes'
      BY <2>1, ZenonT(30) DEF Fetch, SetJob, Runnable, CpuTypes, JobOps
    <3> QED
      BY <2>1, <3>1, <3>2, Frame, Zenon DEF Fetch
  <2>2. CASE Tick(c, t)
    <3>1. TaskTypes'
      BY <2>2, Zenon DEF Tick, Exec, Goto, TaskTypes, CpuTypes, WakerTypes,
         TaskPcs
    <3> QED
      BY <2>2, <3>1, Frame, Zenon DEF Tick
  <2>3. CASE Yield(c, t)
    <3>1. TaskTypes'
      BY <2>3, Zenon DEF Yield, Exec, Goto, Boundary, TaskTypes, CpuTypes,
         WakerTypes, TaskPcs, Statuses
    <3> QED
      BY <2>3, <3>1, Frame, Zenon DEF Yield
  <2>4. CASE Consume(c, t)
    <3>1. TaskTypes'
      BY <2>4, Zenon DEF Consume, Exec, Goto, Boundary, TaskTypes, CpuTypes,
         WakerTypes, TaskPcs
    <3>2. QueueTypes'
      BY <2>4, Zenon DEF Consume, Exec, Goto, Boundary, QueueTypes, CpuTypes,
         TaskTypes, WakerTypes
    <3> QED
      BY <2>4, <3>1, <3>2, Frame, Zenon DEF Consume
  <2>5. CASE StartSleep(c, t)
    <3>1. TaskTypes'
      BY <2>5 DEF StartSleep, Exec, Goto, TaskTypes, CpuTypes, WakerTypes,
         TaskPcs
    <3> QED
      BY <2>5, <3>1, Frame, Zenon DEF StartSleep
  <2>6. CASE EnterUser(c, t)
    <3>1. TaskTypes'
      BY <2>6, ZenonT(30) DEF EnterUser, Exec, Goto, TaskTypes, CpuTypes, WakerTypes,
         TaskPcs
    <3> QED
      BY <2>6, <3>1, Frame, Zenon DEF EnterUser
  <2>7. CASE Unwind(c, t)
    <3>1. TaskTypes'
      BY <2>7, Zenon DEF Unwind, Exec, Goto, SetJob, TaskTypes, CpuTypes,
         WakerTypes, TaskPcs
    <3>2. CpuTypes'
      BY <2>7 DEF Unwind, Exec, Goto, SetJob, CpuTypes, JobOps
    <3> QED
      BY <2>7, <3>1, <3>2, Frame, Zenon DEF Unwind
  <2>8. CASE Take(c, t)
    <3>1. TaskTypes'
      BY <2>8, ZenonT(30) DEF Take, Exec, Goto, Boundary, Entry, TaskTypes, CpuTypes,
         WakerTypes, TaskPcs
    <3>2. QueueTypes'
      BY <2>8 DEF Take, Exec, Goto, Boundary, Entry, QueueTypes, CpuTypes,
         TaskTypes, WakerTypes, Entries
    <3> QED
      BY <2>8, <3>1, <3>2, Frame, Zenon DEF Take
  <2>9. CASE Register(c, t)
    <3>1. TaskTypes'
      BY <2>9 DEF Register, Exec, Goto, TaskTypes, CpuTypes, WakerTypes,
         TaskPcs, Tokens
    <3>2. QueueTypes'
      BY <2>9 DEF Register, Exec, Goto, QueueTypes, CpuTypes, TaskTypes,
         WakerTypes, Entries, Tokens
    <3> QED
      BY <2>9, <3>1, <3>2, Frame, Zenon DEF Register
  <2>10. CASE Check(c, t)
    <3>1. TaskTypes'
      BY <2>10, ZenonT(30) DEF Check, Exec, Goto, Boundary, Entry, TaskTypes,
         CpuTypes, WakerTypes, TaskPcs
    <3>2. QueueTypes'
      BY <2>10, Zenon DEF Check, Exec, Goto, Boundary, Entry, QueueTypes,
         CpuTypes, TaskTypes, WakerTypes, Entries
    <3> QED
      BY <2>10, <3>1, <3>2, Frame, Zenon DEF Check
  <2>11. CASE Arm(c, t)
    <3>1. TaskTypes'
      BY <2>11, Zenon DEF Arm, Exec, Goto, Entry, TaskTypes, CpuTypes,
         WakerTypes, TaskPcs
    <3>2. QueueTypes'
      BY <2>11 DEF Arm, Exec, Goto, Entry, QueueTypes, CpuTypes,
         TaskTypes, WakerTypes, Entries
    <3> QED
      BY <2>11, <3>1, <3>2, Frame, Zenon DEF Arm
  <2>12. CASE PreBlock(c, t)
    <3>1. CASE outcome[t] # None
      BY <2>12, <3>1, Frame, Zenon DEF PreBlock, Goto, TaskTypes, TaskPcs
    <3>2. CASE outcome[t] = None
      <4>1. /\ reason' = [reason EXCEPT ![t] = TRUE]
            /\ blockingCpu' = [blockingCpu EXCEPT ![t] = c]
            /\ pc' = [pc EXCEPT ![t] = "publish"]
        BY <2>12, <3>2, Zenon DEF PreBlock, Goto
      <4>2. TaskTypes'
        BY <2>12, <4>1, Zenon DEF PreBlock, TaskTypes, TaskPcs
      <4> QED
        BY <2>12, <4>2, Frame, Zenon DEF PreBlock
    <3> QED
      BY <3>1, <3>2, Zenon
  <2>13. CASE Publish(c, t)
    <3>1. CASE status[t] = "Running"
      BY <2>13, <3>1, Frame DEF Publish, Goto, TaskTypes, TaskPcs, Statuses
    <3>2. CASE ~(status[t] = "Running")
      BY <2>13, <3>2, Frame DEF Publish, Goto, TaskTypes, TaskPcs, Statuses
    <3> QED
      BY <3>1, <3>2, Zenon
  <2>14. CASE Recheck(c, t)
    <3>1. pc' \in [Tasks -> TaskPcs]
      <4>1. CASE outcome[t] # None
        BY <2>14, <4>1, Zenon DEF Recheck, Goto, TaskTypes, TaskPcs
      <4>2. CASE outcome[t] = None
        BY <2>14, <4>2 DEF Recheck, Goto, TaskTypes, TaskPcs
      <4> QED
        BY <4>1, <4>2, Zenon
    <3>2. parked' \in [Tasks -> BOOLEAN]
      BY <2>14, Zenon DEF Recheck, TaskTypes
    <3>3. blockingCpu' \in [Tasks -> Cpus \cup {None}]
      BY <2>14, Zenon DEF Recheck, TaskTypes
    <3> QED
      BY <2>14, <3>1, <3>2, <3>3, Frame, Zenon DEF Recheck, TaskTypes
  <2>15. CASE Undo(c, t)
    <3>1. TaskTypes'
      BY <2>15, Zenon DEF Undo, Exec, Goto, TaskTypes, CpuTypes, WakerTypes,
         TaskPcs, Statuses
    <3> QED
      BY <2>15, <3>1, Frame, Zenon DEF Undo
  <2>16. CASE WaitOver(c, t)
    <3>1. TaskTypes'
      BY <2>16, Zenon DEF WaitOver, Exec, Goto, TaskTypes, CpuTypes, WakerTypes,
         TaskPcs
    <3>2. QueueTypes'
      BY <2>16, Zenon DEF WaitOver, Exec, Goto, QueueTypes, CpuTypes, TaskTypes,
         WakerTypes
    <3> QED
      BY <2>16, <3>1, <3>2, Frame, Zenon DEF WaitOver
  <2>17. CASE Resume(c, t)
    <3>1. CASE status[t] = "Ready"
      BY <2>17, <3>1, Frame, ZenonT(30) DEF Resume, Goto, TaskTypes, TaskPcs, Statuses
    <3>2. CASE ~(status[t] = "Ready")
      BY <2>17, <3>2, Frame, Zenon DEF Resume, Goto, TaskTypes, TaskPcs, Statuses
    <3> QED
      BY <3>1, <3>2, Zenon
  <2>18. CASE Finish(c, t)
    <3>1. TaskTypes'
      BY <2>18, Zenon DEF Finish, Exec, Goto, Entry, TaskTypes, CpuTypes,
         WakerTypes, TaskPcs
    <3>2. QueueTypes'
      BY <2>18, Zenon DEF Finish, Exec, Goto, Entry, QueueTypes, CpuTypes,
         TaskTypes, WakerTypes, Entries
    <3> QED
      BY <2>18, <3>1, <3>2, Frame, Zenon DEF Finish
  <2>19. CASE Collect(c, t)
    <3>1. TaskTypes'
      BY <2>19, Zenon DEF Collect, Exec, Goto, Boundary, TaskTypes, CpuTypes,
         WakerTypes, TaskPcs
    <3> QED
      BY <2>19, <3>1, Frame, Zenon DEF Collect
  <2> QED
    BY <1>2, <2>1, <2>2, <2>3, <2>4, <2>5, <2>6, <2>7, <2>8, <2>9, <2>10,
       <2>11, <2>12, <2>13, <2>14, <2>15, <2>16, <2>17, <2>18, <2>19, Zenon DEF
       UserStep, KernelStep
<1>3. ASSUME NEW w \in Wakers,
             Produce(w) \/ Expire(w) \/ Raise(w) \/ WakerStep(w)
      PROVE  TypeOK'
  <2>1. CASE Produce(w)
    <3>1. QueueTypes'
      BY <2>1, Zenon DEF Produce, WkGoto, QueueTypes, CpuTypes, TaskTypes,
         WakerTypes
    <3>2. WakerTypes'
      BY <2>1, Zenon DEF Produce, WkGoto, WakerTypes, QueueTypes, TaskTypes,
         WkPcs
    <3> QED
      BY <2>1, <3>1, <3>2, Frame, Zenon DEF Produce
  <2>2. CASE Expire(w)
    <3>1. QueueTypes'
      BY <2>2, Zenon DEF Expire, QueueTypes, CpuTypes, TaskTypes, WakerTypes
    <3>2. WakerTypes'
      BY <2>2 DEF Expire, WakerTypes, QueueTypes, TaskTypes, WkPcs
    <3> QED
      BY <2>2, <3>1, <3>2, Frame, Zenon DEF Expire
  <2>3. CASE Raise(w)
    <3>1. TaskTypes'
      BY <2>3, Zenon DEF Raise, TaskTypes, CpuTypes, WakerTypes
    <3>2. WakerTypes'
      BY <2>3 DEF Raise, WakerTypes, QueueTypes, TaskTypes, WkPcs
    <3> QED
      BY <2>3, <3>1, <3>2, Frame, Zenon DEF Raise
  <2>4. CASE PopWaiter(w)
    <3>1. CASE \E e \in waiters : WkTake(w, e, "Woken") /\ waiters' = waiters \ {e}
      <4>1. PICK e \in waiters : WkTake(w, e, "Woken") /\ waiters' = waiters \ {e}
        BY <3>1, Zenon
      <4>2. e.task \in Tasks /\ e.tok \in Tokens
        BY Zenon DEF QueueTypes, WakerTypes, Entries
      <4>3. QueueTypes'
        BY <2>4, <3>1, Zenon DEF PopWaiter, QueueTypes
      <4>4. WakerTypes'
        BY <4>1, <4>2, Zenon DEF WkTake, WakerTypes, WkPcs, Hows
      <4> QED
        BY <2>4, <4>3, <4>4, Frame, Zenon DEF PopWaiter
    <3>2. CASE WkReset(w) /\ UNCHANGED waiters
      <4>1. WakerTypes'
        <5>1. 0 \in Tokens
          BY DEF Tokens
        <5> QED
          BY <3>2, <5>1, Zenon DEF WkReset, WakerTypes, WkPcs
      <4>2. QueueTypes'
        BY <2>4, <3>2, Zenon DEF PopWaiter, QueueTypes
      <4> QED
        BY <2>4, <4>1, <4>2, Frame, Zenon DEF PopWaiter
    <3> QED
      BY <2>4, <3>1, <3>2, Zenon DEF PopWaiter
  <2>5. CASE NextExpired(w)
    <3>1. CASE \E e \in wkBatch[w] : WkTake(w, e, "TimedOut")
      <4>1. PICK e \in wkBatch[w] : WkTake(w, e, "TimedOut")
        BY <3>1, Zenon
      <4>2. e.task \in Tasks /\ e.tok \in Tokens
        BY DEF QueueTypes, WakerTypes, Entries
      <4>4. WakerTypes'
        BY <4>1, <4>2, Zenon DEF WkTake, WakerTypes, WkPcs, Hows
      <4> QED
        BY <2>5, <4>4, Frame, Zenon DEF NextExpired
    <3>2. CASE WkReset(w)
      <4>1. WakerTypes'
        <5>1. 0 \in Tokens
          BY DEF Tokens
        <5> QED
          BY <3>2, <5>1, Zenon DEF WkReset, WakerTypes, WkPcs
      <4> QED
        BY <2>5, <4>1, Frame, Zenon DEF NextExpired
    <3> QED
      BY <2>5, <3>1, <3>2, Zenon DEF NextExpired
  <2>6. CASE WkToken(w)
    <3>1. WakerTypes'
      BY <2>6, Zenon DEF WkToken, WkGoto, Done, WakerTypes, QueueTypes,
         TaskTypes, WkPcs
    <3> QED
      BY <2>6, <3>1, Frame, Zenon DEF WkToken
  <2>7. CASE WkStatus(w)
    <3> DEFINE t == wkTask[w]
    <3>1. t \in Tasks
      BY <2>7, Zenon DEF WkStatus, WakerTypes
    <3>2. CASE MarkReady(w, [how |-> wkHow[w], tok |-> wkTok[w]])
      <4>1. [how |-> wkHow[w], tok |-> wkTok[w]] \in Outcomes
        BY <3>1, Zenon DEF Outcomes, Hows, WakerTypes, TaskTypes
      <4>2. TaskTypes'
        BY <3>1, <3>2, <4>1, Zenon DEF MarkReady, TaskTypes, Statuses
      <4>3. WakerTypes'
        BY <3>1, <3>2, Zenon DEF MarkReady, WkGoto, WakerTypes, WkPcs
      <4> QED
        BY <2>7, <4>2, <4>3, Frame, Zenon DEF WkStatus
    <3>3. CASE status[t] # "Blocked" /\ reason[t]
      <4>1. TaskTypes'
        BY <2>7, <3>1, <3>3 DEF WkStatus, MarkReady, TaskTypes
      <4>2. WakerTypes'
        BY <2>7, <3>1, <3>3 DEF WkStatus, MarkReady, WkGoto, WakerTypes, WkPcs
      <4> QED
        BY <2>7, <4>1, <4>2, Frame DEF WkStatus
    <3>4. CASE status[t] # "Blocked" /\ ~reason[t]
      <4>1. UNCHANGED taskVars
        BY <2>7, <3>4, Zenon DEF WkStatus, MarkReady, taskVars
      <4>2. WakerTypes'
        BY <2>7, <3>1, <3>4, Zenon
        DEF WkStatus, MarkReady, WkGoto, Done, WakerTypes, WkPcs
      <4> QED
        BY <2>7, <4>1, <4>2, Frame, Zenon DEF WkStatus
    <3> QED
      BY <2>7, <3>2, <3>3, <3>4, Zenon DEF WkStatus
  <2>8. CASE WkEarly(w)
    <3>1. TaskTypes'
      BY <2>8, Zenon DEF WkEarly, WkGoto, Done, TaskTypes, CpuTypes, WakerTypes,
         Outcomes, Hows
    <3>2. WakerTypes'
      BY <2>8, Zenon DEF WkEarly, WkGoto, Done, WakerTypes, QueueTypes,
         TaskTypes, WkPcs
    <3> QED
      BY <2>8, <3>1, <3>2, Frame, Zenon DEF WkEarly
  <2>9. CASE WkOwner(w)
    <3>1. WakerTypes'
      BY <2>9, Zenon DEF WkOwner, WkGoto, Done, WakerTypes, QueueTypes,
         TaskTypes, WkPcs
    <3> QED
      BY <2>9, <3>1, Frame, Zenon DEF WkOwner
  <2>10. CASE WkPush(w)
    <3>1. WakerTypes'
      BY <2>10, Zenon DEF WkPush, WkGoto, Done, WakerTypes, QueueTypes,
         TaskTypes, WkPcs
    <3> QED
      BY <2>10, <3>1, Frame, Zenon DEF WkPush
  <2>11. CASE WkInsert(w)
    <3>1. QueueTypes'
      BY <2>11 DEF WkInsert, WkGoto, Done, QueueTypes, CpuTypes,
         TaskTypes, WakerTypes
    <3>2. WakerTypes'
      BY <2>11, Zenon DEF WkInsert, WkGoto, Done, WakerTypes, QueueTypes,
         TaskTypes, WkPcs
    <3> QED
      BY <2>11, <3>1, <3>2, Frame, Zenon DEF WkInsert
  <2>12. CASE WkSignal(w)
    <3> DEFINE t == wkTask[w]
    <3>1. t \in Tasks
      BY <2>12, Zenon DEF WkSignal, WakerTypes
    <3>2. CASE MarkReady(w, [how |-> "Interrupted", tok |-> token[t]])
      <4>1. [how |-> "Interrupted", tok |-> token[t]] \in Outcomes
        BY <3>1, Zenon DEF Outcomes, Hows, WakerTypes, TaskTypes
      <4>2. TaskTypes'
        BY <3>1, <3>2, <4>1, Zenon DEF MarkReady, TaskTypes, Statuses
      <4>3. WakerTypes'
        BY <3>1, <3>2, Zenon DEF MarkReady, WkGoto, WakerTypes, WkPcs
      <4> QED
        BY <2>12, <4>2, <4>3, Frame, Zenon DEF WkSignal
    <3>3. CASE WkGoto(w, "idle") /\ UNCHANGED taskVars
      <4>1. WakerTypes'
        BY <3>3, Zenon DEF WkGoto, WakerTypes, WkPcs
      <4> QED
        BY <2>12, <3>3, <4>1, Frame, Zenon DEF WkSignal
    <3> QED
      BY <2>12, <3>2, <3>3, Zenon DEF WkSignal
  <2> QED
    BY <1>3, <2>1, <2>2, <2>3, <2>4, <2>5, <2>6, <2>7, <2>8, <2>9, <2>10,
       <2>11, <2>12, Zenon DEF WakerStep
<1>4. CASE UNCHANGED vars
  BY <1>4, Frame, Zenon DEF vars
<1> QED
  BY <1>1, <1>2, <1>3, <1>4, Zenon DEF Next

\* The scheduler's state is well typed, for any tasks, CPUs and wakers.
THEOREM TypeCorrect == Spec => []TypeOK
<1>1. TypeOK /\ [Next]_vars => TypeOK'
  BY TypeStep, Zenon
<1> QED
  BY <1>1, InitType, PTL DEF Spec

-----------------------------------------------------------------------------
(* Mutual exclusion in TaskSched for any number of tasks, CPUs and wakers: *)
(* a task runs on one CPU at a time.                                       *)

USE NoneAssumption

\* running_cpu names exactly the CPU whose stack the task is on.
Claim ==
    /\ \A c \in Cpus, t \in Tasks : OnCpu(c, t) <=> runningCpu[t] = c
    /\ \A c \in Cpus : \A i, j \in 1..Len(frames[c]) :
          frames[c][i] = frames[c][j] => i = j

\* The innermost run of a CPU holds the claim on its task.
LEMMA ExecClaim ==
    ASSUME TypeOK, Claim, NEW c \in Cpus, NEW t \in Tasks,
           frames[c] # <<>>, t = Top(c)
    PROVE  runningCpu[t] = c
<1>1. Len(frames[c]) \in 1..Len(frames[c])
  BY DEF TypeOK, CpuTypes
<1>2. OnCpu(c, t)
  BY <1>1, Zenon DEF Top, OnCpu
<1> QED
  BY <1>2, Zenon DEF Claim

\* The variables these proofs are about are functions.
LEMMA Functional ==
    ASSUME TypeOK
    PROVE  /\ status \in [Tasks -> Statuses]
           /\ runningCpu \in [Tasks -> Cpus \cup {None}]
           /\ blockingCpu \in [Tasks -> Cpus \cup {None}]
           /\ frames \in [Cpus -> Seq(Tasks)]
           /\ jobOp \in [Cpus -> JobOps]
           /\ jobTask \in [Cpus -> Tasks \cup {None}]
           /\ \A c \in Cpus : jobOp[c] # "none" => jobTask[c] \in Tasks
           /\ wkPc \in [Wakers -> WkPcs]
           /\ wkTask \in [Wakers -> Tasks \cup {None}]
           /\ \A w \in Wakers : wkPc[w] \notin {"idle", "next"}
                                => wkTask[w] \in Tasks
  BY Zenon DEF TypeOK, TaskTypes, CpuTypes, WakerTypes

\* What a task does on its own kernel path concerns nobody else.
Local(t) ==
    /\ UNCHANGED <<runningCpu, frames, jobOp, jobTask, wkPc, wkTask>>
    /\ \A u \in Tasks \ {t} : /\ status'[u] = status[u]
                              /\ blockingCpu'[u] = blockingCpu[u]
                              /\ u \in ready => u \in ready'

LEMMA LocalStep ==
    ASSUME TypeOK, NEW c \in Cpus, NEW t \in Tasks,
           Tick(c, t) \/ UserStep(c, t) \/ KernelStep(c, t), ~Unwind(c, t)
    PROVE  Local(t) /\ frames[c] # <<>> /\ t = Top(c)
<1> USE Functional DEF Local, Exec, queueVars, job, wk
<1>1. CASE Tick(c, t)
  BY <1>1, Zenon DEF Tick
<1>2. CASE Yield(c, t)
  BY <1>2, Zenon DEF Yield
<1>3. CASE Consume(c, t)
  BY <1>3, Zenon DEF Consume
<1>4. CASE StartSleep(c, t)
  BY <1>4, Zenon DEF StartSleep
<1>5. CASE EnterUser(c, t)
  BY <1>5, Zenon DEF EnterUser
<1>6. CASE Take(c, t)
  BY <1>6, Zenon DEF Take
<1>7. CASE Register(c, t)
  BY <1>7, Zenon DEF Register
<1>8. CASE Check(c, t)
  BY <1>8, Zenon DEF Check
<1>9. CASE Arm(c, t)
  BY <1>9, Zenon DEF Arm
<1>10. CASE PreBlock(c, t)
  <2>1. CASE outcome[t] # None
    BY <1>10, <2>1, Zenon DEF PreBlock
  <2>2. CASE ~(outcome[t] # None)
    BY <1>10, <2>2, Zenon DEF PreBlock
  <2> QED
    BY <2>1, <2>2, Zenon
<1>11. CASE Publish(c, t)
  <2>1. CASE status[t] = "Running"
    BY <1>11, <2>1 DEF Publish
  <2>2. CASE ~(status[t] = "Running")
    BY <1>11, <2>2 DEF Publish
  <2> QED
    BY <2>1, <2>2, Zenon
<1>12. CASE Recheck(c, t)
  <2>1. CASE outcome[t] # None
    BY <1>12, <2>1, Zenon DEF Recheck
  <2>2. CASE ~(outcome[t] # None)
    BY <1>12, <2>2, Zenon DEF Recheck
  <2> QED
    BY <2>1, <2>2, Zenon
<1>13. CASE Undo(c, t)
  BY <1>13, Zenon DEF Undo
<1>14. CASE WaitOver(c, t)
  BY <1>14, Zenon DEF WaitOver
<1>15. CASE Resume(c, t)
  <2>1. CASE status[t] = "Ready"
    BY <1>15, <2>1 DEF Resume
  <2>2. CASE ~(status[t] = "Ready")
    BY <1>15, <2>2, Zenon DEF Resume
  <2> QED
    BY <2>1, <2>2, Zenon
<1>16. CASE Finish(c, t)
  BY <1>16, Zenon DEF Finish
<1>17. CASE Collect(c, t)
  BY <1>17, Zenon DEF Collect
<1> QED
  BY <1>1, <1>2, <1>3, <1>4, <1>5, <1>6, <1>7, <1>8, <1>9, <1>10, <1>11,
     <1>12, <1>13, <1>14, <1>15, <1>16, <1>17, Zenon DEF UserStep, KernelStep

\* Wakers touch neither the claims nor the CPUs' schedulers.
LEMMA WakerLocal ==
    ASSUME NEW w, Produce(w) \/ Expire(w) \/ Raise(w) \/ WakerStep(w)
    PROVE  UNCHANGED <<runningCpu, blockingCpu, frames, jobOp, jobTask>>
<1> USE DEF taskVars, job
<1>1. CASE Produce(w)
  BY <1>1, Zenon DEF Produce
<1>2. CASE Expire(w)
  BY <1>2, Zenon DEF Expire
<1>3. CASE Raise(w)
  BY <1>3, Zenon DEF Raise
<1>4. CASE PopWaiter(w)
  BY <1>4, Zenon DEF PopWaiter
<1>5. CASE NextExpired(w)
  BY <1>5, Zenon DEF NextExpired
<1>6. CASE WkToken(w)
  BY <1>6, Zenon DEF WkToken
<1>7. CASE WkStatus(w)
  BY <1>7, Zenon DEF WkStatus, MarkReady
<1>8. CASE WkEarly(w)
  BY <1>8, Zenon DEF WkEarly
<1>9. CASE WkOwner(w)
  BY <1>9, Zenon DEF WkOwner
<1>10. CASE WkPush(w)
  BY <1>10, Zenon DEF WkPush
<1>11. CASE WkInsert(w)
  BY <1>11, Zenon DEF WkInsert
<1>12. CASE WkSignal(w)
  BY <1>12, Zenon DEF WkSignal, MarkReady
<1> QED
  BY <1>1, <1>2, <1>3, <1>4, <1>5, <1>6, <1>7, <1>8, <1>9, <1>10, <1>11,
     <1>12, Zenon DEF WakerStep

\* Claim is kept: only try_start_running() and release_running_cpu() touch
\* running_cpu, and they push and pop the same task.
LEMMA ClaimStart ==
    ASSUME TypeOK, Claim, NEW c \in Cpus, Start(c)
    PROVE  Claim'
<1>1. PICK t \in Tasks : t = jobTask[c]
  BY Zenon DEF Start, TypeOK, CpuTypes
<1>2. CASE status[t] = "Ready" /\ runningCpu[t] = None
  <2>1. /\ frames' = [frames EXCEPT ![c] = Append(@, t)]
        /\ runningCpu' = [runningCpu EXCEPT ![t] = c]
    BY <1>1, <1>2, Zenon DEF Start
  <2>2. /\ frames \in [Cpus -> Seq(Tasks)]
        /\ runningCpu \in [Tasks -> Cpus \cup {None}]
    BY Functional, Zenon
  <2>3. ~OnCpu(c, t)
    BY <1>1, <1>2, Zenon DEF Claim
  <2>4. /\ Len(frames'[c]) = Len(frames[c]) + 1
        /\ frames'[c][Len(frames[c]) + 1] = t
        /\ \A i \in 1..Len(frames[c]) : frames'[c][i] = frames[c][i]
        /\ Len(frames[c]) \in Nat
    BY <1>1, <2>1, <2>2
  <2>5. \A u \in Tasks : OnCpu(c, u)' <=> OnCpu(c, u) \/ u = t
    <3>1. \A i : i \in 1..Len(frames'[c]) <=>
                  i \in 1..Len(frames[c]) \/ i = Len(frames[c]) + 1
      BY <2>4
    <3> QED
      BY <2>4, <3>1, Zenon DEF OnCpu
  <2>6. \A d \in Cpus \ {c}, u \in Tasks : OnCpu(d, u)' <=> OnCpu(d, u)
    BY <2>1, <2>2, Zenon DEF OnCpu
  <2>7. \A d \in Cpus, u \in Tasks : OnCpu(d, u)' <=> runningCpu'[u] = d
    <3>1. runningCpu'[t] = c
      BY <1>1, <2>1, <2>2, Zenon
    <3>2. \A d \in Cpus : OnCpu(d, t)' <=> d = c
      <4>1. OnCpu(c, t)'
        BY <1>1, <2>5, Zenon
      <4>2. \A d \in Cpus : ~OnCpu(d, t)
        BY <1>1, <1>2, Zenon DEF Claim
      <4> QED
        BY <1>1, <2>6, <4>1, <4>2, Zenon
    <3>3. \A u \in Tasks \ {t} : runningCpu'[u] = runningCpu[u]
      BY <2>1, <2>2, Zenon
    <3>4. \A d \in Cpus, u \in Tasks \ {t} : OnCpu(d, u)' <=> OnCpu(d, u)
      BY <2>5, <2>6, Zenon
    <3> QED
      BY <1>1, <3>1, <3>2, <3>3, <3>4 DEF Claim
  <2>8. \A d \in Cpus : \A i, j \in 1..Len(frames'[d]) :
           frames'[d][i] = frames'[d][j] => i = j
    <3>1. \A d \in Cpus \ {c} : frames'[d] = frames[d]
      BY <2>1, <2>2, Zenon
    <3>2. \A i \in 1..Len(frames[c]) : frames[c][i] # t
      BY <2>3, Zenon DEF OnCpu
    <3>3. \A i \in 1..Len(frames'[c]) :
             i \in 1..Len(frames[c]) \/ i = Len(frames[c]) + 1
      BY <2>4
    <3>4. \A i, j \in 1..Len(frames'[c]) : frames'[c][i] = frames'[c][j] => i = j
      <4>1. ASSUME NEW i \in 1..Len(frames'[c]), NEW j \in 1..Len(frames'[c]),
                   frames'[c][i] = frames'[c][j]
            PROVE  i = j
        <5>1. CASE i \in 1..Len(frames[c]) /\ j \in 1..Len(frames[c])
          BY <2>4, <4>1, <5>1, Zenon DEF Claim
        <5>2. CASE i = Len(frames[c]) + 1 \/ j = Len(frames[c]) + 1
          BY <2>4, <3>2, <3>3, <4>1, <5>2, Zenon
        <5> QED
          BY <3>3, <5>1, <5>2, Zenon
      <4> QED
        BY <4>1, Zenon
    <3> QED
      BY <3>1, <3>4, Zenon DEF Claim
  <2> QED
    BY <2>7, <2>8, Zenon DEF Claim
<1>3. CASE ~(status[t] = "Ready" /\ runningCpu[t] = None)
  BY <1>1, <1>3 DEF Start, Claim, OnCpu
<1> QED
  BY <1>2, <1>3, Zenon

\* What SubSeq keeps of a sequence.
LEMMA Prefix ==
    ASSUME NEW S, NEW s \in Seq(S), NEW m \in Nat, m <= Len(s)
    PROVE  /\ Len(SubSeq(s, 1, m)) = m
           /\ \A i \in 1..m : SubSeq(s, 1, m)[i] = s[i]
<1>1. CASE m = 0
  BY <1>1
<1>2. CASE m > 0
  BY <1>2
<1> QED
  BY <1>1, <1>2

LEMMA ClaimUnwind ==
    ASSUME TypeOK, Claim, NEW c \in Cpus, NEW t \in Tasks, Unwind(c, t)
    PROVE  Claim'
<1> DEFINE n == Len(frames[c])
<1>1. /\ frames \in [Cpus -> Seq(Tasks)]
      /\ runningCpu \in [Tasks -> Cpus \cup {None}]
  BY Functional, Zenon
<1>2. n \in Nat \ {0} /\ frames[c][n] = t
  BY <1>1 DEF Unwind, Exec, Top
<1>3. /\ frames' = [frames EXCEPT ![c] = SubSeq(frames[c], 1, n - 1)]
      /\ runningCpu' = [runningCpu EXCEPT ![t] = None]
  BY Zenon DEF Unwind
<1>4. /\ Len(frames'[c]) = n - 1
      /\ \A i \in 1..(n - 1) : frames'[c][i] = frames[c][i]
  <2> DEFINE s == frames[c]
  <2>1. s \in Seq(Tasks) /\ \A i \in 1..(n - 1) : s[i] \in Tasks
    BY <1>1, <1>2
  <2>2. n - 1 \in Nat /\ n - 1 <= Len(s)
    BY <1>2
  <2>3. /\ Len(SubSeq(s, 1, n - 1)) = n - 1
        /\ \A i \in 1..(n - 1) : SubSeq(s, 1, n - 1)[i] = s[i]
    <3> HIDE DEF s, n
    <3> QED
      BY <2>1, <2>2, Prefix, Zenon
  <2>4. frames'[c] = SubSeq(s, 1, n - 1)
    BY <1>1, <1>3, Zenon
  <2> QED
    BY <2>3, <2>4, Zenon
<1>5. \A u \in Tasks : OnCpu(c, u)' <=> OnCpu(c, u) /\ u # t
  <2>1. \A i \in 1..n : frames[c][i] = t <=> i = n
    BY <1>2 DEF Claim
  <2>2. \A i : i \in 1..n <=> i \in 1..(n - 1) \/ i = n
    BY <1>2
  <2>3. n \notin 1..(n - 1)
    BY <1>2
  <2> HIDE DEF n
  <2>4. \A u \in Tasks : OnCpu(c, u)'
                         <=> \E i \in 1..(n - 1) : frames[c][i] = u
    BY <1>4, Zenon DEF OnCpu
  <2>5. \A u \in Tasks : OnCpu(c, u) <=> \E i \in 1..n : frames[c][i] = u
    BY Zenon DEF OnCpu, n
  <2> QED
    BY <1>2, <2>1, <2>2, <2>3, <2>4, <2>5, Zenon
<1>6. \A d \in Cpus \ {c}, u \in Tasks : OnCpu(d, u)' <=> OnCpu(d, u)
  BY <1>1, <1>3, Zenon DEF OnCpu
<1>7. runningCpu[t] = c
  BY ExecClaim, Zenon DEF Unwind, Exec
<1>8. ASSUME NEW d \in Cpus, NEW u \in Tasks PROVE OnCpu(d, u)' <=> runningCpu'[u] = d
  <2>1. OnCpu(d, u) <=> runningCpu[u] = d
    BY Zenon DEF Claim
  <2>2. runningCpu'[u] = IF u = t THEN None ELSE runningCpu[u]
    BY <1>1, <1>3, Zenon
  <2>3. OnCpu(d, u)' <=> OnCpu(d, u) /\ ~(d = c /\ u = t)
    BY <1>5, <1>6, Zenon
  <2>4. d # None
    BY Zenon
  <2> QED
    BY <1>7, <2>1, <2>2, <2>3, <2>4, Zenon
<1>9. ASSUME NEW d \in Cpus, NEW i \in 1..Len(frames'[d]), NEW j \in 1..Len(frames'[d]),
             frames'[d][i] = frames'[d][j]
      PROVE  i = j
  <2>1. \A k, l \in 1..Len(frames[d]) : frames[d][k] = frames[d][l] => k = l
    BY Zenon DEF Claim
  <2>2. CASE d = c
    <3>1. i \in 1..(n - 1) /\ j \in 1..(n - 1)
      BY <1>4, <2>2, Zenon
    <3>2. frames[c][i] = frames[c][j]
      BY <1>4, <1>9, <2>2, <3>1, Zenon
    <3>3. i \in 1..n /\ j \in 1..n
      BY <1>2, <3>1
    <3> QED
      BY <2>1, <2>2, <3>2, <3>3, Zenon
  <2>3. CASE d # c
    <3>1. frames'[d] = frames[d]
      BY <1>1, <1>3, <2>3, Zenon
    <3> QED
      BY <1>9, <2>1, <3>1, Zenon
  <2> QED
    BY <2>2, <2>3, Zenon
<1> QED
  BY <1>8, <1>9, Zenon DEF Claim

\* Claim is kept by every step.
LEMMA ClaimStep ==
    ASSUME TypeOK, Claim, [Next]_vars
    PROVE  Claim'
<1>1. ASSUME UNCHANGED <<runningCpu, frames>> PROVE Claim'
  BY <1>1 DEF Claim, OnCpu
<1>2. ASSUME NEW c \in Cpus, CpuStep(c) PROVE Claim'
  <2>1. CASE Start(c)
    BY <2>1, ClaimStart, Zenon
  <2>2. CASE FetchNothing(c)
    BY <1>1, <2>2, Zenon DEF FetchNothing, taskVars
  <2>3. CASE ParkCheck(c)
    BY <1>1, <2>3, Zenon DEF ParkCheck, taskVars
  <2>4. CASE Requeue(c)
    BY <1>1, <2>4, Zenon DEF Requeue
  <2>5. CASE Handoff(c)
    BY <1>1, <2>5, Zenon DEF Handoff
  <2>6. CASE HandoffCheck(c)
    BY <1>1, <2>6, Zenon DEF HandoffCheck, taskVars
  <2>7. CASE RequeueReady(c)
    BY <1>1, <2>7, Zenon DEF RequeueReady
  <2>8. CASE RequeuePublish(c)
    BY <1>1, <2>8, Zenon DEF RequeuePublish
  <2>9. CASE JobPush(c)
    BY <1>1, <2>9, Zenon DEF JobPush, taskVars
  <2>10. CASE JobInsert(c)
    BY <1>1, <2>10, Zenon DEF JobInsert, taskVars
  <2> QED
    BY <1>2, <2>1, <2>2, <2>3, <2>4, <2>5, <2>6, <2>7, <2>8, <2>9, <2>10, Zenon
    DEF CpuStep
<1>3. ASSUME NEW c \in Cpus, NEW t \in Tasks,
             Tick(c, t) \/ UserStep(c, t) \/ KernelStep(c, t)
      PROVE  Claim'
  <2>1. CASE Unwind(c, t)
    BY <2>1, ClaimUnwind, Zenon
  <2>2. CASE ~Unwind(c, t)
    BY <1>1, <1>3, <2>2, LocalStep, Zenon DEF Local
  <2> QED
    BY <2>1, <2>2, Zenon
<1>4. ASSUME NEW c \in Cpus, NEW t \in Tasks, Fetch(c, t) PROVE Claim'
  BY <1>1, <1>4, Zenon DEF Fetch, taskVars
<1>5. ASSUME NEW w \in Wakers,
             Produce(w) \/ Expire(w) \/ Raise(w) \/ WakerStep(w)
      PROVE  Claim'
  BY <1>1, <1>5, WakerLocal, Zenon
<1>6. CASE UNCHANGED vars
  BY <1>1, <1>6, Zenon DEF vars, taskVars
<1> QED
  BY <1>2, <1>3, <1>4, <1>5, <1>6, Zenon DEF Next

\* Mutual exclusion of user runs: no task is ever on two CPUs' stacks, nor
\* twice on one, because try_start_running() takes the running_cpu claim and
\* release_running_cpu() drops it only after the run.
THEOREM MutualExclusion == Spec => []OneCpu
<1>1. Init => Claim
  BY DEF Init, InitWith, Claim, OnCpu
<1>2. TypeOK /\ Claim /\ [Next]_vars => Claim'
  BY ClaimStep, Zenon
<1>3. Claim => OneCpu
  <2> SUFFICES ASSUME Claim PROVE OneCpu
    BY Zenon
  <2>1. ASSUME NEW c \in Cpus, NEW d \in Cpus, NEW t \in Tasks,
               OnCpu(c, t), OnCpu(d, t)
        PROVE  c = d
    <3>1. runningCpu[t] = c
      BY <2>1, Zenon DEF Claim
    <3>2. runningCpu[t] = d
      BY <2>1, Zenon DEF Claim
    <3> QED
      BY <3>1, <3>2, Zenon
  <2> QED
    BY <2>1, Zenon DEF Claim, OneCpu
<1> QED
  BY <1>1, <1>2, <1>3, TypeCorrect, PTL DEF Spec

-----------------------------------------------------------------------------
(* In TaskSched a Ready task is never forgotten, for any number of tasks,  *)
(* CPUs and wakers.                                                        *)

USE NoneAssumption

-----------------------------------------------------------------------------
(* The inductive invariant *)

\* A task whose transition is owned still runs, or the CPU that ran it is
\* going to clear blocking_cpu and look at the task afterwards.
Owner ==
    \A t \in Tasks : blockingCpu[t] # None =>
        \/ runningCpu[t] # None
        \/ \E c \in Cpus : /\ jobTask[c] = t
                           /\ jobOp[c] \in {"requeue", "handoff", "ready"}

\* ReadyNotLost in terms of the claim.
Kept(t) ==
    \/ t \in ready
    \/ runningCpu[t] # None
    \/ \E c \in Cpus : jobOp[c] # "none" /\ jobTask[c] = t
    \/ \E w \in Wakers : wkPc[w] \in {"owner", "push", "insert"}
                         /\ wkTask[w] = t

ReadyKept == \A t \in Tasks : status[t] = "Ready" => Kept(t)

IInv == TypeOK /\ Claim /\ Owner /\ ReadyKept

LEMMA ClaimIsRun ==
    ASSUME TypeOK, Claim, NEW t \in Tasks, runningCpu[t] # None
    PROVE  \E c \in Cpus : OnCpu(c, t)
<1>1. runningCpu[t] \in Cpus
  BY DEF TypeOK, TaskTypes
<1> QED
  BY <1>1, Zenon DEF Claim

LEMMA KeptMeans ==
    ASSUME TypeOK, Claim, ReadyKept
    PROVE  ReadyNotLost
<1> SUFFICES ASSUME NEW t \in Tasks, status[t] = "Ready"
             PROVE  t \in ready \/ Requeuer(t)
  BY Zenon DEF ReadyNotLost
<1>1. Kept(t)
  BY Zenon DEF ReadyKept
<1> QED
  BY <1>1, ClaimIsRun, Zenon DEF Kept, Requeuer

\* A step of one CPU's scheduler that drops no claim keeps Owner, provided it
\* clears blocking_cpu when it gives up the task in hand.
OwnerOps == {"requeue", "handoff", "ready"}

LEMMA OwnerJob ==
    ASSUME Owner, NEW c \in Cpus,
           \A d \in Cpus \ {c} : /\ jobOp'[d] = jobOp[d]
                                 /\ jobTask'[d] = jobTask[d],
           \A u \in Tasks : runningCpu[u] # None => runningCpu'[u] # None,
           \A u \in Tasks : blockingCpu'[u] # None => blockingCpu[u] # None,
           \A u \in Tasks :
              blockingCpu'[u] # None /\ jobTask[c] = u /\ jobOp[c] \in OwnerOps
              => jobTask'[c] = u /\ jobOp'[c] \in OwnerOps
    PROVE  Owner'
  BY DEF Owner, OwnerOps

\* ReadyKept likewise: the task in hand is Ready only if it stays kept.
LEMMA KeptJob ==
    ASSUME ReadyKept, NEW c \in Cpus,
           \A d \in Cpus \ {c} : /\ jobOp'[d] = jobOp[d]
                                 /\ jobTask'[d] = jobTask[d],
           UNCHANGED <<wkPc, wkTask>>,
           \A u \in Tasks : runningCpu[u] # None => runningCpu'[u] # None,
           ready \subseteq ready',
           \A u \in Tasks : status'[u] = "Ready" =>
              \/ status[u] = "Ready" /\ ~(jobTask[c] = u /\ jobOp[c] # "none")
              \/ runningCpu'[u] # None
              \/ u \in ready'
              \/ jobTask'[c] = u /\ jobOp'[c] # "none"
    PROVE  ReadyKept'
  BY DEF ReadyKept, Kept

\* A step of one waker keeps ReadyKept, provided it does not drop a Ready task.
LEMMA KeptWaker ==
    ASSUME ReadyKept, NEW w \in Wakers,
           UNCHANGED <<runningCpu, jobOp, jobTask>>,
           \A v \in Wakers \ {w} : /\ wkPc'[v] = wkPc[v]
                                   /\ wkTask'[v] = wkTask[v],
           ready \subseteq ready',
           \A u \in Tasks : status'[u] = "Ready" =>
              \/ /\ status[u] = "Ready"
                 /\ ~(wkTask[w] = u /\ wkPc[w] \in {"owner", "push", "insert"})
              \/ runningCpu[u] # None
              \/ \E c \in Cpus : jobOp[c] # "none" /\ jobTask[c] = u
              \/ u \in ready'
              \/ wkTask'[w] = u /\ wkPc'[w] \in {"owner", "push", "insert"}
    PROVE  ReadyKept'
  BY DEF ReadyKept, Kept

\* Owner is kept by every step: blocking_cpu is set by the running task, and
\* outlives its run only until the requeue that clears it.
LEMMA OwnerStep ==
    ASSUME TypeOK, Claim, Owner, [Next]_vars
    PROVE  Owner'
<1>1. ASSUME UNCHANGED <<blockingCpu, runningCpu, jobOp, jobTask>>
      PROVE  Owner'
  BY <1>1, Zenon DEF Owner
<1>2. ASSUME NEW c \in Cpus, CpuStep(c) PROVE Owner'
  <2> USE Functional DEF SetJob, EndJob
  <2>1. CASE FetchNothing(c)
    BY <1>1, <2>1, Zenon DEF FetchNothing, taskVars, job
  <2>2. CASE ParkCheck(c)
    BY <2>2, OwnerJob, Zenon DEF ParkCheck, taskVars, OwnerOps
  <2>3. CASE Start(c)
    BY <2>3, OwnerJob, Zenon DEF Start, OwnerOps
  <2>4. CASE Requeue(c)
    <3>1. CASE status[jobTask[c]] \in {"Zombie", "Stopped"}
      BY <2>4, <3>1, OwnerJob DEF Requeue, OwnerOps
    <3>2. CASE status[jobTask[c]] = "Blocked"
      BY <2>4, <3>2, OwnerJob DEF Requeue, OwnerOps
    <3>3. CASE status[jobTask[c]] \notin {"Zombie", "Stopped", "Blocked"}
      BY <2>4, <3>3, OwnerJob, Zenon DEF Requeue, OwnerOps
    <3> QED
      BY <3>1, <3>2, <3>3, Zenon
  <2>5. CASE Handoff(c)
    BY <2>5, OwnerJob, Zenon DEF Handoff, OwnerOps
  <2>6. CASE HandoffCheck(c)
    BY <2>6, OwnerJob, Zenon DEF HandoffCheck, taskVars, OwnerOps
  <2>7. CASE RequeueReady(c)
    BY <2>7, OwnerJob, Zenon DEF RequeueReady, OwnerOps
  <2>8. CASE RequeuePublish(c)
    <3>1. /\ jobOp[c] = "publish"
          /\ UNCHANGED <<runningCpu, blockingCpu>>
          /\ \E op, u : /\ jobOp' = [jobOp EXCEPT ![c] = op]
                        /\ jobTask' = [jobTask EXCEPT ![c] = u]
      BY <2>8, Zenon DEF RequeuePublish
    <3> QED
      BY <3>1, OwnerJob, Zenon DEF OwnerOps
  <2>9. CASE JobPush(c)
    BY <2>9, OwnerJob, ZenonT(30) DEF JobPush, taskVars, OwnerOps
  <2>10. CASE JobInsert(c)
    BY <2>10, OwnerJob, Zenon DEF JobInsert, taskVars, OwnerOps
  <2> QED
    BY <1>2, <2>1, <2>2, <2>3, <2>4, <2>5, <2>6, <2>7, <2>8, <2>9, <2>10, Zenon
    DEF CpuStep
<1>3. ASSUME NEW c \in Cpus, NEW t \in Tasks,
             Tick(c, t) \/ UserStep(c, t) \/ KernelStep(c, t)
      PROVE  Owner'
  <2>1. CASE Unwind(c, t)
    <3>1. /\ jobOp[c] = "none"
          /\ jobOp' = [jobOp EXCEPT ![c] = "requeue"]
          /\ jobTask' = [jobTask EXCEPT ![c] = t]
          /\ runningCpu' = [runningCpu EXCEPT ![t] = None]
          /\ UNCHANGED blockingCpu
      BY <2>1, Zenon DEF Unwind, Exec, SetJob
    <3>2. /\ jobOp'[c] = "requeue" /\ jobTask'[c] = t
          /\ \A d \in Cpus \ {c} : /\ jobOp'[d] = jobOp[d]
                                   /\ jobTask'[d] = jobTask[d]
          /\ \A u \in Tasks \ {t} : runningCpu'[u] = runningCpu[u]
      BY <3>1, Functional, Zenon
    <3> QED
      BY <3>1, <3>2 DEF Owner
  <2>2. CASE ~Unwind(c, t)
    <3>1. Local(t) /\ runningCpu[t] # None
      BY <1>3, <2>2, LocalStep, ExecClaim, Zenon
    <3> QED
      BY <3>1, Zenon DEF Local, Owner
  <2> QED
    BY <2>1, <2>2, Zenon
<1>4. ASSUME NEW c \in Cpus, NEW t \in Tasks, Fetch(c, t) PROVE Owner'
  BY <1>4, OwnerJob, Functional, Zenon
  DEF Fetch, Scheduling, SetJob, taskVars, OwnerOps
<1>5. ASSUME NEW w \in Wakers,
             Produce(w) \/ Expire(w) \/ Raise(w) \/ WakerStep(w)
      PROVE  Owner'
  BY <1>1, <1>5, WakerLocal, Zenon
<1>6. CASE UNCHANGED vars
  BY <1>1, <1>6, Zenon DEF vars, taskVars, job
<1> QED
  BY <1>2, <1>3, <1>4, <1>5, <1>6, Zenon DEF Next

\* ReadyKept is kept by every step.
LEMMA ReadyStep ==
    ASSUME TypeOK, Claim, Owner, ReadyKept, [Next]_vars
    PROVE  ReadyKept'
<1>1. ASSUME NEW c \in Cpus, CpuStep(c) PROVE ReadyKept'
  <2> USE Functional DEF SetJob, EndJob, taskVars, queueVars, wk, job
  <2>1. CASE FetchNothing(c)
    BY <2>1, Zenon DEF FetchNothing, ReadyKept, Kept, Runnable
  <2>2. CASE ParkCheck(c)
    BY <2>2, KeptJob, Zenon DEF ParkCheck
  <2>3. CASE Start(c)
    <3>1. CASE status[jobTask[c]] = "Ready" /\ runningCpu[jobTask[c]] = None
      <4> DEFINE t == jobTask[c]
      <4>1. t \in Tasks
        BY <2>3, Zenon DEF Start
      <4>2. /\ status' = [status EXCEPT ![t] = "Running"]
            /\ runningCpu' = [runningCpu EXCEPT ![t] = c]
            /\ jobOp' = [jobOp EXCEPT ![c] = "none"]
            /\ jobTask' = [jobTask EXCEPT ![c] = None]
            /\ UNCHANGED <<wkPc, wkTask, ready>>
        BY <2>3, <3>1, Zenon DEF Start
      <4>3. /\ status'[t] = "Running" /\ runningCpu'[t] # None
            /\ \A u \in Tasks \ {t} : /\ status'[u] = status[u]
                                      /\ runningCpu'[u] = runningCpu[u]
        BY <4>1, <4>2, Zenon
      <4>4. \A d \in Cpus \ {c} : /\ jobOp'[d] = jobOp[d]
                                  /\ jobTask'[d] = jobTask[d]
        BY <4>2, Zenon
      <4>5. \A u \in Tasks : runningCpu[u] # None => runningCpu'[u] # None
        BY <4>3, Zenon
      <4>6. \A u \in Tasks : status'[u] = "Ready" =>
               status[u] = "Ready" /\ ~(jobTask[c] = u /\ jobOp[c] # "none")
        BY <4>3, Zenon
      <4> QED
        BY <4>2, <4>4, <4>5, <4>6, KeptJob
    <3>2. CASE ~(status[jobTask[c]] = "Ready" /\ runningCpu[jobTask[c]] = None)
      BY <2>3, <3>2, KeptJob, Zenon DEF Start
    <3> QED
      BY <3>1, <3>2, Zenon
  <2>4. CASE Requeue(c)
    <3>1. CASE status[jobTask[c]] \in {"Zombie", "Stopped"}
      BY <2>4, <3>1, KeptJob, ZenonT(30) DEF Requeue
    <3>2. CASE status[jobTask[c]] = "Blocked"
      BY <2>4, <3>2, KeptJob, Zenon DEF Requeue
    <3>3. CASE status[jobTask[c]] \notin {"Zombie", "Stopped", "Blocked"}
      BY <2>4, <3>3, KeptJob DEF Requeue
    <3> QED
      BY <3>1, <3>2, <3>3, Zenon
  <2>5. CASE Handoff(c)
    BY <2>5, KeptJob, Zenon DEF Handoff
  <2>6. CASE HandoffCheck(c)
    <3>1. CASE status[jobTask[c]] = "Ready"
      BY <2>6, <3>1, KeptJob, ZenonT(30) DEF HandoffCheck
    <3>2. CASE status[jobTask[c]] # "Ready"
      BY <2>6, <3>2, KeptJob, Zenon DEF HandoffCheck
    <3> QED
      BY <3>1, <3>2, Zenon
  <2>7. CASE RequeueReady(c)
    BY <2>7, KeptJob DEF RequeueReady
  <2>8. CASE RequeuePublish(c)
    <3>1. jobTask[c] \in Tasks /\ UNCHANGED <<runningCpu, ready, wkPc, wkTask>>
      BY <2>8, Zenon DEF RequeuePublish
    <3>2. CASE status[jobTask[c]] \in {"Running", "Ready"}
      <4>1. /\ status' = [status EXCEPT ![jobTask[c]] = "Ready"]
            /\ jobOp' = [jobOp EXCEPT ![c] = "push"]
            /\ jobTask' = [jobTask EXCEPT ![c] = jobTask[c]]
        BY <2>8, <3>2, Zenon DEF RequeuePublish
      <4> QED
        BY <3>1, <4>1, KeptJob
    <3>3. CASE status[jobTask[c]] \notin {"Running", "Ready"}
      <4>1. /\ UNCHANGED status
            /\ jobOp' = [jobOp EXCEPT ![c] = "none"]
            /\ jobTask' = [jobTask EXCEPT ![c] = None]
        BY <2>8, <3>3, Zenon DEF RequeuePublish
      <4> QED
        BY <3>1, <3>3, <4>1, KeptJob
    <3> QED
      BY <3>2, <3>3, Zenon
  <2>9. CASE JobPush(c)
    BY <2>9, KeptJob, ZenonT(30) DEF JobPush
  <2>10. CASE JobInsert(c)
    BY <2>10, KeptJob, Zenon DEF JobInsert
  <2> QED
    BY <1>1, <2>1, <2>2, <2>3, <2>4, <2>5, <2>6, <2>7, <2>8, <2>9, <2>10, Zenon
    DEF CpuStep
<1>2. ASSUME NEW c \in Cpus, NEW t \in Tasks,
             Tick(c, t) \/ UserStep(c, t) \/ KernelStep(c, t)
      PROVE  ReadyKept'
  <2>1. CASE Unwind(c, t)
    BY <2>1, Functional, ZenonT(30)
    DEF ReadyKept, Kept, Unwind, Exec, SetJob, queueVars, wk
  <2>2. CASE ~Unwind(c, t)
    <3>1. Local(t) /\ runningCpu[t] # None
      BY <1>2, <2>2, LocalStep, ExecClaim, Zenon
    <3> QED
      BY <3>1 DEF Local, ReadyKept, Kept
  <2> QED
    BY <2>1, <2>2, Zenon
<1>3. ASSUME NEW c \in Cpus, NEW t \in Tasks, Fetch(c, t) PROVE ReadyKept'
  <2>1. /\ UNCHANGED <<status, runningCpu, wkPc, wkTask>>
        /\ ready' = {u \in ready : status[u] = "Ready"} \ {t}
        /\ jobOp[c] = "none"
    BY <1>3, Zenon DEF Fetch, Scheduling, Runnable, taskVars, wk
  <2>2. PICK op \in {"start", "parkcheck"} :
          /\ jobOp' = [jobOp EXCEPT ![c] = op]
          /\ jobTask' = [jobTask EXCEPT ![c] = t]
    BY <1>3, Zenon DEF Fetch, SetJob
  <2>3. /\ jobOp'[c] # "none" /\ jobTask'[c] = t
        /\ \A d \in Cpus \ {c} : jobOp'[d] = jobOp[d] /\ jobTask'[d] = jobTask[d]
    BY <2>2, Functional, Zenon
  <2>4. \A u \in Tasks \ {t} : status[u] = "Ready" /\ u \in ready => u \in ready'
    BY <2>1, Zenon
  <2>5. Kept(t)'
    BY <2>3, Zenon DEF Kept
  <2>6. ASSUME NEW u \in Tasks \ {t}, status'[u] = "Ready" PROVE Kept(u)'
    <3>1. status[u] = "Ready" /\ Kept(u)
      BY <2>1, <2>6, Zenon DEF ReadyKept
    <3> QED
      BY <2>1, <2>3, <2>4, <3>1, Zenon DEF Kept
  <2> QED
    BY <2>5, <2>6, Zenon DEF ReadyKept
<1>4. ASSUME NEW w \in Wakers,
             Produce(w) \/ Expire(w) \/ Raise(w) \/ WakerStep(w)
      PROVE  ReadyKept'
  <2>0. UNCHANGED <<runningCpu, blockingCpu, frames, jobOp, jobTask>>
    BY <1>4, WakerLocal, Zenon
  <2> USE <2>0, Functional, KeptWaker DEF WkGoto, Done, taskVars, queueVars
  <2>1. CASE Produce(w)
    BY <2>1, Zenon DEF Produce
  <2>2. CASE Expire(w)
    BY <2>2, Zenon DEF Expire
  <2>3. CASE Raise(w)
    BY <2>3, Zenon DEF Raise
  <2>4. CASE PopWaiter(w)
    BY <2>4, Zenon DEF PopWaiter, WkTake, WkReset
  <2>5. CASE NextExpired(w)
    BY <2>5, Zenon DEF NextExpired, WkTake, WkReset
  <2>6. CASE WkToken(w)
    BY <2>6, Zenon DEF WkToken
  <2>7. CASE WkStatus(w)
    <3>1. wkTask[w] \in Tasks
      BY <2>7, Zenon DEF WkStatus
    <3>2. CASE status[wkTask[w]] = "Blocked"
      <4>1. /\ status' = [status EXCEPT ![wkTask[w]] = "Ready"]
            /\ wkPc' = [wkPc EXCEPT ![w] = "owner"]
            /\ UNCHANGED <<wkTask, ready>>
        BY <2>7, <3>2, Zenon DEF WkStatus, MarkReady
      <4> QED
        BY <3>1, <4>1
    <3>3. CASE status[wkTask[w]] # "Blocked"
      <4>1. /\ UNCHANGED <<status, wkTask, ready>> /\ wkPc[w] = "status"
            /\ \E p \in WkPcs : wkPc' = [wkPc EXCEPT ![w] = p]
        BY <2>7, <3>3, Zenon DEF WkStatus, MarkReady, WkPcs
      <4> QED
        BY <4>1, Zenon
    <3> QED
      BY <3>2, <3>3, Zenon
  <2>8. CASE WkEarly(w)
    BY <2>8, Zenon DEF WkEarly
  <2>9. CASE WkOwner(w)
    <3>1. CASE blockingCpu[wkTask[w]] = None
      BY <2>9, <3>1, Zenon DEF WkOwner
    <3>2. CASE blockingCpu[wkTask[w]] # None
      <4>1. /\ UNCHANGED <<status, wkTask, ready>>
            /\ wkPc' = [wkPc EXCEPT ![w] = Done(w)]
            /\ wkTask[w] \in Tasks
        BY <2>9, <3>2, Zenon DEF WkOwner
      <4>2. \/ runningCpu[wkTask[w]] # None
            \/ \E c \in Cpus : jobOp[c] # "none" /\ jobTask[c] = wkTask[w]
        BY <3>2, <4>1, Zenon DEF Owner
      <4>3. \A v \in Wakers \ {w} : wkPc'[v] = wkPc[v]
        BY <4>1, Zenon
      <4> QED
        BY <4>1, <4>2, <4>3
    <3> QED
      BY <3>1, <3>2, Zenon
  <2>10. CASE WkPush(w)
    BY <2>10 DEF WkPush
  <2>11. CASE WkInsert(w)
    BY <2>11, Zenon DEF WkInsert
  <2>12. CASE WkSignal(w)
    <3>1. wkTask[w] \in Tasks /\ wkPc[w] = "signal"
      BY <2>12, Zenon DEF WkSignal
    <3>2. CASE status' = status
      <4>1. /\ UNCHANGED <<wkTask, ready>>
            /\ \E p \in WkPcs : wkPc' = [wkPc EXCEPT ![w] = p]
        BY <2>12, Zenon DEF WkSignal, MarkReady, WkPcs
      <4> QED
        BY <3>1, <3>2, <4>1, Zenon
    <3>3. CASE status' # status
      <4>1. /\ status' = [status EXCEPT ![wkTask[w]] = "Ready"]
            /\ wkPc' = [wkPc EXCEPT ![w] = "owner"]
            /\ UNCHANGED <<wkTask, ready>>
        BY <2>12, <3>3, Zenon DEF WkSignal, MarkReady
      <4> QED
        BY <3>1, <4>1, Zenon
    <3> QED
      BY <3>2, <3>3, Zenon
  <2> QED
    BY <1>4, <2>1, <2>2, <2>3, <2>4, <2>5, <2>6, <2>7, <2>8, <2>9, <2>10,
       <2>11, <2>12, Zenon
    DEF WakerStep
<1>5. CASE UNCHANGED vars
  BY <1>5, Zenon DEF ReadyKept, Kept, vars, taskVars, queueVars, job, wk
<1> QED
  BY <1>1, <1>2, <1>3, <1>4, <1>5, Zenon DEF Next

-----------------------------------------------------------------------------
(* The theorem *)

LEMMA Inductive == Spec => []IInv
<1>1. Init => IInv
  <2> SUFFICES ASSUME Init PROVE IInv
    BY Zenon
  <2>1. Claim
    BY DEF Init, InitWith, Claim, OnCpu
  <2>2. Owner /\ ReadyKept
    BY Zenon DEF Init, InitWith, Owner, ReadyKept, Kept
  <2> QED
    BY InitType, <2>1, <2>2, Zenon DEF IInv
<1>2. IInv /\ [Next]_vars => IInv'
  BY TypeStep, ClaimStep, OwnerStep, ReadyStep, Zenon DEF IInv
<1> QED
  BY <1>1, <1>2, PTL DEF Spec

\* A Ready task is never forgotten, whatever the order in which wakers,
\* blocking_cpu hand-offs and stale queue entries meet.
THEOREM NoReadyTaskLost == Spec => []ReadyNotLost
<1>1. IInv => ReadyNotLost
  BY KeptMeans, Zenon DEF IInv
<1> QED
  BY <1>1, Inductive, PTL

=============================================================================
