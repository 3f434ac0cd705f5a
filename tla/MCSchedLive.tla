---------------------------- MODULE MCSchedLive ----------------------------
(***************************************************************************)
(* Progress of TaskSched: one task with a producer, the timer interrupt    *)
(* and a signaller, or two tasks with the timer interrupt alone.           *)
(***************************************************************************)
EXTENDS TaskSched

CONSTANT First

VARIABLE alone   \* every task but First has exited

LiveInit == alone \in BOOLEAN /\ InitWith(IF alone THEN {First} ELSE Tasks)

LiveNext ==
    /\ alone' = alone
    /\ \/ \E c \in Cpus : CpuStep(c)
       \/ \E c \in Cpus, t \in Tasks :
             Fetch(c, t) \/ Tick(c, t) \/ UserStep(c, t) \/ KernelStep(c, t)
       \/ \E w \in Wakers : Expire(w) \/ WakerStep(w)
       \/ \E w \in Wakers : /\ alone
                            /\ Produce(w) \/ (Raise(w) /\ wkTask'[w] = First)

LiveSpec == LiveInit /\ [][LiveNext]_<<vars, alone>> /\ Fairness

=============================================================================
