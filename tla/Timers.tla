-------------------------------- MODULE Timers --------------------------------
(***************************************************************************)
(* Timers: the interval timers of setitimer() and their list of owners     *)
(* (os/src/syscall/other.rs), timed sleeps (nanosleep() and the list       *)
(* TIMER_WAITERS of os/src/timer.rs), and the hardware timer every CPU     *)
(* programs for itself.  Each task stays on its CPU here; while it sleeps  *)
(* the CPU idles in the kernel.                                            *)
(*                                                                         *)
(* `now' is the clock.  It may advance between any two steps, but not      *)
(* while an interrupt is due or being handled: handlers and calls are      *)
(* short against a slice.  The record of a timer also carries what only    *)
(* the properties read: its first deadline, the signals it has sent.       *)
(***************************************************************************)
EXTENDS Integers, FiniteSetsExt

CONSTANTS
    TmTasks,                \* tasks, each with a CPU of its own
    Kinds,                  \* ITIMER_REAL, ITIMER_VIRTUAL, ITIMER_PROF
    Slice, ForegroundSlice, \* TIME_SLICE_MS, FOREGROUND_TIME_SLICE_MS
    MaxTime                 \* bound: the last moment of a behaviour

ASSUME TimersAssumption ==
    /\ Slice \in Nat \ {0} /\ ForegroundSlice \in Nat \ {0} /\ MaxTime \in Nat

VARIABLES
    now,
    foreground, \* FOREGROUND_DRIVER_ACTIVE
    itimers,    \* interval_timers of each task
    owners,     \* ACTIVE_INTERVAL_TIMER_TASKS
    timeouts,   \* TIMER_WAITERS
    trig,       \* when the CPU of each task is interrupted next
    cpu,        \* the handler running on it: where it is, what it collected
    tm          \* per task: where it is, its token, its sleep

tmVars == <<now, foreground, itimers, owners, timeouts, trig, cpu, tm>>

Disarmed == [iv |-> 0, dl |-> 0, base |-> 0, sent |-> 0]
Armed(x) == x.dl > 0
NoCall == [at |-> "user", token |-> 0, until |-> 0, active |-> FALSE, out |-> "none"]
NoTick == [at |-> "run", list |-> {}]

TimersInit(fg) ==
    /\ now = 1 /\ foreground = fg
    /\ itimers = [t \in TmTasks |-> [w \in Kinds |-> Disarmed]]
    /\ owners = {} /\ timeouts = {}
    /\ trig = [t \in TmTasks |-> 1 + Slice]
    /\ cpu = [t \in TmTasks |-> NoTick]
    /\ tm = [t \in TmTasks |-> NoCall]

Alive(t) == tm[t].at # "dead"
InUserMode(t) == tm[t].at = "user" /\ cpu[t].at = "run" /\ now < trig[t]
TmGo(t, new) == tm' = [tm EXCEPT ![t] = new]
AnyArmed(timers) == \E w \in Kinds : Armed(timers[w])

-----------------------------------------------------------------------------
(* Programming the hardware *)

\* next_interval_timer_deadline_us() also drops the owners with nothing armed.
OwnersKept == {t \in owners : Alive(t) /\ AnyArmed(itimers[t])}
Deadlines(pending) ==
    {e.dl : e \in pending} \cup ({itimers[t][w].dl : t \in OwnersKept, w \in Kinds} \ {0})

\* next_timer_delay_us().  Its least delay, a microsecond, is less than a unit of
\* the clock here.
NextDelay(pending, default) ==
    IF Deadlines(pending) = {} THEN default
    ELSE LET next == Min(Deadlines(pending)) IN
         IF next <= now THEN 0 ELSE Min({default, next - now})

\* set_next_trigger() and set_next_foreground_trigger() on t's CPU
Program(t, pending, default) ==
    /\ trig' = [trig EXCEPT ![t] = now + NextDelay(pending, default)]
    /\ owners' = OwnersKept

-----------------------------------------------------------------------------
(* setitimer(), which takes the task's lock and the owners' in turn *)

IsActive(timers, w) == AnyArmed(timers)

\* IntervalTimer::from_value()
FromValue(interval, value) ==
    IF value = 0 THEN [Disarmed EXCEPT !.iv = interval]
    ELSE [iv |-> interval, dl |-> now + value, base |-> now + value, sent |-> 0]

SetTimer(t, w, interval, value) ==
    /\ InUserMode(t)
    /\ LET new == [itimers[t] EXCEPT ![w] = FromValue(interval, value)] IN
       /\ itimers' = [itimers EXCEPT ![t] = new]
       /\ TmGo(t, [tm[t] EXCEPT !.at = "owner", !.active = IsActive(new, w)])
    /\ UNCHANGED <<now, foreground, owners, timeouts, trig, cpu>>

\* sync_interval_timer_owner()
SyncOwner(t) ==
    /\ tm[t].at = "owner"
    /\ owners' = IF tm[t].active THEN owners \cup {t} ELSE owners \ {t}
    /\ TmGo(t, [tm[t] EXCEPT !.at = "program"])
    /\ UNCHANGED <<now, foreground, itimers, timeouts, trig, cpu>>

ProgramCall(t) ==
    /\ tm[t].at = "program"
    /\ Program(t, timeouts, Slice)
    /\ TmGo(t, [tm[t] EXCEPT !.at = "user"])
    /\ UNCHANGED <<now, foreground, itimers, timeouts, cpu>>

-----------------------------------------------------------------------------
(* nanosleep(): a sleep has a token, and wakers that name another one find *)
(* nobody.  TaskSched models the wait itself.                              *)

SleepTime(us) == IF foreground THEN Max({us, Slice}) ELSE us

Nanosleep(t, us) ==
    /\ InUserMode(t) /\ us > 0
    /\ LET dl == now + SleepTime(us) IN
       /\ timeouts' = timeouts \cup {[t |-> t, token |-> tm[t].token + 1, dl |-> dl]}
       /\ TmGo(t, [tm[t] EXCEPT !.at = "arm", !.token = @ + 1, !.until = dl, !.out = "none"])
    /\ UNCHANGED <<now, foreground, itimers, owners, trig, cpu>>

\* The end of add_timeout(); then the task blocks, unless it has been woken.
ArmSleep(t) ==
    /\ tm[t].at = "arm"
    /\ Program(t, timeouts, Slice)
    /\ TmGo(t, [tm[t] EXCEPT !.at = "asleep"])
    /\ UNCHANGED <<now, foreground, itimers, timeouts, cpu>>

Interruptible(t) == tm[t].at \in {"arm", "asleep"} /\ tm[t].out = "none"

\* A signal wakes the sleeper.
InterruptSleep(t) ==
    /\ Interruptible(t)
    /\ TmGo(t, [tm[t] EXCEPT !.out = "EINTR"])
    /\ UNCHANGED <<now, foreground, itimers, owners, timeouts, trig, cpu>>

\* remove_timeout(), and the call returns.
SleepReturn(t) ==
    /\ tm[t].at = "asleep" /\ tm[t].out # "none" /\ cpu[t].at = "run"
    /\ timeouts' = {e \in timeouts : ~(e.t = t /\ e.token = tm[t].token)}
    /\ TmGo(t, [tm[t] EXCEPT !.at = "user"])
    /\ UNCHANGED <<now, foreground, itimers, owners, trig, cpu>>

-----------------------------------------------------------------------------
(* The timer interrupt *)

TimerTick_KernelSkips(c) ==
    /\ cpu[c].at = "run" /\ trig[c] <= now
    /\ tm[c].at \in {"user", "asleep", "dead"}
    /\ LET due == IF tm[c].at = "user" THEN {e \in timeouts : e.dl <= now} ELSE {} IN
       /\ timeouts' = timeouts \ due
       /\ cpu' = [cpu EXCEPT ![c] = [at |-> "wake", list |-> due]]
    /\ UNCHANGED <<now, foreground, itimers, owners, trig, tm>>

\* wake_expired_timers() takes the expired entries off the list...
TimerTick(c) ==
    /\ cpu[c].at = "run" /\ trig[c] <= now
    /\ tm[c].at \in {"user", "asleep", "dead"}
    /\ LET due == {e \in timeouts : e.dl <= now} IN
       /\ timeouts' = timeouts \ due
       /\ cpu' = [cpu EXCEPT ![c] = [at |-> "wake", list |-> due]]
    /\ UNCHANGED <<now, foreground, itimers, owners, trig, tm>>

Wakes(e) == Interruptible(e.t) /\ tm[e.t].token = e.token

\* ...and then wakes the tasks, without its lock.
TickWake(c) ==
    /\ cpu[c].at = "wake"
    /\ \E e \in cpu[c].list :
          /\ tm' = IF Wakes(e) THEN [tm EXCEPT ![e.t].out = "TimedOut"] ELSE tm
          /\ cpu' = [cpu EXCEPT ![c].list = @ \ {e}]
    /\ UNCHANGED <<now, foreground, itimers, owners, timeouts, trig>>

Expires(x) == Armed(x) /\ x.dl <= now
Missed(x) == (now - x.dl) \div x.iv

\* IntervalTimer::expire_at(): the first deadline still ahead, in phase.
ExpireAt(x) ==
    IF x.iv = 0 THEN [x EXCEPT !.dl = 0] ELSE [x EXCEPT !.dl = @ + x.iv * (Missed(x) + 1)]

\* wake_expired_interval_timers(), under the owners' lock
TickExpire(c) ==
    LET due(t, w) == t \in owners /\ Alive(t) /\ Expires(itimers[t][w]) IN
    /\ cpu[c] = [at |-> "wake", list |-> {}]
    /\ itimers' = [t \in TmTasks |-> [w \in Kinds |->
                      IF due(t, w) THEN ExpireAt(itimers[t][w]) ELSE itimers[t][w]]]
    /\ owners' = {t \in owners : Alive(t) /\ AnyArmed(itimers'[t])}
    /\ cpu' = [cpu EXCEPT ![c] = [at |-> "send",
                                  list |-> {[t |-> x[1], w |-> x[2], base |-> itimers[x[1]][x[2]].base] :
                                              x \in {y \in TmTasks \X Kinds : due(y[1], y[2])}}]]
    /\ UNCHANGED <<now, foreground, timeouts, trig, tm>>

\* send_interval_timer_signal(), without it.  The signal ends the task's sleep;
\* the timer may have been set anew since.
TickSend(c) ==
    /\ cpu[c].at = "send"
    /\ \E e \in cpu[c].list :
          /\ itimers' = IF itimers[e.t][e.w].base # e.base THEN itimers
                        ELSE [itimers EXCEPT ![e.t][e.w].sent = @ + 1]
          /\ tm' = IF ~Interruptible(e.t) THEN tm ELSE [tm EXCEPT ![e.t].out = "EINTR"]
          /\ cpu' = [cpu EXCEPT ![c].list = @ \ {e}]
    /\ UNCHANGED <<now, foreground, owners, timeouts, trig>>

\* A task interrupted in user mode reprograms for the next deadline; an
\* interrupt in the kernel only rearms the tick (rearm_kernel_tick()).
TickRearm(c) ==
    /\ cpu[c] = [at |-> "send", list |-> {}]
    /\ cpu' = [cpu EXCEPT ![c] = NoTick]
    /\ IF tm[c].at = "user" THEN Program(c, timeouts, IF foreground THEN ForegroundSlice ELSE Slice)
       ELSE trig' = [trig EXCEPT ![c] = now + Slice] /\ UNCHANGED owners
    /\ UNCHANGED <<now, foreground, itimers, timeouts, tm>>

-----------------------------------------------------------------------------
(* The end of a process, from reset_process_resources() on *)

ExitReset(t) ==
    /\ InUserMode(t)
    /\ itimers' = [itimers EXCEPT ![t] = [w \in Kinds |-> Disarmed]]
    /\ TmGo(t, [tm[t] EXCEPT !.at = "exit"])
    /\ UNCHANGED <<now, foreground, owners, timeouts, trig, cpu>>

ExitRemove(t) ==
    /\ tm[t].at = "exit"
    /\ owners' = owners \ {t}
    /\ timeouts' = {e \in timeouts : e.t # t}
    /\ TmGo(t, [tm[t] EXCEPT !.at = "dead"])
    /\ UNCHANGED <<now, foreground, itimers, trig, cpu>>

Advance ==
    /\ now < MaxTime /\ \A c \in TmTasks : cpu[c].at = "run" /\ now < trig[c]
    /\ now' = now + 1
    /\ UNCHANGED <<foreground, itimers, owners, timeouts, trig, cpu, tm>>

TimerStep(t) ==
    \/ SyncOwner(t) \/ ProgramCall(t) \/ ArmSleep(t) \/ SleepReturn(t) \/ ExitRemove(t)
    \/ TimerTick(t) \/ TickWake(t) \/ TickExpire(t) \/ TickSend(t) \/ TickRearm(t)

-----------------------------------------------------------------------------
(* Properties *)

\* The types; no CPU is programmed further ahead than its slice allows.
TimerTypeOK ==
    /\ now \in 1..MaxTime /\ foreground \in BOOLEAN
    /\ owners \subseteq TmTasks
    /\ \A t \in TmTasks :
          /\ tm[t].at \in {"user", "owner", "program", "arm", "asleep", "exit", "dead"}
          /\ tm[t].out \in {"none", "EINTR", "TimedOut"}
          /\ cpu[t].at \in {"run", "wake", "send"}
          /\ trig[t] - now <= Max({Slice, ForegroundSlice})

\* A task with an armed timer is on the owners' list, where the expiry looks,
\* from the moment its setitimer() has updated the list (sync_interval_timer_owner()
\* against the CPUs that prune the list meanwhile).
OwnersCover ==
    \A t \in TmTasks : Alive(t) /\ tm[t].at # "owner" /\ AnyArmed(itimers[t]) => t \in owners

\* Signals never come early and never more than one for a period, a periodic
\* timer keeps the phase it was set with however late its expiry is noticed, and
\* a one-shot timer fires once (IntervalTimer::expire_at()).
TimersInPhase ==
    \A t \in TmTasks, w \in Kinds :
        LET x == itimers[t][w] IN
        /\ x.iv > 0 /\ x.base > 0 => /\ (x.dl - x.base) % x.iv = 0
                                     /\ x.sent * x.iv <= Max({0, now - x.base + x.iv})
        /\ x.iv = 0 => x.sent <= (IF x.base <= now THEN 1 ELSE 0)

\* nanosleep() that is not interrupted sleeps until its deadline, whatever
\* earlier sleeps of the task are still being woken on other CPUs
\* (wake_task_token_with()).
SleepsEnough ==
    \A t \in TmTasks : tm[t].out = "TimedOut" => tm[t].until <= now

\* Some CPU will look within a slice of the deadline of every sleeper and every
\* armed timer: "Without this, nanosleep children remain blocked forever"
\* (kernel_interrupt()).
Late(dl) == \A c \in TmTasks : cpu[c].at = "run" /\ trig[c] > dl + Max({Slice, ForegroundSlice})
NoStrandedTimer ==
    \A t \in TmTasks :
        /\ tm[t].at = "asleep" /\ tm[t].out = "none" => ~Late(tm[t].until)
        /\ Alive(t) /\ tm[t].at \notin {"owner", "program"}
             => \A w \in Kinds : Armed(itimers[t][w]) => ~Late(itimers[t][w].dl)

\* Together: a deadline is acted on neither early nor twice, and for every one
\* that is armed a CPU is going to look (timer_tick(), setitimer(), nanosleep()).
TimersSafe ==
    TimerTypeOK /\ OwnersCover /\ TimersInPhase /\ SleepsEnough /\ NoStrandedTimer

=============================================================================
