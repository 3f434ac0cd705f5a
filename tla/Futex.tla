-------------------------------- MODULE Futex --------------------------------
(***************************************************************************)
(* Futexes (os/src/syscall/other.rs): a waiter compares the word, enters   *)
(* FUTEX_WAITERS, compares it again and blocks; wakers take entries out of *)
(* the list and complete them by token; requeue moves entries to another   *)
(* word; and the exit of a thread releases the robust locks it holds and   *)
(* clears its child-tid word (os/src/task/mod.rs finish_task_exit()).      *)
(*                                                                         *)
(* The threads run what the C library builds on it: a robust mutex "m", a  *)
(* condition variable "c" used with it, and a join on the tid word "j" of  *)
(* another thread.  That part is outside the kernel and modelled from the  *)
(* protocol the robust-list code expects.  Keys are left out: the threads  *)
(* share one address space.                                                *)
(***************************************************************************)
EXTENDS Integers, Sequences, FiniteSets, SequencesExt

CONSTANTS
    FxTasks,    \* threads
    Joinee,     \* the thread whose clear_child_tid is "j"
    MaxSeq,     \* bound on broadcasts
    NoOne       \* no thread, no outcome

VARIABLES
    word,       \* the futex words in user memory
    fw,         \* FUTEX_WAITERS, in order
    ftimers,    \* TIMER_WAITERS entries of futex waits
    fx,         \* per thread: the kernel side
    us          \* per thread: the user side

fxVars == <<word, fw, ftimers, fx, us>>

Free == [own |-> NoOne, wait |-> FALSE, died |-> FALSE, seq |-> 0]

\* st, why, out, tok: status, block_reason.is_some(), wait_outcome, wait_token;
\* addr, exp, timed: the call's arguments; n, hand: a waker's count and entry.
FxIdle == [at |-> "user", st |-> "Running", why |-> FALSE, out |-> NoOne, tok |-> 0,
           addr |-> "m", exp |-> Free, timed |-> FALSE, n |-> 0, hand |-> <<>>,
           pend |-> FALSE]

\* at: what the thread is doing; held: its robust list; op: list_op_pending;
\* waited: it has slept for the mutex and will keep the waiters bit; timed: its
\* waits have a timeout; seen: the condition variable it read.
UserIdle == [at |-> "out", held |-> FALSE, op |-> FALSE, waited |-> FALSE, timed |-> FALSE,
             seen |-> Free]

Fx(t, new) == fx' = [fx EXCEPT ![t] = new]
Us(t, new) == us' = [us EXCEPT ![t] = new]
EntriesOf(s, t) == {i \in 1..Len(s) : s[i].task = t}
Without(s, t) == SelectSeq(s, LAMBDA e : e.task # t)
WithoutTok(s, t, k) == SelectSeq(s, LAMBDA e : ~(e.task = t /\ e.tok = k))
Untimed(t) == {e \in ftimers : e.task # t}

-----------------------------------------------------------------------------
(* Waking by token *)

\* wake_task_token_with(): the entry is of the current wait and the thread is
\* blocked, or about to be: then the outcome is left for its recheck.
Wakes(e) == fx[e.task].tok = e.tok /\ (fx[e.task].st = "Blocked" \/ fx[e.task].why)

Woken(f, e, out) ==
    IF ~Wakes(e) THEN f
    ELSE [f EXCEPT ![e.task].out = out,
                   ![e.task].why = IF @ /\ fx[e.task].st # "Blocked" THEN TRUE ELSE FALSE,
                   ![e.task].st = IF @ = "Blocked" THEN "Ready" ELSE @]

\* wake_expired_timers(): the entry leaves the list and the wait times out.
FutexTimeout(e) ==
    /\ e \in ftimers
    /\ ftimers' = ftimers \ {e}
    /\ fx' = Woken(fx, e, "TimedOut")
    /\ UNCHANGED <<word, fw, us>>

\* queue_signal() and wake_for_signal().
FutexSignal(t) ==
    /\ fx[t].at # "gone" /\ ~fx[t].pend
    /\ Fx(t, IF fx[t].st = "Blocked"
             THEN [fx[t] EXCEPT !.pend = TRUE, !.st = "Ready", !.why = FALSE, !.out = "Interrupted"]
             ELSE [fx[t] EXCEPT !.pend = TRUE])
    /\ UNCHANGED <<word, fw, ftimers, us>>

-----------------------------------------------------------------------------
(* FUTEX_WAIT *)

\* The system call ends; the pending signal is handled on the way out.
Done(t, f) == [f EXCEPT !.at = "user", !.why = FALSE, !.out = NoOne, !.pend = FALSE]

StartWait(t, a, exp, timed) ==
    [fx[t] EXCEPT !.at = "wait", !.addr = a, !.exp = exp, !.timed = timed]

\* finish_resumed_futex_wait() for a restarted call, else the first comparison.
FutexEnter(t) ==
    /\ fx[t].at = "wait"
    /\ IF fx[t].out # NoOne
       THEN /\ fw' = WithoutTok(fw, t, fx[t].tok)
            /\ ftimers' = ftimers \ {[task |-> t, tok |-> fx[t].tok]}
            /\ Fx(t, Done(t, fx[t]))
       ELSE /\ UNCHANGED <<fw, ftimers>>
            /\ \/ Fx(t, IF word[fx[t].addr] # fx[t].exp THEN Done(t, fx[t])
                        ELSE [fx[t] EXCEPT !.at = "register"])
               \/ fx[t].timed /\ Fx(t, Done(t, fx[t]))
    /\ UNCHANGED <<word, us>>

\* One waiter and one timeout at most for this thread, under a new token.
Registered(t, k) ==
    Append(Without(fw, t), [task |-> t, addr |-> fx[t].addr, tok |-> k])

FutexRegister(t) ==
    /\ fx[t].at = "register"
    /\ fw' = Registered(t, fx[t].tok + 1)
    /\ ftimers' = Untimed(t)
    /\ Fx(t, [fx[t] EXCEPT !.at = "recheck", !.tok = @ + 1, !.out = NoOne, !.why = TRUE])
    /\ UNCHANGED <<word, us>>

\* The word is read again; then a pending signal; then the timeout is armed.
GoesAhead(t) == word[fx[t].addr] = fx[t].exp

FutexRecheck(t) ==
    /\ fx[t].at = "recheck"
    /\ IF GoesAhead(t) /\ ~fx[t].pend
       THEN /\ ftimers' = IF fx[t].timed THEN ftimers \cup {[task |-> t, tok |-> fx[t].tok]}
                          ELSE ftimers
            /\ Fx(t, [fx[t] EXCEPT !.at = "block"])
            /\ UNCHANGED fw
       ELSE /\ fw' = WithoutTok(fw, t, fx[t].tok)
            /\ Fx(t, Done(t, fx[t]))
            /\ UNCHANGED ftimers
    /\ UNCHANGED <<word, us>>

\* block_current_for_reason_until(): publish Blocked, then look for an early wake.
FutexBlock(t) ==
    /\ fx[t].at = "block"
    /\ Fx(t, [fx[t] EXCEPT !.at = "blocked", !.st = "Blocked"])
    /\ UNCHANGED <<word, fw, ftimers, us>>

FutexCheck(t) ==
    /\ fx[t].at = "blocked"
    /\ Fx(t, IF fx[t].out # NoOne THEN [fx[t] EXCEPT !.at = "finish", !.st = "Running"]
             ELSE [fx[t] EXCEPT !.at = "sleep"])
    /\ UNCHANGED <<word, fw, ftimers, us>>

\* A timed wait goes on where it slept; an untimed one was parked and is
\* restarted from the beginning.
FutexResume(t) ==
    /\ fx[t].at = "sleep" /\ fx[t].st = "Ready"
    /\ Fx(t, [fx[t] EXCEPT !.st = "Running", !.at = IF fx[t].timed THEN "finish" ELSE "wait"])
    /\ UNCHANGED <<word, fw, ftimers, us>>

Unlisted(t) == WithoutTok(fw, t, fx[t].tok)

FutexFinish(t) ==
    /\ fx[t].at = "finish"
    /\ fw' = Unlisted(t)
    /\ ftimers' = ftimers \ {[task |-> t, tok |-> fx[t].tok]}
    /\ Fx(t, Done(t, fx[t]))
    /\ UNCHANGED <<word, us>>

-----------------------------------------------------------------------------
(* FUTEX_WAKE and FUTEX_CMP_REQUEUE *)

StartWake(f, a, n) == [f EXCEPT !.at = "wake", !.addr = a, !.n = n]
AtAddr(a) == {i \in 1..Len(fw) : fw[i].addr = a}
FirstOf(S) == CHOOSE i \in S : \A j \in S : i <= j

Enough(t) == fx[t].n = 0 \/ AtAddr(fx[t].addr) = {}

\* futex_wake_addr_key(): take out the first waiter of the word ...
FutexTake(t) ==
    /\ fx[t].at \in {"wake", "robustwake", "tidwake"}
    /\ IF Enough(t)
       THEN /\ Fx(t, CASE fx[t].at = "wake" -> Done(t, fx[t])
                       [] fx[t].at = "robustwake" -> [fx[t] EXCEPT !.at = "tid"]
                       [] fx[t].at = "tidwake" -> [fx[t] EXCEPT !.at = "purge"])
            /\ UNCHANGED fw
       ELSE LET i == FirstOf(AtAddr(fx[t].addr)) IN
            /\ fw' = RemoveAt(fw, i)
            /\ Fx(t, [fx[t] EXCEPT !.hand = <<fw[i]>>])
    /\ fx[t].hand = <<>>
    /\ UNCHANGED <<word, ftimers, us>>

\* ... and complete it; one that no longer waits is not counted.
Counts(e) == IF Wakes(e) THEN 1 ELSE 0

FutexDeliver(t) ==
    /\ fx[t].hand # <<>>
    /\ LET e == Head(fx[t].hand) IN
       fx' = [Woken(fx, e, "Woken") EXCEPT
                ![t].hand = Tail(fx[t].hand),
                ![t].n = IF fx[t].at = "requeued" THEN fx[t].n ELSE @ - Counts(e)]
    /\ UNCHANGED <<word, fw, ftimers, us>>

\* futex_requeue_addr(): under one lock the first waiter is taken out to be
\* woken and the others are moved to the mutex.
Moved(s, i) ==
    [j \in 1..(Len(s) - 1) |->
        LET e == RemoveAt(s, i)[j] IN IF e.addr = "c" THEN [e EXCEPT !.addr = "m"] ELSE e]

FutexRequeue(t) ==
    /\ fx[t].at = "requeue"
    /\ IF AtAddr("c") = {}
       THEN Fx(t, Done(t, fx[t])) /\ UNCHANGED fw
       ELSE LET i == FirstOf(AtAddr("c")) IN
            /\ fw' = Moved(fw, i)
            /\ Fx(t, [fx[t] EXCEPT !.at = "requeued", !.hand = <<fw[i]>>])
    /\ UNCHANGED <<word, ftimers, us>>

FutexRequeued(t) ==
    /\ fx[t].at = "requeued" /\ fx[t].hand = <<>>
    /\ Fx(t, Done(t, fx[t]))
    /\ UNCHANGED <<word, fw, ftimers, us>>

-----------------------------------------------------------------------------
(* The exit of a thread *)

\* process_robust_list_on_exit(): a word that still names the thread gets
\* FUTEX_OWNER_DIED and one waiter is woken.
Marks(t) == (us[t].held \/ us[t].op) /\ word["m"].own = t

Marked(w) == [w EXCEPT !.own = NoOne, !.died = TRUE]
RobustWakes == 1

RobustExit(t) ==
    /\ fx[t].at = "exit"
    /\ IF Marks(t)
       THEN /\ word' = [word EXCEPT !["m"] = Marked(@)]
            /\ Fx(t, [fx[t] EXCEPT !.at = "robustwake", !.addr = "m", !.n = RobustWakes])
       ELSE /\ Fx(t, [fx[t] EXCEPT !.at = "tid"])
            /\ UNCHANGED word
    /\ UNCHANGED <<fw, ftimers, us>>

TidWakes_One == 1
TidWakes == Cardinality(FxTasks)

\* clear_child_tid is zeroed and everybody waiting for it is woken.
ClearTid(t) ==
    /\ fx[t].at = "tid"
    /\ IF t = Joinee
       THEN /\ word' = [word EXCEPT !["j"] = Free]
            /\ Fx(t, [fx[t] EXCEPT !.at = "tidwake", !.addr = "j", !.n = TidWakes])
       ELSE Fx(t, [fx[t] EXCEPT !.at = "purge"]) /\ UNCHANGED word
    /\ UNCHANGED <<fw, ftimers, us>>

\* purge_wait_state_for_task(), Zombie.
PurgeExit(t) ==
    /\ fx[t].at = "purge"
    /\ fw' = Without(fw, t)
    /\ ftimers' = Untimed(t)
    /\ Fx(t, [fx[t] EXCEPT !.at = "gone", !.st = "Zombie", !.why = FALSE, !.out = NoOne])
    /\ UNCHANGED <<word, us>>

-----------------------------------------------------------------------------
(* The threads' user code *)

InUser(t) == fx[t].at = "user"

WantLock(t, timed) ==
    /\ InUser(t) /\ us[t].at = "out"
    /\ Us(t, [us[t] EXCEPT !.at = "want", !.op = TRUE, !.waited = FALSE, !.timed = timed])
    /\ UNCHANGED <<word, fw, ftimers, fx>>

\* One atomic exchange: take a free lock, or set the waiters bit and sleep.
TryLock(t) ==
    /\ InUser(t) /\ us[t].at = "want"
    /\ IF word["m"].own = NoOne
       THEN /\ word' = [word EXCEPT !["m"] = [Free EXCEPT !.own = t,
                                                !.wait = word["m"].wait \/ us[t].waited]]
            /\ Us(t, [us[t] EXCEPT !.at = "crit", !.held = TRUE, !.op = FALSE])
            /\ UNCHANGED fx
       ELSE /\ word' = [word EXCEPT !["m"].wait = TRUE]
            /\ Us(t, [us[t] EXCEPT !.waited = TRUE])
            /\ Fx(t, StartWait(t, "m", word'["m"], us[t].timed))
    /\ UNCHANGED <<fw, ftimers>>

\* Release: leave the list, exchange the word, wake one if somebody waits.
ReleaseLock(t, next) ==
    /\ InUser(t) /\ us[t].at = "crit"
    /\ word' = [word EXCEPT !["m"] = Free]
    /\ Us(t, [us[t] EXCEPT !.at = next, !.held = FALSE, !.op = (next = "out"), !.seen = word["c"]])
    /\ Fx(t, IF word["m"].wait THEN StartWake(fx[t], "m", 1) ELSE fx[t])
    /\ UNCHANGED <<fw, ftimers>>

CondWait(t) ==
    /\ InUser(t) /\ us[t].at = "cond"
    /\ Us(t, [us[t] EXCEPT !.at = "want", !.op = TRUE, !.waited = TRUE])
    /\ Fx(t, StartWait(t, "c", us[t].seen, us[t].timed))
    /\ UNCHANGED <<word, fw, ftimers>>

Broadcast(t) ==
    /\ InUser(t) /\ us[t].at = "crit" /\ word["c"].seq < MaxSeq
    /\ word' = [word EXCEPT !["c"].seq = @ + 1]
    /\ Fx(t, [fx[t] EXCEPT !.at = "requeue"])
    /\ UNCHANGED <<fw, ftimers, us>>

Join(t, timed) ==
    /\ InUser(t) /\ us[t].at = "out" /\ t # Joinee /\ word["j"].own # NoOne
    /\ Us(t, [us[t] EXCEPT !.op = FALSE])
    /\ Fx(t, StartWait(t, "j", word["j"], timed))
    /\ UNCHANGED <<word, fw, ftimers>>

ExitThread(t) ==
    /\ InUser(t) /\ us[t].at \in {"out", "want", "crit"}
    /\ us[t].at = "want" => ~us[t].waited
    /\ Fx(t, [fx[t] EXCEPT !.at = "exit"])
    /\ UNCHANGED <<word, fw, ftimers, us>>

\* The release is complete: list_op_pending is cleared.
OpDone(t) ==
    /\ InUser(t) /\ us[t].at = "out" /\ us[t].op
    /\ Us(t, [us[t] EXCEPT !.op = FALSE])
    /\ UNCHANGED <<word, fw, ftimers, fx>>

-----------------------------------------------------------------------------

\* Idle threads, but for one that may hold the mutex and others that have let
\* it go to wait for the condition variable.
FutexInitWith(holders, waiters) ==
    /\ word = [a \in {"m", "c", "j"} |->
                CASE a = "j" -> [Free EXCEPT !.own = Joinee]
                  [] a = "m" /\ holders # {} -> [Free EXCEPT !.own = CHOOSE t \in holders : TRUE]
                  [] OTHER -> Free]
    /\ fw = <<>>
    /\ ftimers = {}
    /\ fx = [t \in FxTasks |-> FxIdle]
    /\ us = [t \in FxTasks |-> CASE t \in holders -> [UserIdle EXCEPT !.at = "crit", !.held = TRUE]
                                 [] t \in waiters -> [UserIdle EXCEPT !.at = "cond"]
                                 [] OTHER -> UserIdle]

FutexStep(t) ==
    \/ FutexEnter(t) \/ FutexRegister(t) \/ FutexRecheck(t) \/ FutexBlock(t) \/ FutexCheck(t)
    \/ FutexResume(t) \/ FutexFinish(t) \/ FutexTake(t) \/ FutexDeliver(t)
    \/ FutexRequeue(t) \/ FutexRequeued(t) \/ RobustExit(t) \/ ClearTid(t) \/ PurgeExit(t)
    \/ TryLock(t) \/ CondWait(t) \/ ReleaseLock(t, "out") \/ OpDone(t)

-----------------------------------------------------------------------------
(* Properties *)

\* The types; no wake takes more waiters than it was asked for
\* (futex_wake_addr_key()).
FutexTypeOK ==
    /\ \A i \in 1..Len(fw) : fw[i].task \in FxTasks /\ fw[i].addr \in {"m", "c", "j"}
    /\ \A t \in FxTasks :
         /\ fx[t].st \in {"Running", "Ready", "Blocked", "Zombie"}
         /\ fx[t].out \in {NoOne, "Woken", "TimedOut", "Interrupted"}
         /\ fx[t].n >= 0 /\ fx[t].tok >= 0
         /\ us[t].at \in {"out", "want", "crit", "cond"}

\* A thread has at most one entry in FUTEX_WAITERS and one timeout, and only while
\* its wait is in progress: whether it was woken, timed out, was interrupted or was
\* restarted, nothing of it is left when it is back in user mode or gone, where a
\* waker or a timer would spend itself on it (futex_wait_addr()).
EntriesAreWaits ==
    \A t \in FxTasks :
        /\ Cardinality(EntriesOf(fw, t)) <= 1
        /\ Cardinality({e \in ftimers : e.task = t}) <= 1
        /\ fx[t].at \in {"user", "gone"} =>
             EntriesOf(fw, t) = {} /\ ~\E e \in ftimers : e.task = t

\* The lock word names the one thread in its critical section; a robust exit never
\* takes the lock from a live owner (process_robust_list_on_exit()).
OneOwnerOfLock ==
    \A t \in FxTasks : us[t].at = "crit" /\ fx[t].at \notin {"robustwake", "tid", "tidwake", "purge", "gone"}
        => word["m"].own = t

\* Committed to sleep: nobody but a waker, a timer or a signal gets it going.
Asleep(t) == fx[t].at \in {"block", "blocked", "sleep"} /\ fx[t].st # "Ready" /\ fx[t].out = NoOne
Waking(t, a) == fx[t].at \in {"wake", "robustwake", "tidwake"} /\ fx[t].addr = a
Bound(a) == {i \in AtAddr(a) : Asleep(fw[i].task)}

\* A free mutex, also one whose owner died, is never left to sleepers only: some
\* thread is about to try for it, to wake one of them, or to deliver the wake.
FreeLockAttended ==
    word["m"].own = NoOne /\ Bound("m") # {} =>
        \E t \in FxTasks :
            \/ us[t].at = "want" /\ ~Asleep(t) /\ fx[t].at # "gone"
            \/ Waking(t, "m")
            \/ fx[t].hand # <<>>

\* A thread asleep on the condition variable or on a thread's tid word sleeps on
\* the value the word still has, or its waker is at work: no broadcast and no
\* thread exit between the two reads of the word is lost (futex_wait_addr()).
NoFutexWakeLost ==
    \A i \in 1..Len(fw) :
        Asleep(fw[i].task) /\ fw[i].addr = fx[fw[i].task].addr /\ fw[i].addr # "m"
          => \/ word[fw[i].addr] = fx[fw[i].task].exp
             \/ \E t \in FxTasks : Waking(t, fw[i].addr) \/ fx[t].at = "requeue"

\* Together: a futex wait leaves nothing behind, the lock has the owner its word
\* names, and no thread sleeps whose lock is free or whose word has changed unless
\* somebody is at work to wake it (futex_wait_addr(), exit of a thread).
FutexSafe ==
    FutexTypeOK /\ EntriesAreWaits /\ OneOwnerOfLock /\ FreeLockAttended /\ NoFutexWakeLost

=============================================================================
