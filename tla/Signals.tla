------------------------------- MODULE Signals -------------------------------
(***************************************************************************)
(* Signals of the threads of one process (os/src/syscall/signal.rs): masks *)
(* and pending sets, the action table they share, queue_signal(), the      *)
(* frames a handler runs on, sigreturn, sigsuspend and sigtimedwait.       *)
(* Job control itself is module TaskExit; here a stop only freezes the     *)
(* process and an end only ends it.  Signal numbers are small numbers, so  *)
(* that the lowest pending one is delivered first, as trailing_zeros does. *)
(***************************************************************************)
EXTENDS Integers, Sequences, FiniteSets

CONSTANTS
    SgThreads,   \* threads of the process
    Sigs,        \* signal numbers
    IgnoredSigs, \* default_ignored()
    StopSigs,    \* default_stops()
    Unblockable, \* SIGKILL and SIGSTOP
    Depth,       \* bound on nested handlers
    NoMask       \* no saved mask, no outcome

VARIABLES
    acts,        \* SignalActions, shared by the threads
    sg,          \* per thread: SignalState, the frames on its stack, its status
    sk,          \* per thread: the kernel call it is in
    sq,          \* SIGNAL_WAIT_QUEUE: waiting threads
    life,        \* of the process: "runs", "stopped" or "ended"
    base         \* ghost, per thread: the mask its code outside handlers set

sgVars == <<acts, sg, sk, sq, life, base>>

Default == [h |-> "dfl", mask |-> {}, nodefer |-> FALSE, reset |-> FALSE]
NewState == [blocked |-> {}, pending |-> {}, hint |-> FALSE, old |-> NoMask, frames |-> <<>>,
             st |-> "Running", why |-> FALSE, out |-> NoMask]
UserCode == [at |-> "user", sig |-> 1, to |-> NoMask, set |-> {}, timed |-> FALSE]

SanitizeMask(m) == m \ Unblockable

Sg(t, new) == sg' = [sg EXCEPT ![t] = new]
SkTo(t, s) == sk' = [sk EXCEPT ![t].at = s]
CanRun(t) == life = "runs" /\ sg[t].st # "Blocked"
AtCode(t) == CanRun(t) /\ sk[t].at = "user"
LowestSig(S) == CHOOSE s \in S : \A r \in S : s <= r

\* has_deliverable_pending(): unblocked, and not ignored by action or default.
Deliverable(a, x) ==
    {s \in x.pending \ x.blocked :
        a[s].h = "fn" \/ (a[s].h = "dfl" /\ s \notin IgnoredSigs)}

\* Taking a signal out of pending keeps the hint as long as others are pending.
Cleared(x, s) == [x EXCEPT !.pending = @ \ {s}, !.hint = (x.pending \ {s}) # {}]

-----------------------------------------------------------------------------
(* queue_signal() *)

\* kill, tkill, tgkill, a timer or a fault: the sender and its target.
SendSignal(t, u, s) ==
    /\ AtCode(t) /\ sk[u].at # "gone"
    /\ sk' = [sk EXCEPT ![t] = [UserCode EXCEPT !.at = "decide", !.sig = s, !.to = u]]
    /\ UNCHANGED <<acts, sg, sq, life, base>>

\* A default stop or end happens at once when the target does not block it.
Decide(t) ==
    LET s == sk[t].sig
        u == sk[t].to
        open == s \notin sg[u].blocked
    IN
    /\ sk[t].at = "decide" /\ life # "ended"
    /\ CASE acts[s].h = "dfl" /\ s \in StopSigs /\ open -> life' = "stopped" /\ SkTo(t, "user")
         [] acts[s].h = "dfl" /\ s \notin IgnoredSigs \cup StopSigs /\ open ->
                life' = "ended" /\ UNCHANGED sk
         [] OTHER -> SkTo(t, "pend") /\ UNCHANGED life
    /\ UNCHANGED <<acts, sg, sq, base>>

Pend(t) ==
    /\ sk[t].at = "pend" /\ life # "ended"
    /\ sg' = [sg EXCEPT ![sk[t].to].pending = @ \cup {sk[t].sig}, ![sk[t].to].hint = TRUE]
    /\ SkTo(t, "wakeall")
    /\ UNCHANGED <<acts, sq, life, base>>

\* SIGNAL_WAIT_QUEUE.wake_all() ...
WokenAll(f) ==
    [u \in SgThreads |->
        IF u \notin sq THEN f[u]
        ELSE IF f[u].st = "Blocked" THEN [f[u] EXCEPT !.st = "Ready", !.why = FALSE, !.out = "Woken"]
        ELSE IF f[u].why THEN [f[u] EXCEPT !.out = "Woken"]
        ELSE f[u]]

WakeSigs(t) ==
    /\ sk[t].at = "wakeall" /\ life # "ended"
    /\ sg' = WokenAll(sg)
    /\ sq' = {}
    /\ SkTo(t, "wakeone")
    /\ UNCHANGED <<acts, life, base>>

\* ... and wake_for_signal(): the target, if it is blocked and would take it.
WakeOne(t) ==
    LET u == sk[t].to IN
    /\ sk[t].at = "wakeone" /\ life # "ended"
    /\ sg' = IF sg[u].st = "Blocked" /\ Deliverable(acts, sg[u]) # {}
             THEN [sg EXCEPT ![u].st = "Ready", ![u].why = FALSE, ![u].out = "Interrupted"]
             ELSE sg
    /\ SkTo(t, "ret")
    /\ UNCHANGED <<acts, sq, life, base>>

\* continue_task_group().
ContinueAll ==
    /\ life = "stopped"
    /\ life' = "runs"
    /\ UNCHANGED <<acts, sg, sk, sq, base>>

-----------------------------------------------------------------------------
(* Delivery *)

FrameMask_Current(x) == x.blocked

\* The mask a handler runs with, and the one its frame restores.
FrameMask(x) == IF x.old = NoMask THEN x.blocked ELSE x.old

InHandler(x, s) ==
    LET m == FrameMask(x) IN
    [Cleared(x, s) EXCEPT
        !.old = NoMask,
        !.blocked = SanitizeMask(m \cup acts[s].mask \cup (IF acts[s].nodefer THEN {} ELSE {s})),
        !.frames = Append(@, m)]

\* handle_pending_for_task(): one turn of its loop.
Handle(t) ==
    LET todo == sg[t].pending \ sg[t].blocked
        s == LowestSig(todo)
    IN
    /\ sk[t].at = "ret" /\ CanRun(t)
    /\ CASE ~sg[t].hint \/ todo = {} -> SkTo(t, "user") /\ UNCHANGED <<acts, sg, life>>
         [] sg[t].hint /\ todo # {} /\ (acts[s].h = "ign" \/ (acts[s].h = "dfl" /\ s \in IgnoredSigs)) ->
              Sg(t, Cleared(sg[t], s)) /\ UNCHANGED <<acts, sk, life>>
         [] sg[t].hint /\ todo # {} /\ acts[s].h = "dfl" /\ s \notin IgnoredSigs ->
              /\ Sg(t, Cleared(sg[t], s))
              /\ life' = IF s \in StopSigs THEN "stopped" ELSE "ended"
              /\ UNCHANGED <<acts, sk>>
         [] sg[t].hint /\ todo # {} /\ acts[s].h = "fn" ->
              /\ Len(sg[t].frames) < Depth
              /\ Sg(t, InHandler(sg[t], s))
              /\ acts' = IF acts[s].reset THEN [acts EXCEPT ![s] = Default] ELSE acts
              /\ SkTo(t, "user") /\ UNCHANGED life
    /\ UNCHANGED <<sq, base>>

\* sys_sigreturn(): the mask the frame holds, which the handler may have edited.
SigReturn(t, edit) ==
    LET n == Len(sg[t].frames) IN
    /\ AtCode(t) /\ n > 0
    /\ Sg(t, [sg[t] EXCEPT !.blocked = SanitizeMask(sg[t].frames[n] \cup edit),
                           !.frames = SubSeq(@, 1, n - 1)])
    /\ base' = IF n = 1 THEN [base EXCEPT ![t] = @ \cup (edit \ Unblockable)] ELSE base
    /\ edit # {} => n = 1
    /\ SkTo(t, "ret")
    /\ UNCHANGED <<acts, sq, life>>

-----------------------------------------------------------------------------
(* Masks and actions *)

Masked(how, b, m) == CASE how = "block" -> b \cup m [] how = "unblock" -> b \ m [] how = "set" -> m

SigProcMask(t, how, m) ==
    /\ AtCode(t)
    /\ Sg(t, [sg[t] EXCEPT !.blocked = SanitizeMask(Masked(how, @, m))])
    /\ base' = IF sg[t].frames = <<>>
               THEN [base EXCEPT ![t] = Masked(how, sg[t].blocked, m) \ Unblockable] ELSE base
    /\ SkTo(t, "ret")
    /\ UNCHANGED <<acts, sq, life>>

SigAction(t, s, a) ==
    /\ AtCode(t) /\ s \notin Unblockable
    /\ acts' = [acts EXCEPT ![s] = [a EXCEPT !.mask = SanitizeMask(@)]]
    /\ SkTo(t, "ret")
    /\ UNCHANGED <<sg, sq, life, base>>

\* execve() ends the other threads, then reset_signal_handlers_for_exec().
ExecSignals(t) ==
    /\ AtCode(t)
    /\ acts' = [s \in Sigs |-> IF acts[s].h = "fn" THEN Default ELSE acts[s]]
    /\ Sg(t, [sg[t] EXCEPT !.frames = <<>>])
    /\ base' = [base EXCEPT ![t] = sg[t].blocked]
    /\ sk' = [u \in SgThreads |-> [UserCode EXCEPT !.at = IF u = t THEN "ret" ELSE "gone"]]
    /\ sq' = sq \cap {t}
    /\ UNCHANGED life

-----------------------------------------------------------------------------
(* sigsuspend and sigtimedwait *)

SuspendCall(t, m) ==
    /\ AtCode(t)
    /\ sk' = [sk EXCEPT ![t] = [UserCode EXCEPT !.at = "suspend", !.set = m]]
    /\ UNCHANGED <<acts, sg, sq, life, base>>

\* The temporary mask is put in place, again when the call is restarted.
SuspendSet(t) ==
    /\ sk[t].at = "suspend" /\ CanRun(t)
    /\ Sg(t, [sg[t] EXCEPT !.old = sg[t].blocked, !.blocked = SanitizeMask(sk[t].set)])
    /\ SkTo(t, "susloop")
    /\ UNCHANGED <<acts, sq, life, base>>

TimedWaitCall(t, m, timed) ==
    /\ AtCode(t)
    /\ sk' = [sk EXCEPT ![t] = [UserCode EXCEPT !.at = "twloop", !.set = SanitizeMask(m), !.timed = timed]]
    /\ UNCHANGED <<acts, sg, sq, life, base>>

\* What ends the loop: a deliverable signal for sigsuspend, one of the set for
\* sigtimedwait, which takes it.
Ends(t) == IF sk[t].at \in {"susloop", "suscheck"} THEN Deliverable(acts, sg[t]) # {}
           ELSE sg[t].pending \cap sk[t].set # {}

SigLoop(t) ==
    LET sus == sk[t].at = "susloop" IN
    /\ sk[t].at \in {"susloop", "twloop"} /\ CanRun(t)
    /\ IF Ends(t)
       THEN /\ Sg(t, IF sus THEN sg[t] ELSE Cleared(sg[t], LowestSig(sg[t].pending \cap sk[t].set)))
            /\ SkTo(t, "ret")
            /\ UNCHANGED sq
       ELSE SkTo(t, IF sus THEN "susreg" ELSE "twreg") /\ UNCHANGED <<sg, sq>>
    /\ UNCHANGED <<acts, life, base>>

\* sleep_until_if(): a resumed call takes its outcome, else the entry is added.
SigRegister(t) ==
    LET sus == sk[t].at = "susreg"
        loop == IF sus THEN "susloop" ELSE "twloop"
    IN
    /\ sk[t].at \in {"susreg", "twreg"} /\ CanRun(t)
    /\ IF sg[t].out # NoMask
       THEN /\ Sg(t, [sg[t] EXCEPT !.out = NoMask, !.why = FALSE])
            /\ sq' = sq \ {t}
            /\ SkTo(t, IF sg[t].out = "Woken" THEN loop ELSE "ret")
       ELSE /\ Sg(t, [sg[t] EXCEPT !.why = TRUE])
            /\ sq' = sq \cup {t}
            /\ SkTo(t, IF sus THEN "suscheck" ELSE "twcheck")
    /\ UNCHANGED <<acts, life, base>>

Recheck_Skipped(t) == FALSE

\* should_sleep() with the entry in the queue, then the pending signals.
Recheck(t) == Ends(t)

SigCheck(t) ==
    LET sus == sk[t].at = "suscheck" IN
    /\ sk[t].at \in {"suscheck", "twcheck"} /\ CanRun(t)
    /\ IF Recheck(t) \/ (~sus /\ Deliverable(acts, sg[t]) # {})
       THEN /\ Sg(t, [sg[t] EXCEPT !.why = FALSE])
            /\ sq' = sq \ {t}
            /\ SkTo(t, IF Recheck(t) THEN (IF sus THEN "susloop" ELSE "twloop") ELSE "ret")
       ELSE /\ Sg(t, [sg[t] EXCEPT !.st = "Blocked"])
            /\ SkTo(t, IF sus THEN "susblock" ELSE "twblock")
            /\ UNCHANGED sq
    /\ UNCHANGED <<acts, life, base>>

\* Blocked is published; an early wake undoes it, else the CPU is left: an
\* untimed call is parked, and a parked sigsuspend gives the old mask back.
Unsuspended(x) == IF x.old = NoMask THEN x ELSE [x EXCEPT !.blocked = x.old, !.old = NoMask]

SigBlock(t) ==
    LET sus == sk[t].at = "susblock" IN
    /\ sk[t].at \in {"susblock", "twblock"} /\ life = "runs"
    /\ sq' = IF sg[t].out # NoMask THEN sq \ {t} ELSE sq
    /\ IF sg[t].out # NoMask
       THEN /\ Sg(t, [sg[t] EXCEPT !.st = "Running", !.why = FALSE, !.out = NoMask])
            /\ SkTo(t, IF sg[t].out = "Interrupted" THEN "ret" ELSE IF sus THEN "susloop" ELSE "twloop")
       ELSE /\ Sg(t, IF sus THEN Unsuspended(sg[t]) ELSE sg[t])
            /\ SkTo(t, IF sus THEN "sussleep" ELSE "twsleep")
    /\ UNCHANGED <<acts, life, base>>

SigResume(t) ==
    /\ sk[t].at \in {"sussleep", "twsleep"} /\ life = "runs" /\ sg[t].st = "Ready"
    /\ Sg(t, [sg[t] EXCEPT !.st = "Running"])
    /\ SkTo(t, IF sk[t].at = "sussleep" THEN "suspend" ELSE "twloop")
    /\ UNCHANGED <<acts, sq, life, base>>

SigTimeout(t) ==
    /\ sk[t].at = "twsleep" /\ sk[t].timed /\ sg[t].st = "Blocked" /\ life = "runs"
    /\ Sg(t, [sg[t] EXCEPT !.st = "Ready", !.why = FALSE, !.out = "TimedOut"])
    /\ UNCHANGED <<acts, sk, sq, life, base>>

-----------------------------------------------------------------------------

SigInit(a) ==
    /\ acts = a
    /\ sg = [t \in SgThreads |-> NewState]
    /\ sk = [t \in SgThreads |-> UserCode]
    /\ sq = {}
    /\ life = "runs"
    /\ base = [t \in SgThreads |-> {}]

SigStep(t) ==
    \/ Decide(t) \/ Pend(t) \/ WakeSigs(t) \/ WakeOne(t) \/ Handle(t) \/ SigReturn(t, {})
    \/ SuspendSet(t) \/ SigLoop(t) \/ SigRegister(t) \/ SigCheck(t) \/ SigBlock(t) \/ SigResume(t) \/ SigTimeout(t)

-----------------------------------------------------------------------------
(* Properties *)

\* The types; handlers nest at most Depth deep, and a saved mask belongs to a
\* sigsuspend that has not returned to user code (suspend_old_mask).
SigTypeOK ==
    /\ acts \in [Sigs -> [h : {"dfl", "ign", "fn"}, mask : SUBSET Sigs, nodefer : BOOLEAN, reset : BOOLEAN]]
    /\ \A t \in SgThreads :
         /\ sg[t].blocked \subseteq Sigs /\ sg[t].pending \subseteq Sigs
         /\ Len(sg[t].frames) <= Depth
         /\ sg[t].old # NoMask => sk[t].at \in {"susloop", "susreg", "suscheck", "susblock", "ret"}
    /\ sq \subseteq SgThreads

\* SIGKILL and SIGSTOP are never in a mask: not through sigprocmask, a handler's
\* mask, sigsuspend or a mask the handler wrote into its frame (sanitize_mask()).
NeverBlocksKill == \A t \in SgThreads : sg[t].blocked \cap Unblockable = {}

\* The hint that lets the return path skip the signal state is never clear while
\* a signal is pending, or it would be delivered only by chance (handle_pending).
HintCoversPending == \A t \in SgThreads : sg[t].pending # {} => sg[t].hint

\* Code outside handlers always runs with the mask it set itself: handlers, nested
\* ones, and sigsuspend with any number of restarts give it back (sys_sigreturn(),
\* suspend_old_mask; docs/syscall-matrix.md "restores the caller's old mask").
MaskRestored ==
    \A t \in SgThreads : sk[t].at = "user" /\ sg[t].frames = <<>> => sg[t].blocked = base[t]

Sending(t) == sk[t].at \in {"pend", "wakeall", "wakeone"}

\* A thread asleep in sigsuspend or sigtimedwait has no signal it waits for, or a
\* sender is about to wake it, even though a parked sigsuspend sleeps with the
\* old mask (queue_signal() wakes every signal waiter).
NoStrandedSigwait ==
    \A t \in SgThreads :
        sk[t].at \in {"sussleep", "twsleep"} /\ sg[t].st = "Blocked" /\ life = "runs" =>
            \/ \E u \in SgThreads : Sending(u)
            \/ IF sk[t].at = "sussleep"
               THEN Deliverable(acts, [sg[t] EXCEPT !.blocked = sk[t].set \ Unblockable]) = {}
               ELSE sg[t].pending \cap sk[t].set = {}

\* Together: a mask never holds SIGKILL or SIGSTOP and comes back as it was, and
\* a pending signal is found on the way to user mode and by whoever sleeps for it.
SignalsSafe ==
    SigTypeOK /\ NeverBlocksKill /\ HintCoversPending /\ MaskRestored /\ NoStrandedSigwait

=============================================================================
