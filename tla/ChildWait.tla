------------------------------ MODULE ChildWait ------------------------------
(***************************************************************************)
(* Parents and children: fork and vfork, execve's release of a vfork       *)
(* parent, process exit with the hand-over of orphans to the reaper, and   *)
(* wait4/waitid with their sleep on CHILD_WAIT_QUEUE                       *)
(* (os/src/syscall/process.rs, os/src/task/mod.rs).                        *)
(*                                                                         *)
(* Every process has one thread.  The steps of a sleep and of a wake that  *)
(* TaskSched checks one by one are taken in one piece here where no lock   *)
(* of this component lies between them: taking an entry off the queue and  *)
(* completing it is one step.                                              *)
(***************************************************************************)
EXTENDS Integers, Sequences, FiniteSets, SequencesExt

CONSTANTS
    Procs,      \* processes, born and to be born
    Reaper,     \* ORPHAN_REAPER
    NoProc      \* no process, no outcome

VARIABLES
    pr,         \* per process: its task control block and thread group
    cw,         \* CHILD_WAIT_QUEUE, in order
    cc,         \* per process: the kernel call it is in
    reaps       \* ghost: how often each process was reaped

cwVars == <<pr, cw, cc, reaps>>

\* st, why, out, tok: status, block_reason, wait_outcome, wait_token; vf: CLONE_VFORK
\* in clone_flags; zomb: process_zombie; ev: the stop or continue not yet consumed;
\* catch: SIGCHLD has a handler; pend: it is pending; execd, freed: ghosts.
Unborn == [st |-> "Unborn", parent |-> NoProc, kids |-> <<>>, vf |-> FALSE, zomb |-> FALSE,
           why |-> FALSE, out |-> NoProc, tok |-> 0, ev |-> "none", catch |-> FALSE,
           pend |-> FALSE, execd |-> FALSE]

InUserMode == [at |-> "user", who |-> NoProc, want |-> {}, hang |-> TRUE, keep |-> FALSE,
               hand |-> <<>>]

Alive(p) == pr[p].st # "Unborn" /\ ~pr[p].zomb /\ cc[p].at # "gone"
AtUser(p) == Alive(p) /\ pr[p].st = "Running" /\ cc[p].at = "user"
Going(p) == pr[p].st \notin {"Unborn", "Blocked", "Stopped"}
Goto(p, s) == cc' = [cc EXCEPT ![p].at = s]

-----------------------------------------------------------------------------
(* Wakes *)

\* wake_task_token_with() for an entry of the queue.
TokenWake(f, e) ==
    IF f[e.task].tok # e.tok \/ ~(f[e.task].st = "Blocked" \/ f[e.task].why) THEN f
    ELSE IF f[e.task].st = "Blocked"
         THEN [f EXCEPT ![e.task].st = "Ready", ![e.task].why = FALSE, ![e.task].out = "Woken"]
         ELSE [f EXCEPT ![e.task].out = "Woken"]

\* wake_blocked_task(): only a task that is Blocked.
BlockedWake(f, p, out) ==
    IF f[p].st # "Blocked" THEN f
    ELSE [f EXCEPT ![p].st = "Ready", ![p].why = FALSE, ![p].out = out]

\* release_vfork_parent() and wake_deferred_block().
DeferredWake(f, c) ==
    LET p == f[c].parent IN
    IF ~f[c].vf \/ p = NoProc THEN f
    ELSE IF ~f[p].why THEN f
    ELSE IF f[p].st = "Blocked" THEN [f EXCEPT ![p].st = "Ready", ![p].why = FALSE]
    ELSE [f EXCEPT ![p].out = "Woken"]

-----------------------------------------------------------------------------
(* clone without CLONE_THREAD *)

\* The child enters the parent's list; a vfork announces the block first.
Fork(p, c, vf) ==
    /\ AtUser(p) /\ pr[c].st = "Unborn"
    /\ pr' = [pr EXCEPT ![c] = [Unborn EXCEPT !.st = IF vf THEN "Unborn" ELSE "Running",
                                              !.parent = p, !.vf = vf, !.catch = pr[p].catch],
                        ![p].kids = Append(@, c),
                        ![p].out = IF vf THEN NoProc ELSE @,
                        ![p].why = IF vf THEN TRUE ELSE @]
    /\ cc' = [cc EXCEPT ![p].at = IF vf THEN "vadd" ELSE "user", ![p].who = c]
    /\ UNCHANGED <<cw, reaps>>

VforkAdd(p) ==
    /\ cc[p].at = "vadd"
    /\ pr' = [pr EXCEPT ![cc[p].who].st = "Running"]
    /\ Goto(p, "vcommit")
    /\ UNCHANGED <<cw, reaps>>

\* commit_current_deferred_block(): an early wake ends it ...
VforkCommit(p) ==
    /\ cc[p].at = "vcommit"
    /\ IF ~pr[p].why \/ pr[p].out # NoProc
       THEN /\ pr' = [pr EXCEPT ![p].out = IF pr[p].why THEN NoProc ELSE @, ![p].why = FALSE]
            /\ Goto(p, "user")
       ELSE Goto(p, "vblock") /\ UNCHANGED pr
    /\ UNCHANGED <<cw, reaps>>

\* ... or Blocked is published ...
VforkBlock(p) ==
    /\ cc[p].at = "vblock"
    /\ pr' = [pr EXCEPT ![p].st = "Blocked"]
    /\ Goto(p, "vrecheck")
    /\ UNCHANGED <<cw, reaps>>

\* ... and the early wake looked for once more.
VforkRecheck(p) ==
    /\ cc[p].at = "vrecheck"
    /\ IF pr[p].out # NoProc
       THEN pr' = [pr EXCEPT ![p].out = NoProc, ![p].st = "Running", ![p].why = FALSE]
            /\ Goto(p, "user")
       ELSE Goto(p, "vsleep") /\ UNCHANGED pr
    /\ UNCHANGED <<cw, reaps>>

VforkResume(p) ==
    /\ cc[p].at = "vsleep" /\ pr[p].st = "Ready"
    /\ pr' = [pr EXCEPT ![p].st = "Running", ![p].pend = FALSE]
    /\ Goto(p, "user")
    /\ UNCHANGED <<cw, reaps>>

\* A successful execve ends with the release of a vfork parent.
Execve(p) ==
    /\ AtUser(p)
    /\ pr' = [DeferredWake(pr, p) EXCEPT ![p].execd = TRUE, ![p].catch = FALSE]
    /\ UNCHANGED <<cw, cc, reaps>>

\* sys_sigaction for SIGCHLD.
CatchChild(p) ==
    /\ AtUser(p) /\ ~pr[p].catch
    /\ pr' = [pr EXCEPT ![p].catch = TRUE]
    /\ UNCHANGED <<cw, cc, reaps>>

-----------------------------------------------------------------------------
(* Exit *)

\* finish_process_exit(): the process is a zombie and its parent is noted.
ExitCall(p) ==
    /\ AtUser(p) /\ p # Reaper
    /\ pr' = [pr EXCEPT ![p].zomb = TRUE, ![p].st = "Zombie"]
    /\ cc' = [cc EXCEPT ![p] = [InUserMode EXCEPT !.at = "xvfork", !.who = pr[p].parent]]
    /\ UNCHANGED <<cw, reaps>>

ExitVfork(p) ==
    /\ cc[p].at = "xvfork"
    /\ pr' = DeferredWake(pr, p)
    /\ Goto(p, "xnotify")
    /\ UNCHANGED <<cw, reaps>>

\* notify_child_exit(): SIGCHLD to the parent it has now; only a handler makes
\* it deliverable, and then it interrupts a blocked parent.
ExitNotify(p) ==
    /\ cc[p].at = "xnotify"
    /\ LET q == pr[p].parent IN
       pr' = IF q = NoProc THEN pr
             ELSE IF pr[q].st = "Zombie" \/ ~pr[q].catch THEN pr
             ELSE BlockedWake([pr EXCEPT ![q].pend = TRUE], q, "Interrupted")
    /\ Goto(p, "xtake")
    /\ UNCHANGED <<cw, reaps>>

\* The children are taken out of the process ...
ExitTake(p) ==
    /\ cc[p].at = "xtake"
    /\ pr' = [pr EXCEPT ![p].kids = <<>>]
    /\ cc' = [cc EXCEPT ![p].at = "xgive", ![p].hand = pr[p].kids]
    /\ UNCHANGED <<cw, reaps>>

\* ... and given to the reaper.
Adopted(f, orphans) ==
    [q \in Procs |->
        IF q \in Range(orphans) THEN [f[q] EXCEPT !.parent = Reaper]
        ELSE IF q = Reaper THEN [f[q] EXCEPT !.kids = @ \o orphans]
        ELSE f[q]]

ExitGive(p) ==
    /\ cc[p].at = "xgive"
    /\ pr' = Adopted(pr, cc[p].hand)
    /\ cc' = [cc EXCEPT ![p].at = "xdirect", ![p].hand = <<>>]
    /\ UNCHANGED <<cw, reaps>>

ExitEnds_NoWake == "gone"
ExitEnds == "wall"

\* The parent noted at the start is woken if it waits for a child.
ExitDirect(p) ==
    /\ cc[p].at = "xdirect"
    /\ LET q == cc[p].who IN
       pr' = IF q = NoProc THEN pr ELSE IF pr[q].why THEN BlockedWake(pr, q, "Woken") ELSE pr
    /\ Goto(p, ExitEnds)
    /\ UNCHANGED <<cw, reaps>>

\* wake_child_waiters(): one entry after the other until the queue is empty.
WakeAll(p) ==
    /\ cc[p].at = "wall"
    /\ IF cw = <<>>
       THEN Goto(p, IF pr[p].zomb THEN "gone" ELSE "user") /\ UNCHANGED <<pr, cw>>
       ELSE /\ pr' = TokenWake(pr, Head(cw))
            /\ cw' = Tail(cw)
            /\ UNCHANGED cc
    /\ UNCHANGED reaps

-----------------------------------------------------------------------------
(* stop and continue *)

\* stop_task_group(): the event replaces one not consumed; its waits are purged.
StopChild(s, p) ==
    /\ AtUser(s) /\ s # p /\ AtUser(p)
    /\ pr' = [pr EXCEPT ![p].st = "Stopped", ![p].ev = "Stopped"]
    /\ cw' = SelectSeq(cw, LAMBDA e : e.task # p)
    /\ Goto(s, "wall")
    /\ UNCHANGED reaps

\* continue_task_group().
Continue(s, p) ==
    /\ AtUser(s) /\ s # p /\ Alive(p) /\ pr[p].st = "Stopped"
    /\ pr' = [pr EXCEPT ![p].st = "Running", ![p].ev = "Continued"]
    /\ Goto(s, "wall")
    /\ UNCHANGED <<cw, reaps>>

-----------------------------------------------------------------------------
(* wait4 and waitid *)

Kids(p) == Range(pr[p].kids)
Matching(p) == IF cc[p].who = NoProc THEN Kids(p) ELSE Kids(p) \cap {cc[p].who}
Zombies(p) == {c \in Matching(p) : pr[c].zomb}
Events(p) == {c \in Matching(p) : pr[c].ev \in cc[p].want}
ExitWanted(p) == "Exited" \in cc[p].want
FirstKid(p, S) == pr[p].kids[CHOOSE i \in 1..Len(pr[p].kids) :
                    /\ pr[p].kids[i] \in S
                    /\ \A j \in 1..(i - 1) : pr[p].kids[j] \notin S]

\* want: the events asked for (wait4 asks for exits only); hang: no WNOHANG;
\* keep: WNOWAIT.
WaitCall(p, c, want, hang, keep) ==
    /\ AtUser(p)
    /\ cc' = [cc EXCEPT ![p] = [InUserMode EXCEPT !.at = "look", !.who = c, !.want = want,
                                                  !.hang = hang, !.keep = keep]]
    /\ UNCHANGED <<pr, cw, reaps>>

\* The call returns; a pending SIGCHLD is handled on the way out.
Return(f, p) == [f EXCEPT ![p].pend = FALSE]

\* take_child_wait_event(), then reap_zombie_child() or peek_zombie_child().
WaitLook(p) ==
    /\ cc[p].at = "look" /\ Going(p)
    /\ CASE Events(p) # {} ->
              /\ pr' = Return(IF cc[p].keep THEN pr
                              ELSE [pr EXCEPT ![FirstKid(p, Events(p))].ev = "none"], p)
              /\ Goto(p, "user")
              /\ UNCHANGED reaps
         [] Events(p) = {} /\ ExitWanted(p) /\ Zombies(p) # {} ->
              LET c == FirstKid(p, Zombies(p)) IN
              /\ pr' = Return(IF cc[p].keep THEN pr
                              ELSE [pr EXCEPT ![p].kids = Remove(@, c)], p)
              /\ reaps' = IF cc[p].keep THEN reaps ELSE [reaps EXCEPT ![c] = @ + 1]
              /\ Goto(p, "user")
         [] OTHER -> Goto(p, "has") /\ UNCHANGED <<pr, reaps>>
    /\ UNCHANGED cw

\* has_matching_child(): ECHILD, 0 for WNOHANG, or the sleep.
WaitHas(p) ==
    /\ cc[p].at = "has"
    /\ IF Matching(p) = {} \/ ~cc[p].hang
       THEN pr' = Return(pr, p) /\ Goto(p, "user")
       ELSE Goto(p, "register") /\ UNCHANGED pr
    /\ UNCHANGED <<cw, reaps>>

Unqueued(p, k) == SelectSeq(cw, LAMBDA e : ~(e.task = p /\ e.tok = k))

\* sleep_on_child_exit_if(): a finished wait is collected, or an entry is made.
\* Registration leaves one entry of the task, so two tokens tell all waits apart.
WaitRegister(p) ==
    /\ cc[p].at = "register"
    /\ IF pr[p].out # NoProc
       THEN /\ cw' = Unqueued(p, pr[p].tok)
            /\ pr' = [pr EXCEPT ![p].out = NoProc, ![p].why = FALSE]
            /\ Goto(p, "look")
       ELSE /\ cw' = Append(SelectSeq(cw, LAMBDA e : e.task # p),
                            [task |-> p, tok |-> 1 - pr[p].tok])
            /\ pr' = [pr EXCEPT ![p].tok = 1 - @, ![p].why = TRUE]
            /\ Goto(p, "check")
    /\ UNCHANGED reaps

\* The last look, with the entry in the queue.
StillWaits(p) ==
    /\ Events(p) = {}
    /\ ~(ExitWanted(p) /\ Zombies(p) # {})
    /\ Matching(p) # {}

\* A pending signal ends the sleep too, and the wait begins again.
WaitCheck(p) ==
    /\ cc[p].at = "check"
    /\ IF ~StillWaits(p) \/ pr[p].pend
       THEN /\ cw' = Unqueued(p, pr[p].tok)
            /\ pr' = [pr EXCEPT ![p].why = FALSE]
            /\ Goto(p, "look")
       ELSE Goto(p, "block") /\ UNCHANGED <<pr, cw>>
    /\ UNCHANGED reaps

WaitBlock(p) ==
    /\ cc[p].at = "block"
    /\ pr' = [pr EXCEPT ![p].st = "Blocked"]
    /\ Goto(p, "recheck")
    /\ UNCHANGED <<cw, reaps>>

RunsAgain(f, p) == [f EXCEPT ![p].st = "Running"]

WaitRecheck(p) ==
    /\ cc[p].at = "recheck"
    /\ pr' = IF pr[p].out # NoProc THEN RunsAgain(pr, p) ELSE pr
    /\ Goto(p, IF pr[p].out # NoProc THEN "register" ELSE "sleep")
    /\ UNCHANGED <<cw, reaps>>

\* The parked call is restarted from its beginning.
WaitResume(p) ==
    /\ cc[p].at = "sleep" /\ pr[p].st = "Ready"
    /\ pr' = [pr EXCEPT ![p].st = "Running"]
    /\ Goto(p, "look")
    /\ UNCHANGED <<cw, reaps>>

-----------------------------------------------------------------------------

\* The reaper and one child of it, the parent of the processes to come.
ChildInit(p) ==
    /\ pr = [q \in Procs |->
                IF q = Reaper THEN [Unborn EXCEPT !.st = "Running", !.kids = <<p>>]
                ELSE IF q = p THEN [Unborn EXCEPT !.st = "Running", !.parent = Reaper]
                ELSE Unborn]
    /\ cw = <<>>
    /\ cc = [q \in Procs |-> InUserMode]
    /\ reaps = [q \in Procs |-> 0]

ChildStep(p) ==
    \/ VforkAdd(p) \/ VforkCommit(p) \/ VforkBlock(p) \/ VforkRecheck(p) \/ VforkResume(p)
    \/ ExitVfork(p) \/ ExitNotify(p) \/ ExitTake(p) \/ ExitGive(p) \/ ExitDirect(p) \/ WakeAll(p)
    \/ WaitLook(p) \/ WaitHas(p) \/ WaitRegister(p) \/ WaitCheck(p)
    \/ WaitBlock(p) \/ WaitRecheck(p) \/ WaitResume(p)

-----------------------------------------------------------------------------
(* Properties *)

\* The types; a process is Blocked only inside a wait, and has at most one entry
\* in CHILD_WAIT_QUEUE (sys_wait4_thread_group_inner()).
ChildTypeOK ==
    /\ \A p \in Procs :
         /\ pr[p].st \in {"Unborn", "Running", "Ready", "Blocked", "Stopped", "Zombie"}
         /\ pr[p].parent \in Procs \cup {NoProc}
         /\ pr[p].out \in {NoProc, "Woken", "Interrupted"}
         /\ pr[p].ev \in {"none", "Stopped", "Continued"}
         /\ pr[p].st = "Blocked" => cc[p].at \in {"recheck", "sleep", "vrecheck", "vsleep"}
    /\ \A i, j \in 1..Len(cw) : cw[i].task \in Procs /\ (cw[i].task = cw[j].task => i = j)

Nothing(p) ==
    Events(p) = {} /\ Matching(p) # {} /\ (ExitWanted(p) => Zombies(p) = {})
Publishing(p) == cc[p].at \in {"xvfork", "xnotify", "xtake", "xgive", "xdirect", "wall"}

\* A process asleep in wait4 or waitid has nothing to report: a matching zombie, an
\* unconsumed stop or continue, or the loss of its last matching child always has
\* somebody on the way to wake it (the comment in sys_wait4_thread_group_inner()).
NoStrandedParent ==
    \A p \in Procs :
        cc[p].at = "sleep" /\ pr[p].st = "Blocked" /\ ~Nothing(p)
          => \E q \in Procs : Publishing(q)

\* A process is reaped at most once, and until then stands in exactly one list of
\* children: its parent's, or the reaper's, or in the hands of its exiting parent;
\* a process that is gone keeps none (finish_process_exit(), reap_zombie_child()).
EveryChildListed ==
    \A c \in Procs \ {Reaper} :
        LET holders == {p \in Procs : c \in Kids(p)}
            hands == {p \in Procs : c \in Range(cc[p].hand)}
        IN /\ reaps[c] <= 1
           /\ pr[c].parent = NoProc => holders = {}
           /\ pr[c].parent # NoProc =>
                Cardinality(holders) + Cardinality(hands) = 1 - reaps[c]
           /\ \A p \in holders : pr[c].parent = p /\ cc[p].at # "gone"

\* A vfork parent is not left asleep once its child has executed or is gone
\* (release_vfork_parent() against commit_current_deferred_block()).
VforkReleased ==
    \A p \in Procs :
        cc[p].at = "vsleep" /\ pr[p].st = "Blocked" =>
            LET c == cc[p].who IN ~pr[c].execd /\ cc[c].at # "gone"

\* Together: every child is in one list until it is reaped, once, and no parent
\* sleeps in wait4, waitid or vfork beside the event it waits for.
ChildrenSafe == ChildTypeOK /\ EveryChildListed /\ NoStrandedParent /\ VforkReleased

=============================================================================
