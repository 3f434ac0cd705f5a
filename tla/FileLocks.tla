----------------------------- MODULE FileLocks -----------------------------
(***************************************************************************)
(* fcntl() record locks and flock() locks of syscall/fs.rs: the three      *)
(* tables FILE_RECORD_LOCKS, FILE_LOCK_WAITERS and WHOLE_FILE_LOCKS, each  *)
(* behind a mutex of its own, and the calls of the threads that use them.  *)
(* A call is a sequence of critical sections: between two of them the      *)
(* threads on the other CPUs run.  The end of an unbounded range (None in  *)
(* the code) is Inf, a position above every other.                         *)
(*                                                                         *)
(* Going to sleep on the key of a file is one step, taken only while the   *)
(* condition holds: that is what the wait queue promises (TaskSched).      *)
(***************************************************************************)
EXTENDS Integers, FiniteSets, FiniteSetsExt

CONSTANTS
    Threads,        \* user threads
    ProcOf,         \* the process (tgid) of a thread
    Ofds,           \* open file descriptions
    FileOf,         \* the file of a description (its FileLockKey)
    OpenAt,         \* the process that holds each description at first
    Flocks,         \* fcntl() arguments: [type, whence, start, len] and the command, [ofd, wait]
    FileOps,        \* the flock() operations: [kind, wait]
    Offset, Size,   \* file offset and file size, for SEEK_CUR and SEEK_END
    Inf,            \* above every position
    CpuCounts,      \* how many CPUs the machine may have
    MaxDup,         \* bound on the references one process has to a description
    None

Procs == {ProcOf[t] : t \in Threads}
Files == {FileOf[o] : o \in Ofds}
Owners == ({"posix"} \X Procs) \cup ({"ofd"} \X Ofds)

(* where the start of a struct flock counts from                           *)
LockBase(fl) == CASE fl.whence = 0 -> 0 [] fl.whence = 1 -> Offset [] fl.whence = 2 -> Size

(* Inf is above every position a call can name.                            *)
ASSUME FlocksAssumption ==
    /\ Offset \in Nat /\ Size \in Nat /\ Inf \in Nat \ {0} /\ MaxDup \in Nat \ {0}
    /\ Flocks \subseteq [type : {"R", "W", "U"}, whence : 0..2, start : Int, len : Int,
                         ofd : BOOLEAN, wait : BOOLEAN]
    /\ \A fl \in Flocks : /\ LockBase(fl) + fl.start < Inf
                           /\ LockBase(fl) + fl.start + fl.len <= Inf
    /\ FileOps \subseteq [kind : {"R", "W", "U"}, wait : BOOLEAN]

VARIABLES
    locks,     \* FILE_RECORD_LOCKS: [file, owner, kind, lo, hi]
    waitFor,   \* FILE_LOCK_WAITERS: the owner an owner waits for, or None
    whole,     \* WHOLE_FILE_LOCKS: [file, owner, kind]
    table,     \* references of a process to a description: fd table entries
    exited,    \* processes past finish_process_exit()
    call,      \* what each thread does
    cpus,      \* number of CPUs
    parks      \* foreground driver: a blocked call is re-entered, not resumed

lockVars == <<locks, waitFor, whole, table, exited, call, cpus, parks>>

Idle == [pc |-> "idle"]

-----------------------------------------------------------------------------
(* ranges *)

Overlap(a, b) == a.lo < b.hi /\ b.lo < a.hi

TouchOrOverlap(a, b) == a.lo <= b.hi /\ b.lo <= a.hi

NonEmpty(l) == l.lo < l.hi

SubtractRange_LeftOnly(l, cut) ==
    {r \in {[l EXCEPT !.hi = Min({l.hi, cut.lo})]} : NonEmpty(r)}

(* subtract_lock_range(): what is left of l on both sides of the cut       *)
SubtractRange(l, cut) ==
    {r \in {[l EXCEPT !.hi = Min({l.hi, cut.lo})], [l EXCEPT !.lo = Max({l.lo, cut.hi})]} :
        NonEmpty(r)}

(* flock_range(): [lo, hi) of a struct flock, {} where the code says EINVAL *)
LockRange(fl) ==
    LET at == LockBase(fl) + fl.start
    IN  {r \in {CASE fl.len > 0 -> [lo |-> at, hi |-> at + fl.len]
                  [] fl.len = 0 -> [lo |-> at, hi |-> Inf]
                  [] fl.len < 0 -> [lo |-> at + fl.len, hi |-> at]} : r.lo >= 0}

KindsConflict(a, b) == ~(a = "R" /\ b = "R")

-----------------------------------------------------------------------------
(* the record lock table *)

Conflicts(c) ==
    {l \in locks : /\ l.file = c.file
                   /\ l.owner # c.owner
                   /\ KindsConflict(l.kind, c.kind)
                   /\ Overlap(l, c)}

(* find_lock_conflict(): the first overlap, then the first lock.  Among    *)
(* equals the code takes the oldest entry; the model takes any of them.    *)
FirstConflicts(c) ==
    LET at(l) == Max({l.lo, c.lo})
    IN  {l \in Conflicts(c) : \A m \in Conflicts(c) :
            at(l) < at(m) \/ (at(l) = at(m) /\ l.lo <= m.lo)}

(* apply_file_unlock() *)
Unlocked(ls, c) ==
    LET hit == {l \in ls : l.file = c.file /\ l.owner = c.owner /\ Overlap(l, c)}
    IN  (ls \ hit) \cup UNION {SubtractRange(l, c) : l \in hit}

(* push_merged_file_lock(): the new lock absorbs the ones it touches       *)
PushMerged(ls, new) ==
    LET near == {l \in ls : /\ l.file = new.file /\ l.owner = new.owner
                            /\ l.kind = new.kind /\ TouchOrOverlap(l, new)}
        all  == near \cup {new}
    IN  (ls \ near) \cup
        {[new EXCEPT !.lo = Min({l.lo : l \in all}), !.hi = Max({l.hi : l \in all})]}

Lock(c) == [file |-> c.file, owner |-> c.owner, kind |-> c.kind, lo |-> c.lo, hi |-> c.hi]

WholeConflict(c) ==
    \E l \in whole : l.file = c.file /\ l.owner # c.owner /\ KindsConflict(l.kind, c.kind)

WouldDeadlock_Direct(me, other) == me = other

(* file_lock_would_deadlock(): follow waiting_for, at most as many steps   *)
(* as there are waiters                                                    *)
WouldDeadlock(me, other) ==
    LET bound == Cardinality({o \in Owners : waitFor[o] # None})
        chain[n \in 0..bound] ==
            IF n = 0 THEN other
            ELSE IF chain[n - 1] = None THEN None ELSE waitFor[chain[n - 1]]
    IN  \E n \in 0..bound : chain[n] = me

-----------------------------------------------------------------------------
(* steps of a call *)

Busy == {t \in Threads : call[t].pc \notin {"idle", "asleep", "gone"}}

MayRun(t) == call[t].pc # "gone" /\ (t \in Busy \/ Cardinality(Busy) < cpus)

LockGoto(t, pc) == call' = [call EXCEPT ![t].pc = pc]
Return(t) == call' = [call EXCEPT ![t] = Idle]

(* wake_file_lock_waiters(): every sleeper on the file looks again         *)
Woken(f, cs) ==
    [t \in Threads |->
        IF cs[t].pc = "asleep" /\ cs[t].file \in f
        THEN [cs[t] EXCEPT !.pc = IF parks THEN "reenter"
                                  ELSE IF cs[t].api = "fcntl" THEN "apply" ELSE "try"]
        ELSE cs[t]]

(* sys_fcntl_file_lock() up to the end of its look at the descriptor       *)
Fcntl(t, o, fl) ==
    /\ call[t].pc = "idle"
    /\ MayRun(t)
    /\ table[ProcOf[t]][o] > 0
    /\ \E r \in LockRange(fl) :
         call' = [call EXCEPT ![t] =
            [pc |-> IF fl.type = "U" THEN "unlock" ELSE "apply", api |-> "fcntl",
             o |-> o, file |-> FileOf[o], kind |-> fl.type, lo |-> r.lo, hi |-> r.hi,
             owner |-> IF fl.ofd THEN <<"ofd", o>> ELSE <<"posix", ProcOf[t]>>,
             wait |-> fl.wait, on |-> None]]
    /\ UNCHANGED <<locks, waitFor, whole, table, exited, cpus, parks>>

(* apply_file_lock() with a lock to set *)
ApplyLock(t) ==
    LET c == call[t] IN
    /\ c.pc = "apply"
    /\ IF Conflicts(c) = {}
       THEN /\ locks' = PushMerged(Unlocked(locks, c), Lock(c))
            /\ LockGoto(t, "done")
       ELSE \E l \in FirstConflicts(c) :
            /\ call' = [call EXCEPT ![t].on = l.owner,
                                    ![t].pc = IF ~c.wait THEN "done"
                                              ELSE IF c.owner[1] = "ofd" THEN "sleep" ELSE "check"]
            /\ UNCHANGED locks
    /\ UNCHANGED <<waitFor, whole, table, exited, cpus, parks>>

(* remove_lock_waiter() after success, EAGAIN, EDEADLK or EINTR            *)
Done(t) ==
    /\ call[t].pc = "done"
    /\ waitFor' = [waitFor EXCEPT ![call[t].owner] = None]
    /\ Return(t)
    /\ UNCHANGED <<locks, whole, table, exited, cpus, parks>>

CheckDeadlock(t) ==
    LET c == call[t] IN
    /\ c.pc = "check"
    /\ LockGoto(t, IF c.owner = c.on \/ WouldDeadlock(c.owner, c.on) THEN "done" ELSE "register")
    /\ UNCHANGED <<locks, waitFor, whole, table, exited, cpus, parks>>

SetWaiter(t) ==
    /\ call[t].pc = "register"
    /\ waitFor' = [waitFor EXCEPT ![call[t].owner] = call[t].on]
    /\ LockGoto(t, "sleep")
    /\ UNCHANGED <<locks, whole, table, exited, cpus, parks>>

(* sleep_on_io_key_if(): asleep only while the conflict is still there     *)
SleepOnLock(t) ==
    LET c == call[t] IN
    /\ c.pc = "sleep"
    /\ LockGoto(t, IF c.api = "fcntl"
               THEN IF Conflicts(c) # {} THEN "asleep" ELSE "apply"
               ELSE IF WholeConflict(c) THEN "asleep" ELSE "try")
    /\ UNCHANGED <<locks, waitFor, whole, table, exited, cpus, parks>>

(* a signal ends the wait: EINTR.  sys_flock() just returns.               *)
InterruptLock(t) ==
    LET c == call[t] IN
    /\ c.pc = "asleep"
    /\ MayRun(t)
    /\ IF c.api = "fcntl" THEN LockGoto(t, "done") ELSE Return(t)
    /\ UNCHANGED <<locks, waitFor, whole, table, exited, cpus, parks>>

(* a parked call starts again from its first instruction: EBADF if the     *)
(* descriptor is gone                                                      *)
ReenterLock(t) ==
    LET c == call[t] IN
    /\ c.pc = "reenter"
    /\ IF table[ProcOf[t]][c.o] = 0 THEN Return(t)
       ELSE LockGoto(t, IF c.api = "fcntl" THEN "apply" ELSE "convert")
    /\ UNCHANGED <<locks, waitFor, whole, table, exited, cpus, parks>>

(* F_UNLCK: the table first, then the waiter entry and the wakeup          *)
ApplyUnlock(t) ==
    /\ call[t].pc = "unlock"
    /\ locks' = Unlocked(locks, call[t])
    /\ LockGoto(t, "wake")
    /\ UNCHANGED <<waitFor, whole, table, exited, cpus, parks>>

WakeAfterUnlock(t) ==
    /\ call[t].pc = "wake"
    /\ waitFor' = [waitFor EXCEPT ![call[t].owner] = None]
    /\ call' = Woken({call[t].file}, [call EXCEPT ![t] = Idle])
    /\ UNCHANGED <<locks, whole, table, exited, cpus, parks>>

-----------------------------------------------------------------------------
(* flock() *)

Flock(t, o, op) ==
    /\ call[t].pc = "idle"
    /\ MayRun(t)
    /\ table[ProcOf[t]][o] > 0
    /\ call' = [call EXCEPT ![t] =
          [pc |-> IF op.kind = "U" THEN "release" ELSE "convert", api |-> "flock",
           o |-> o, file |-> FileOf[o], kind |-> op.kind, owner |-> o, wait |-> op.wait]]
    /\ UNCHANGED <<locks, waitFor, whole, table, exited, cpus, parks>>

OwnWhole(c) == {l \in whole : l.file = c.file /\ l.owner = c.owner}

(* LOCK_UN: retain(), and wake_file_lock_waiters() when an entry went      *)
FlockRelease(t) ==
    LET c == call[t] IN
    /\ c.pc = "release"
    /\ whole' = whole \ OwnWhole(c)
    /\ call' = IF OwnWhole(c) = {} THEN [call EXCEPT ![t] = Idle]
               ELSE Woken({c.file}, [call EXCEPT ![t] = Idle])
    /\ UNCHANGED <<locks, waitFor, table, exited, cpus, parks>>

(* one turn of the loop of sys_flock(): the first one gives up the old     *)
(* lock of this description                                                *)
FlockTry(t) ==
    LET c    == call[t]
        kept == IF c.pc = "convert" THEN whole \ OwnWhole(c) ELSE whole
    IN
    /\ c.pc \in {"convert", "try"}
    /\ IF WholeConflict(c)
       THEN /\ whole' = kept
            /\ IF c.wait THEN LockGoto(t, "sleep") ELSE Return(t)
       ELSE /\ whole' = kept \cup {[file |-> c.file, owner |-> c.owner, kind |-> c.kind]}
            /\ Return(t)
    /\ UNCHANGED <<locks, waitFor, table, exited, cpus, parks>>

-----------------------------------------------------------------------------
(* descriptors: dup, fork, close, exit *)

(* the references to a description: table entries, and entries taken out   *)
(* of a table by a close() that has not dropped them yet                   *)
Refs(o) ==
    LET closing == {t \in Threads : call[t].pc \in {"posix", "drop"} /\ call[t].o = o}
        held(p) == table[p][o]
    IN  MapThenSumSet(held, Procs) + Cardinality(closing)

DupFd(t, o) ==
    /\ call[t].pc = "idle"
    /\ MayRun(t)
    /\ table[ProcOf[t]][o] \in 1..(MaxDup - 1)
    /\ table' = [table EXCEPT ![ProcOf[t]][o] = @ + 1]
    /\ UNCHANGED <<locks, waitFor, whole, exited, call, cpus, parks>>

(* the table of a forked child is a clone of its parent's                  *)
ForkTable(t, q) ==
    /\ call[t].pc = "idle"
    /\ MayRun(t)
    /\ q # ProcOf[t] /\ q \notin exited
    /\ \A o \in Ofds : table[q][o] = 0 /\ OpenAt[o] # q
    /\ table' = [table EXCEPT ![q] = table[ProcOf[t]]]
    /\ UNCHANGED <<locks, waitFor, whole, exited, call, cpus, parks>>

(* sys_close(): out of the table, release_posix_locks_for_file(), drop     *)
CloseFd(t, o) ==
    /\ call[t].pc = "idle"
    /\ MayRun(t)
    /\ table[ProcOf[t]][o] > 0
    /\ table' = [table EXCEPT ![ProcOf[t]][o] = @ - 1]
    /\ call' = [call EXCEPT ![t] = [pc |-> "posix", api |-> "close", o |-> o, file |-> FileOf[o]]]
    /\ UNCHANGED <<locks, waitFor, whole, exited, cpus, parks>>

ReleasePosix_NoWake(t) ==
    LET own == {l \in locks : l.file = call[t].file /\ l.owner = <<"posix", ProcOf[t]>>} IN
    /\ call[t].pc = "posix"
    /\ locks' = locks \ own
    /\ waitFor' = [waitFor EXCEPT ![<<"posix", ProcOf[t]>>] = None]
    /\ LockGoto(t, "drop")
    /\ UNCHANGED <<whole, table, exited, cpus, parks>>

ReleasePosix(t) ==
    LET c   == call[t]
        own == {l \in locks : l.file = c.file /\ l.owner = <<"posix", ProcOf[t]>>}
        on  == [call EXCEPT ![t].pc = "drop"]
    IN
    /\ c.pc = "posix"
    /\ locks' = locks \ own
    /\ waitFor' = [waitFor EXCEPT ![<<"posix", ProcOf[t]>>] = None]
    /\ call' = IF own = {} THEN on ELSE Woken({c.file}, on)
    /\ UNCHANGED <<whole, table, exited, cpus, parks>>

(* release_file_locks_for_ofd() for the descriptions in S *)
ReleaseOfds(S, cs) ==
    LET rec == {l \in locks : \E o \in S : l.owner = <<"ofd", o>>}
        wh  == {l \in whole : l.owner \in S}
    IN  /\ locks' = locks \ rec
        /\ whole' = whole \ wh
        /\ waitFor' = [w \in Owners |-> IF w[1] = "ofd" /\ w[2] \in S THEN None ELSE waitFor[w]]
        /\ call' = Woken({l.file : l \in rec \cup wh}, cs)

(* OpenFileDescriptionOwner::drop runs with the last reference             *)
DropFd(t) ==
    /\ call[t].pc = "drop"
    /\ ReleaseOfds(IF Refs(call[t].o) = 1 THEN {call[t].o} ELSE {},
                   [call EXCEPT ![t] = Idle])
    /\ UNCHANGED <<table, exited, cpus, parks>>

(* finish_process_exit(): release_file_locks_for_pid() ...                 *)
ExitLocks(t) ==
    LET p   == ProcOf[t]
        own == {l \in locks : l.owner = <<"posix", p>>}
        end == [s \in Threads |-> IF ProcOf[s] # p THEN call[s]
                                  ELSE [pc |-> IF s = t THEN "exit" ELSE "gone"]]
    IN
    /\ call[t].pc = "idle"
    /\ MayRun(t)
    /\ p \notin exited
    /\ \A s \in Threads : ProcOf[s] = p => call[s].pc \in {"idle", "asleep"}
    /\ exited' = exited \cup {p}
    /\ locks' = locks \ own
    /\ waitFor' = [waitFor EXCEPT ![<<"posix", p>>] = None]
    /\ call' = Woken({l.file : l \in own}, end)
    /\ UNCHANGED <<whole, table, cpus, parks>>

(* ... then close_all() of the descriptor table                            *)
ExitTable(t) ==
    LET p    == ProcOf[t]
        mine == {o \in Ofds : table[p][o] > 0}
    IN
    /\ call[t].pc = "exit"
    /\ table' = [table EXCEPT ![p] = [o \in Ofds |-> 0]]
    /\ ReleaseOfds({o \in mine : Refs(o) = table[p][o]}, [call EXCEPT ![t].pc = "gone"])
    /\ UNCHANGED <<exited, cpus, parks>>

-----------------------------------------------------------------------------
LockInit ==
    /\ locks = {} /\ whole = {} /\ exited = {}
    /\ waitFor = [o \in Owners |-> None]
    /\ table = [p \in Procs |-> [o \in Ofds |-> IF OpenAt[o] = p THEN 1 ELSE 0]]
    /\ call = [t \in Threads |-> Idle]
    /\ cpus \in CpuCounts
    /\ parks \in BOOLEAN

LockStep(t) ==
    \/ ApplyLock(t) \/ Done(t) \/ CheckDeadlock(t) \/ SetWaiter(t) \/ SleepOnLock(t)
    \/ InterruptLock(t) \/ ReenterLock(t) \/ ApplyUnlock(t) \/ WakeAfterUnlock(t)
    \/ FlockRelease(t) \/ FlockTry(t) \/ ReleasePosix(t) \/ DropFd(t)
    \/ ExitLocks(t) \/ ExitTable(t)

LockCall(t) ==
    \E o \in Ofds :
        \/ \E fl \in Flocks : Fcntl(t, o, fl)
        \/ \E op \in FileOps : Flock(t, o, op)
        \/ DupFd(t, o)
        \/ CloseFd(t, o)
        \/ \E q \in Procs : ForkTable(t, q)

LockNext == \E t \in Threads : LockStep(t) \/ LockCall(t)

LockSpec == LockInit /\ [][LockNext]_lockVars

-----------------------------------------------------------------------------
(* properties *)

(* The tables hold well-formed entries: ranges are not empty, one entry    *)
(* of flock() per description, and a waiter waits for another owner.       *)
LockTypeOK ==
    /\ \A l \in locks : /\ l.file \in Files /\ l.owner \in Owners /\ l.kind \in {"R", "W"}
                       /\ l.lo \in 0..(Inf - 1) /\ l.hi \in 1..Inf /\ NonEmpty(l)
    /\ \A l \in whole : l.file \in Files /\ l.owner \in Ofds /\ l.kind \in {"R", "W"}
    /\ \A o \in Owners : waitFor[o] \in (Owners \ {o}) \cup {None}
    /\ \A p \in Procs, o \in Ofds : table[p][o] \in 0..MaxDup

(* find_lock_conflict() and whole_file_lock_conflicts() keep incompatible  *)
(* locks apart: two owners never hold overlapping ranges of one file, or   *)
(* two descriptions the whole file, unless both only read.                 *)
LocksCompatible ==
    /\ \A l, m \in locks :
         l.file = m.file /\ l.owner # m.owner /\ Overlap(l, m) => ~KindsConflict(l.kind, m.kind)
    /\ \A l, m \in whole :
         l.file = m.file /\ l.owner # m.owner => ~KindsConflict(l.kind, m.kind)

(* apply_file_unlock() and push_merged_file_lock() keep the table of an    *)
(* owner in normal form: its ranges are disjoint, and ranges of one kind   *)
(* do not even touch, so that F_GETLK reports whole locks and one entry    *)
(* per lock is all there is.                                               *)
LocksCanonical ==
    \A l, m \in locks :
        l # m /\ l.file = m.file /\ l.owner = m.owner
            => ~Overlap(l, m) /\ (l.kind = m.kind => ~TouchOrOverlap(l, m))

Asleep(t) == call[t].pc = "asleep"

HasConflict(t) ==
    IF call[t].api = "fcntl" THEN Conflicts(call[t]) # {} ELSE WholeConflict(call[t])

(* file_lock_would_deadlock(): threads never sleep in a circle of          *)
(* F_SETLKW calls, each waiting for a process all of whose threads are in  *)
(* the circle.  With several CPUs two callers can both pass the test       *)
(* before either has registered, so this is promised for one CPU only.     *)
NoLockDeadlock ==
    cpus = 1 =>
        ~ \E D \in SUBSET Threads \ {{}} : \A t \in D :
            /\ Asleep(t) /\ call[t].api = "fcntl" /\ call[t].owner[1] = "posix"
            /\ \E l \in Conflicts(call[t]) :
                 l.owner[1] = "posix" /\ {s \in Threads : ProcOf[s] = l.owner[2]} \subseteq D

(* Unlocking, closing and exiting wake the sleepers they unblock: the last *)
(* conflict of a sleeping call ends without a wakeup only in F_UNLCK,      *)
(* whose wakeup is the caller's next step, or when the holder converts its *)
(* lock to a weaker one, which wakes nobody.                               *)
ReleaseWakes ==
    [][\A t \in Threads :
         Asleep(t) /\ Asleep(t)' /\ HasConflict(t) /\ ~HasConflict(t)'
            => \E s \in Threads : call[s].pc \in {"apply", "convert", "unlock"}]_lockVars

(* The locks of a description: none is left once its last reference is     *)
(* gone.  With one CPU and the foreground driver, where a blocked call is  *)
(* entered again, no call can lock through a descriptor that is closed.    *)
ClosedOfdHasNoLock ==
    /\ \A l \in locks : l.owner[1] = "ofd" => Refs(l.owner[2]) > 0
    /\ \A l \in whole : Refs(l.owner) > 0

NoOrphanLock == cpus = 1 /\ parks => ClosedOfdHasNoLock

(* The lock an owner has on a byte: that of the range around it.           *)
HeldAt(ls, f, b, o) ==
    LET around == {l \in ls : l.file = f /\ l.owner = o /\ l.lo <= b /\ b < l.hi}
    IN  IF around = {} THEN "none" ELSE (CHOOSE l \in around : TRUE).kind

ByteHeld ==
    [f \in Files |-> [b \in 0..(Inf - 1) |-> [o \in Owners |-> HeldAt(locks, f, b, o)]]]

Byte == INSTANCE ByteLocks WITH Bytes <- 0..(Inf - 1), held <- ByteHeld

(* The ranges implement locks on bytes (ByteLocks): splitting and merging  *)
(* never grants, keeps or loses a byte a per-byte table would not.         *)
RefinesByteLocks == Byte!Spec

(* Together: the locks held are compatible, in normal form and held by     *)
(* somebody, and nobody sleeps in a circle.                                *)
LocksSafe == LockTypeOK /\ LocksCompatible /\ LocksCanonical /\ NoLockDeadlock /\ NoOrphanLock

=============================================================================
