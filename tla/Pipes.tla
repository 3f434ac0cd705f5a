------------------------------- MODULE Pipes -------------------------------
(***************************************************************************)
(* Pipes and eventfds (fs/fd.rs) and the calls that wait on them           *)
(* (syscall/fs.rs): read, write, splice, ppoll, pselect6, epoll, and the   *)
(* clones and drops of their descriptors.  A pipe is the number of bytes   *)
(* it holds.                                                               *)
(*                                                                         *)
(* A call changes an object under the object's lock and wakes the waiters  *)
(* in a step of its own.  read() and write() do both under the lock of     *)
(* the descriptor table, which threads of the same process need to look    *)
(* at a descriptor.  Going to sleep is one step, taken only while the      *)
(* condition holds: the wait queue registers before it tests (TaskSched).  *)
(* The scan of several descriptors by poll_once() is one step.             *)
(***************************************************************************)
EXTENDS Integers, FiniteSets, FiniteSetsExt

CONSTANTS
    IoThreads, IoProcOf,  \* threads and their processes
    PipeIds, EventFds,    \* the pipes and the eventfds
    Semaphores,           \* the eventfds made with EFD_SEMAPHORE
    Fds,                  \* descriptor numbers
    BootFds,              \* the descriptor tables at first
    PipeCapacity,         \* PIPE_CAPACITY
    EventMax,             \* u64::MAX - 1
    Counts,               \* the lengths read, written and spliced
    PollSets,             \* the descriptor sets polled: sets of [fd, rd, wr]
    NoFd

IoProcs == {IoProcOf[t] : t \in IoThreads}

(* FileDescriptor: an end of a pipe or an eventfd                          *)
Ends == [end : {"r", "w"}, obj : PipeIds] \cup [end : {"e"}, obj : EventFds]

ASSUME IoThreadsAssumption == IsFiniteSet(IoThreads) /\ IsFiniteSet(Fds)
ASSUME EndsAssumption ==
    /\ BootFds \in [IoProcs -> [Fds -> Ends \cup {NoFd}]]
    /\ NoFd \notin Ends
ASSUME PipeSizesAssumption ==
    /\ PipeCapacity \in Nat \ {0} /\ EventMax \in Nat \ {0}
    /\ Counts \subseteq Nat
ASSUME PollSetsAssumption ==
    \A req \in PollSets : req \subseteq [fd : Fds, rd : BOOLEAN, wr : BOOLEAN]

VARIABLES
    pipe,    \* PipeState: [len, readers, writers]
    event,   \* EventFdState.counter
    fdt,     \* the descriptor tables: [end, obj] or NoFd
    watch,   \* EpollState.interests: [fd, desc, rd, wr]
    io,      \* the call of each thread
    lost     \* ghost: bytes splice() took from a pipe and could not deliver

pipeVars == <<pipe, event, fdt, watch, io, lost>>

IoIdle == [pc |-> "idle", op |-> "none", fd |-> 0, n |-> 0, done |-> 0, keys |-> {},
           wk |-> {}, then |-> "idle", req |-> {}, desc |-> NoFd, out |-> 0,
           moved |-> FALSE]

Mine(t) == fdt[IoProcOf[t]]

(* the lock of the descriptor table is held across read() and write(), the *)
(* wakeup included                                                         *)
TableFree(t) ==
    \A s \in IoThreads \ {t} :
        IoProcOf[s] = IoProcOf[t] => ~(io[s].pc = "wake" /\ io[s].op \in {"read", "write", "splice"})

-----------------------------------------------------------------------------
(* readiness *)

ReadBlocks(d) ==
    CASE d.end = "r" -> pipe[d.obj].len = 0 /\ pipe[d.obj].writers > 0
      [] d.end = "e" -> event[d.obj] = 0
      [] OTHER -> FALSE

WriteBlocks(d) ==
    CASE d.end = "w" -> pipe[d.obj].readers > 0 /\ pipe[d.obj].len >= PipeCapacity
      [] d.end = "e" -> event[d.obj] # 0
      [] OTHER -> FALSE

PollRead(d) ==
    CASE d.end = "r" -> pipe[d.obj].len > 0 \/ pipe[d.obj].writers = 0
      [] d.end = "e" -> event[d.obj] # 0
      [] OTHER -> FALSE

PollWrite(d) ==
    CASE d.end = "w" -> pipe[d.obj].readers > 0 /\ pipe[d.obj].len < PipeCapacity
      [] d.end = "e" -> event[d.obj] < EventMax
      [] OTHER -> FALSE

PollHup(d) == d.end = "r" /\ pipe[d.obj].writers = 0
PollErr(d) == d.end = "w" /\ pipe[d.obj].readers = 0

(* epoll_ready_events() and the body of poll_once() for one descriptor     *)
Ready(d, w) == (w.rd /\ PollRead(d)) \/ (w.wr /\ PollWrite(d)) \/ PollErr(d) \/ PollHup(d)

(* poll_once(): a closed descriptor is POLLNVAL                            *)
PollReady(t, req) == \E w \in req : Mine(t)[w.fd] = NoFd \/ Ready(Mine(t)[w.fd], w)

(* pselect_poll() looks at neither errors nor hangups                      *)
SelectReady(t, req) ==
    \E w \in req : \/ w.rd /\ PollRead(Mine(t)[w.fd])
                   \/ w.wr /\ PollWrite(Mine(t)[w.fd])

(* epoll_ready_count() *)
EpollReady == \E w \in watch : Ready(w.desc, w)

(* poll_wait_keys(): the empty set stands for an unkeyed entry             *)
PollKeys(t, req) ==
    LET d(w)      == Mine(t)[w.fd]
        unkeyed(w) ==
            \/ d(w) = NoFd
            \/ PollErr(d(w)) \/ PollHup(d(w))
            \/ w.rd /\ ~PollRead(d(w)) /\ d(w).end = "w"
            \/ w.wr /\ ~PollWrite(d(w)) /\ d(w).end = "r"
            \/ ~w.rd /\ ~w.wr
    IN  IF \E w \in req : unkeyed(w) THEN {}
        ELSE {<<"r", d(w).obj>> : w \in {v \in req : v.rd /\ ~PollRead(d(v))}}
             \cup {<<"w", d(w).obj>> : w \in {v \in req : v.wr /\ ~PollWrite(d(v))}}

-----------------------------------------------------------------------------
(* control *)

Step(t, pc) == io' = [io EXCEPT ![t].pc = pc]
Finish(t) == io' = [io EXCEPT ![t] = IoIdle]

(* WaitQueue wakeups of keys wk: entries with one of the keys, and every   *)
(* entry without a key                                                     *)
Wakes(wk, c) == c.pc = "asleep" /\ (c.keys = {} \/ c.keys \cap wk # {})

WakeIo(t) ==
    /\ io[t].pc = "wake"
    /\ io' = [s \in IoThreads |->
                IF s = t THEN IF io[t].then = "idle" THEN IoIdle
                              ELSE [io[t] EXCEPT !.pc = io[t].then]
                ELSE IF Wakes(io[t].wk, io[s]) THEN [io[s] EXCEPT !.pc = "look"]
                ELSE io[s]]
    /\ UNCHANGED <<pipe, event, fdt, watch, lost>>

(* go on at "then", through a wakeup of the keys where there are any       *)
After(t, wake, wk, then) ==
    IF wake THEN io' = [io EXCEPT ![t].pc = "wake", ![t].wk = wk, ![t].then = then]
    ELSE IF then = "idle" THEN Finish(t) ELSE Step(t, then)

StartIo(t, c) ==
    /\ io[t].pc = "idle"
    /\ io' = [io EXCEPT ![t] = c]
    /\ UNCHANGED <<pipe, event, fdt, watch, lost>>

ReadCall(t, fd, n) == StartIo(t, [IoIdle EXCEPT !.pc = "look", !.op = "read", !.fd = fd, !.n = n])
WriteCall(t, fd, n) == StartIo(t, [IoIdle EXCEPT !.pc = "look", !.op = "write", !.fd = fd, !.n = n])
PollCall(t, req) == StartIo(t, [IoIdle EXCEPT !.pc = "look", !.op = "poll", !.req = req])
SelectCall(t, req) == StartIo(t, [IoIdle EXCEPT !.pc = "look", !.op = "select", !.req = req])
EpollCall(t) == StartIo(t, [IoIdle EXCEPT !.pc = "look", !.op = "epoll"])

AtMost(n, m) == Min({n, m})

(* whether a read from a pipe wakes the writers: only when it was full     *)
ReadWakes_Emptied(p, n) == AtMost(n, p.len) = p.len

ReadWakes(p, n) == p.len = PipeCapacity /\ n > 0

(* pipe_write_buffer(): how much more the pipe takes                       *)
Room(p) == PipeCapacity - p.len

(* a write wakes the readers only when the pipe was empty                  *)
WriteWakes(p) == p.len = 0

(* FileDescriptor::read() through sys_read()                               *)
TryRead(t) ==
    LET c == io[t]
        d == Mine(t)[c.fd]
    IN
    /\ c.pc = "look" /\ c.op = "read"
    /\ TableFree(t)
    /\ \/ /\ d = NoFd \/ (d # NoFd /\ d.end = "w")          \* EBADF
          /\ Finish(t)
          /\ UNCHANGED <<pipe, event>>
       \/ /\ d # NoFd /\ d.end = "r" /\ pipe[d.obj].len = 0
          /\ IF pipe[d.obj].writers = 0 THEN Finish(t) ELSE Step(t, "wait")
          /\ UNCHANGED <<pipe, event>>
       \/ /\ d # NoFd /\ d.end = "r" /\ pipe[d.obj].len > 0
          /\ pipe' = [pipe EXCEPT ![d.obj].len = @ - AtMost(c.n, @)]
          /\ After(t, ReadWakes(pipe[d.obj], c.n), {<<"w", d.obj>>}, "idle")
          /\ UNCHANGED event
       \/ /\ d # NoFd /\ d.end = "e"
          /\ IF event[d.obj] = 0 THEN Step(t, "wait") /\ UNCHANGED event
             ELSE /\ event' = [event EXCEPT ![d.obj] = IF d.obj \in Semaphores THEN @ - 1 ELSE 0]
                  /\ After(t, TRUE, {<<"w", d.obj>>}, "idle")
          /\ UNCHANGED pipe
    /\ UNCHANGED <<fdt, watch, lost>>

(* FileDescriptor::write() through sys_write(): EPIPE without readers; a   *)
(* full pipe ends a call that has written something                        *)
TryWrite(t) ==
    LET c == io[t]
        d == Mine(t)[c.fd]
    IN
    /\ c.pc = "look" /\ c.op = "write"
    /\ TableFree(t)
    /\ \/ /\ d = NoFd \/ (d # NoFd /\ d.end = "r")
          /\ Finish(t)
          /\ UNCHANGED <<pipe, event>>
       \/ /\ d # NoFd /\ d.end = "w"
          /\ LET p == pipe[d.obj]
                 w == AtMost(c.n - c.done, Room(p))
             IN  IF p.readers = 0 THEN Finish(t) /\ UNCHANGED pipe
                 ELSE IF Room(p) = 0
                 THEN (IF c.done # 0 THEN Finish(t) ELSE Step(t, "wait")) /\ UNCHANGED pipe
                 ELSE /\ pipe' = [pipe EXCEPT ![d.obj].len = @ + w]
                      /\ IF c.done + w = c.n
                         THEN After(t, WriteWakes(p), {<<"r", d.obj>>}, "idle")
                         ELSE io' = [io EXCEPT ![t].done = @ + w, ![t].wk = {<<"r", d.obj>>},
                                               ![t].then = "look",
                                               ![t].pc = IF WriteWakes(p) THEN "wake" ELSE "look"]
          /\ UNCHANGED event
       \/ /\ d # NoFd /\ d.end = "e"
          /\ IF c.n > EventMax - event[d.obj] THEN Step(t, "wait") /\ UNCHANGED event
             ELSE /\ event' = [event EXCEPT ![d.obj] = @ + c.n]
                  /\ After(t, event[d.obj] = 0, {<<"r", d.obj>>}, "idle")
          /\ UNCHANGED pipe
    /\ UNCHANGED <<fdt, watch, lost>>

(* wait_read_after_eagain() and wait_write_after_eagain(): EBADF when the  *)
(* descriptor is gone, asleep while it would block, else try again         *)
SleepOnFd(t) ==
    LET c == io[t]
        r == c.op = "read"
        d == Mine(t)[c.fd]
    IN
    /\ c.pc = "wait" /\ c.op \in {"read", "write"}
    /\ TableFree(t)
    /\ IF d = NoFd THEN Finish(t)
       ELSE IF IF r THEN ReadBlocks(d) ELSE WriteBlocks(d)
       THEN io' = [io EXCEPT ![t].pc = "asleep",
                             ![t].keys = {<<IF r THEN "r" ELSE "w", d.obj>>}]
       ELSE Step(t, "look")
    /\ UNCHANGED <<pipe, event, fdt, watch, lost>>

(* sys_ppoll(): one turn of the loop looks, collects the wait keys, and    *)
(* looks again when it goes to sleep                                       *)
PollLook(t) ==
    /\ io[t].pc = "look" /\ io[t].op = "poll"
    /\ TableFree(t)
    /\ IF PollReady(t, io[t].req) THEN Finish(t) ELSE Step(t, "keys")
    /\ UNCHANGED <<pipe, event, fdt, watch, lost>>

PollCollect(t) ==
    /\ io[t].pc = "keys"
    /\ TableFree(t)
    /\ io' = [io EXCEPT ![t].pc = "wait", ![t].keys = PollKeys(t, io[t].req)]
    /\ UNCHANGED <<pipe, event, fdt, watch, lost>>

PollSleep(t) ==
    /\ io[t].pc = "wait" /\ io[t].op = "poll"
    /\ TableFree(t)
    /\ Step(t, IF PollReady(t, io[t].req) THEN "look" ELSE "asleep")
    /\ UNCHANGED <<pipe, event, fdt, watch, lost>>

(* sys_pselect6(): EBADF for a descriptor that is not open; never a key    *)
SelectLook(t) ==
    LET c == io[t] IN
    /\ c.pc = "look" /\ c.op = "select"
    /\ TableFree(t)
    /\ IF \E w \in c.req : Mine(t)[w.fd] = NoFd THEN Finish(t)
       ELSE IF SelectReady(t, c.req) THEN Finish(t) ELSE Step(t, "wait")
    /\ UNCHANGED <<pipe, event, fdt, watch, lost>>

SelectSleep(t) ==
    LET c == io[t] IN
    /\ c.pc = "wait" /\ c.op = "select"
    /\ TableFree(t)
    /\ IF \E w \in c.req : Mine(t)[w.fd] = NoFd THEN Finish(t)
       ELSE Step(t, IF SelectReady(t, c.req) THEN "look" ELSE "asleep")
    /\ UNCHANGED <<pipe, event, fdt, watch, lost>>

(* sys_epoll_wait_deadline() *)
EpollLook(t) ==
    /\ io[t].pc = "look" /\ io[t].op = "epoll"
    /\ IF EpollReady THEN Finish(t) ELSE Step(t, "wait")
    /\ UNCHANGED <<pipe, event, fdt, watch, lost>>

EpollSleep(t) ==
    /\ io[t].pc = "wait" /\ io[t].op = "epoll"
    /\ io' = IF EpollReady THEN [io EXCEPT ![t].pc = "look"]
             ELSE [io EXCEPT ![t].pc = "asleep", ![t].req = watch]
    /\ UNCHANGED <<pipe, event, fdt, watch, lost>>

(* a signal or the deadline ends a sleep; splice() forgets what it holds   *)
EndSleep(t) ==
    /\ io[t].pc = "asleep"
    /\ lost' = lost + (IF io[t].op = "splice" THEN io[t].done ELSE 0)
    /\ Finish(t)
    /\ UNCHANGED <<pipe, event, fdt, watch>>

-----------------------------------------------------------------------------
(* splice() from pipe to pipe: done counts the bytes taken and not yet     *)
(* delivered, n the ones still to take, moved whether any were delivered.  *)
(* Every turn looks its descriptors up again.  Bound: lengths below 8, for *)
(* which an eventfd in their place is EINVAL.                              *)

SpliceCall(t, fd, out, n) ==
    /\ Mine(t)[fd] # NoFd /\ Mine(t)[fd].end = "r"
    /\ Mine(t)[out] # NoFd /\ Mine(t)[out].end = "w"
    /\ StartIo(t, [IoIdle EXCEPT !.pc = "look", !.op = "splice", !.fd = fd, !.out = out, !.n = n])

SpliceRead(t) ==
    LET c == io[t]
        d == Mine(t)[c.fd]
        p == pipe[d.obj]
        k == AtMost(c.n, p.len)
    IN
    /\ c.pc = "look" /\ c.op = "splice" /\ c.done = 0
    /\ TableFree(t)
    /\ IF d = NoFd \/ d.end # "r" \/ (p.len = 0 /\ p.writers = 0) THEN Finish(t) /\ UNCHANGED pipe
       ELSE IF p.len = 0 THEN (IF c.moved THEN Finish(t) ELSE Step(t, "wait")) /\ UNCHANGED pipe
       ELSE /\ pipe' = [pipe EXCEPT ![d.obj].len = @ - k]
            /\ io' = [io EXCEPT ![t].done = k, ![t].n = @ - k,
                                ![t].pc = IF ReadWakes(p, k) THEN "wake" ELSE "look",
                                ![t].wk = {<<"w", d.obj>>}, ![t].then = "look"]
    /\ UNCHANGED <<event, fdt, watch, lost>>

(* EBADF, EINVAL and EPIPE end the call with bytes in hand                 *)
SpliceWrite(t) ==
    LET c == io[t]
        d == Mine(t)[c.out]
        p == pipe[d.obj]
        k == AtMost(c.done, Room(p))
    IN
    /\ c.pc = "look" /\ c.op = "splice" /\ c.done > 0
    /\ TableFree(t)
    /\ IF d = NoFd \/ d.end # "w" \/ p.readers = 0
       THEN lost' = lost + c.done /\ Finish(t) /\ UNCHANGED pipe
       ELSE IF Room(p) = 0 THEN Step(t, "wait") /\ UNCHANGED <<pipe, lost>>
       ELSE /\ pipe' = [pipe EXCEPT ![d.obj].len = @ + k]
            /\ LET then == IF c.done = k /\ c.n = 0 THEN "idle" ELSE "look"
               IN  io' = [io EXCEPT ![t] =
                      IF ~WriteWakes(p) /\ then = "idle" THEN IoIdle
                      ELSE [c EXCEPT !.done = @ - k, !.moved = TRUE, !.wk = {<<"r", d.obj>>}, !.then = then,
                                     !.pc = IF WriteWakes(p) THEN "wake" ELSE then]]
            /\ UNCHANGED lost
    /\ UNCHANGED <<event, fdt, watch>>

SpliceSleep_GivesUp(t) ==
    /\ io[t].pc = "wait" /\ io[t].op = "splice"
    /\ TableFree(t)
    /\ Finish(t) /\ lost' = lost + io[t].done
    /\ UNCHANGED <<pipe, event, fdt, watch>>

SpliceSleep(t) ==
    LET c == io[t]
        d == Mine(t)[IF c.done = 0 THEN c.fd ELSE c.out]
    IN
    /\ c.pc = "wait" /\ c.op = "splice"
    /\ TableFree(t)
    /\ IF d = NoFd THEN Finish(t) /\ lost' = lost + c.done
       ELSE /\ UNCHANGED lost
            /\ IF IF c.done = 0 THEN ReadBlocks(d) ELSE WriteBlocks(d)
               THEN io' = [io EXCEPT ![t].pc = "asleep",
                                     ![t].keys = {<<IF c.done = 0 THEN "r" ELSE "w", d.obj>>}]
               ELSE Step(t, "look")
    /\ UNCHANGED <<pipe, event, fdt, watch>>

-----------------------------------------------------------------------------
(* descriptors *)

(* FileDescriptor::clone(): one more reader or writer of the pipe          *)
Cloned(d) ==
    CASE d.end = "r" -> [pipe EXCEPT ![d.obj].readers = @ + 1]
      [] d.end = "w" -> [pipe EXCEPT ![d.obj].writers = @ + 1]
      [] d.end = "e" -> pipe

(* sys_dup() and dup3(): the new slot is free                              *)
PipeDup(t, fd, new) ==
    /\ io[t].pc = "idle" /\ TableFree(t)
    /\ Mine(t)[fd] # NoFd /\ Mine(t)[new] = NoFd
    /\ fdt' = [fdt EXCEPT ![IoProcOf[t]][new] = Mine(t)[fd]]
    /\ pipe' = Cloned(Mine(t)[fd])
    /\ UNCHANGED <<event, watch, io, lost>>

(* sys_close(): out of the table, then drop                                *)
PipeClose(t, fd) ==
    /\ io[t].pc = "idle" /\ TableFree(t)
    /\ Mine(t)[fd] # NoFd
    /\ fdt' = [fdt EXCEPT ![IoProcOf[t]][fd] = NoFd]
    /\ io' = [io EXCEPT ![t] = [IoIdle EXCEPT !.pc = "drop", !.op = "close", !.desc = Mine(t)[fd]]]
    /\ UNCHANGED <<pipe, event, watch, lost>>

(* the keys the drop of a descriptor wakes                                 *)
DropKeys(d) ==
    LET last == CASE d.end = "r" -> pipe[d.obj].readers = 1
                  [] d.end = "w" -> pipe[d.obj].writers = 1
                  [] d.end = "e" -> TRUE
    IN  IF last THEN {<<"r", d.obj>>, <<"w", d.obj>>} ELSE {<<d.end, d.obj>>}

(* FileDescriptor::drop(): one less, then the wakeups                      *)
Dropped(d) ==
    CASE d.end = "r" -> [pipe EXCEPT ![d.obj].readers = @ - 1]
      [] d.end = "w" -> [pipe EXCEPT ![d.obj].writers = @ - 1]
      [] d.end = "e" -> pipe

DropDesc(t) ==
    LET d == io[t].desc IN
    /\ io[t].pc = "drop"
    /\ pipe' = Dropped(d)
    /\ After(t, TRUE, DropKeys(d), "idle")
    /\ UNCHANGED <<event, fdt, watch, lost>>

(* sys_epoll_ctl(): the clone is made under the table's lock and added     *)
(* under the epoll's                                                       *)
CtlAdd(t, fd, rd, wr) ==
    LET d == Mine(t)[fd] IN
    /\ io[t].pc = "idle" /\ TableFree(t)
    /\ d # NoFd
    /\ pipe' = Cloned(d)
    /\ io' = [io EXCEPT ![t] = [IoIdle EXCEPT !.pc = "add", !.op = "ctl", !.fd = fd, !.desc = d,
                                             !.req = {[fd |-> fd, desc |-> d, rd |-> rd, wr |-> wr]}]]
    /\ UNCHANGED <<event, fdt, watch, lost>>

CtlPush(t) ==
    LET c == io[t] IN
    /\ c.pc = "add"
    /\ IF \E w \in watch : w.fd = c.fd
       THEN Step(t, "drop") /\ UNCHANGED watch
       ELSE watch' = watch \cup c.req /\ Finish(t)
    /\ UNCHANGED <<pipe, event, fdt, lost>>

CtlDel(t, fd) ==
    /\ io[t].pc = "idle" /\ TableFree(t)
    /\ Mine(t)[fd] # NoFd
    /\ \E w \in watch :
          /\ w.fd = fd
          /\ watch' = watch \ {w}
          /\ io' = [io EXCEPT ![t] = [IoIdle EXCEPT !.pc = "drop", !.op = "ctl", !.desc = w.desc]]
    /\ UNCHANGED <<pipe, event, fdt, lost>>

CtlMod(t, fd, rd, wr) ==
    /\ io[t].pc = "idle" /\ TableFree(t)
    /\ Mine(t)[fd] # NoFd
    /\ \E w \in watch :
          w.fd = fd /\ watch' = (watch \ {w}) \cup {[w EXCEPT !.rd = rd, !.wr = wr]}
    /\ UNCHANGED <<pipe, event, fdt, io, lost>>

-----------------------------------------------------------------------------
OpenEnds(e, p) ==
    Cardinality({s \in IoProcs \X Fds : fdt[s[1]][s[2]] = [end |-> e, obj |-> p]})

PipeInit ==
    /\ fdt = BootFds
    /\ pipe = [p \in PipeIds |-> [len |-> 0, readers |-> OpenEnds("r", p), writers |-> OpenEnds("w", p)]]
    /\ event = [e \in EventFds |-> 0]
    /\ watch = {} /\ lost = 0
    /\ io = [t \in IoThreads |-> IoIdle]

PipeStep(t) ==
    \/ WakeIo(t) \/ TryRead(t) \/ TryWrite(t) \/ SleepOnFd(t)
    \/ PollLook(t) \/ PollCollect(t) \/ PollSleep(t) \/ SelectLook(t) \/ SelectSleep(t)
    \/ EpollLook(t) \/ EpollSleep(t) \/ EndSleep(t)
    \/ SpliceRead(t) \/ SpliceWrite(t) \/ SpliceSleep(t)
    \/ DropDesc(t) \/ CtlPush(t)

PipeCall(t) ==
    \/ EpollCall(t)
    \/ \E req \in PollSets : PollCall(t, req) \/ SelectCall(t, req)
    \/ \E fd \in Fds :
          \/ PipeClose(t, fd) \/ CtlDel(t, fd)
          \/ \E n \in Counts : ReadCall(t, fd, n) \/ WriteCall(t, fd, n)
          \/ \E new \in Fds : PipeDup(t, fd, new) \/ \E n \in Counts : SpliceCall(t, fd, new, n)
          \/ \E rd, wr \in BOOLEAN : CtlAdd(t, fd, rd, wr) \/ CtlMod(t, fd, rd, wr)

PipeNext == \E t \in IoThreads : PipeStep(t) \/ PipeCall(t)

PipeSpec == PipeInit /\ [][PipeNext]_pipeVars

-----------------------------------------------------------------------------
(* properties *)

(* Buffers and counters stay within PIPE_CAPACITY and u64::MAX - 1.        *)
PipeTypeOK ==
    /\ \A p \in PipeIds : pipe[p].len \in 0..PipeCapacity
    /\ \A e \in EventFds : event[e] \in 0..EventMax
    /\ \A t \in IoThreads : io[t].pc \in
          {"idle", "look", "keys", "wait", "asleep", "wake", "drop", "add"}

(* Clone and Drop keep the reader and writer counts of a pipe equal to the *)
(* descriptors there are: in tables, in epoll interests and in the hands   *)
(* of a call that adds or drops one.  End of file and EPIPE rest on them.  *)
EndsExact ==
    \A p \in PipeIds, e \in {"r", "w"} :
        LET d == [end |-> e, obj |-> p] IN
        OpenEnds(e, p) + Cardinality({w \in watch : w.desc = d})
            + Cardinality({t \in IoThreads : io[t].pc \in {"add", "drop"} /\ io[t].desc = d})
        = IF e = "r" THEN pipe[p].readers ELSE pipe[p].writers

(* a wakeup that will reach the sleeping call of t is on its way           *)
Coming(t) ==
    \E s \in IoThreads :
        \/ io[s].pc = "wake" /\ Wakes(io[s].wk, io[t])
        \/ io[s].pc = "drop" /\ Wakes(DropKeys(io[s].desc), io[t])

(* what the sleeping call of t could do now                                *)
ReadGoesOn(t, f) == Mine(t)[f] = NoFd \/ ~ReadBlocks(Mine(t)[f])
WriteGoesOn(t, f) == Mine(t)[f] = NoFd \/ ~WriteBlocks(Mine(t)[f])
CanGoOn(t) ==
    LET c == io[t] IN
    \/ c.op = "read" /\ ReadGoesOn(t, c.fd)
    \/ c.op = "write" /\ WriteGoesOn(t, c.fd)
    \/ c.op = "splice" /\ c.done = 0 /\ ReadGoesOn(t, c.fd)
    \/ c.op = "splice" /\ c.done > 0 /\ WriteGoesOn(t, c.out)
    \/ c.op = "poll" /\ PollReady(t, c.req)
    \/ c.op = "select" /\ (\A w \in c.req : Mine(t)[w.fd] # NoFd) /\ SelectReady(t, c.req)
    \/ c.op = "epoll" /\ \E w \in watch \cap c.req : Ready(w.desc, w)

(* ppoll() collects its wait keys before it looks for the last time.  They *)
(* are right if it asks for one descriptor and no other thread can put     *)
(* another one in its place meanwhile.                                     *)
KeysStay(t) ==
    /\ \E w \in io[t].req : io[t].req = {w}
    /\ \A s \in IoThreads : IoProcOf[s] = IoProcOf[t] => s = t

(* No sleeper is forgotten: a thread asleep in read, write, splice, poll   *)
(* of one descriptor, pselect6 or epoll_wait whose descriptor has become   *)
(* ready, or was closed, has a wakeup on its way, although writes wake     *)
(* readers only when the pipe was empty and reads wake writers only when   *)
(* it was full.  (A writer on an eventfd waits for a counter of zero.)     *)
NoStrandedIo ==
    \A t \in IoThreads :
        /\ io[t].pc = "asleep" /\ CanGoOn(t)
        /\ io[t].op = "poll" => KeysStay(t)
        => Coming(t)

(* splice() takes bytes from its input before it knows that its output     *)
(* takes them: a blocking call loses bytes only when it is interrupted or  *)
(* its output is closed, replaced or without a reader.                     *)
SpliceLoss ==
    [][lost' # lost =>
        \E t \in IoThreads :
            /\ io[t].op = "splice"
            /\ io'[t].pc = "idle"
            /\ \/ io[t].pc = "asleep"
               \/ LET d == Mine(t)[io[t].out]
                  IN  d = NoFd \/ d.end # "w" \/ pipe[d.obj].readers = 0]_pipeVars

(* Together: the counts of ends are exact and nobody sleeps beside data,   *)
(* room or the end of the file.                                            *)
PipesSafe == PipeTypeOK /\ EndsExact /\ NoStrandedIo

=============================================================================
