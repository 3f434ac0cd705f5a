----------------------------- MODULE PipeSteps -----------------------------
(***************************************************************************)
(* Pipes, eventfds and the calls that wait on them: what the proofs of     *)
(* PipeProofs rest on.  The inductive invariant, what a step of a call has *)
(* to do to keep it (Acts), and that every step which leaves the tables of *)
(* descriptors alone does: starting a call, looking at its objects, going  *)
(* to sleep, reading, writing, splicing and waking.                        *)
(***************************************************************************)
EXTENDS Pipes, TLAPS

-----------------------------------------------------------------------------
(* The inductive invariant *)

IoKeys == {"r", "w"} \X (PipeIds \cup EventFds)
Asks == [fd : Fds, rd : BOOLEAN, wr : BOOLEAN]
Interests == [fd : Fds, desc : Ends, rd : BOOLEAN, wr : BOOLEAN]
PipeEnds == [end : {"r", "w"}, obj : PipeIds]
PipeRec == [len : 0..PipeCapacity, readers : Nat, writers : Nat]
Waiters == {"read", "write", "poll", "select", "epoll", "splice"}
CallRec == [pc : {"idle", "look", "keys", "wait", "asleep", "wake", "drop", "add"},
            op : Waiters \cup {"none", "close", "ctl"}, fd : Fds \cup {0}, n : Nat, done : Nat,
            keys : SUBSET IoKeys, wk : SUBSET IoKeys, then : {"idle", "look"},
            req : SUBSET (Asks \cup Interests), desc : Ends \cup {NoFd}, out : Fds \cup {0},
            moved : BOOLEAN]

(* What a call has in hand, by its kind and where it is                    *)
CallOK(c) ==
    /\ c.pc \in {"look", "wait", "asleep"} => c.op \in Waiters
    /\ c.pc = "keys" => c.op = "poll"
    /\ c.pc = "wake" /\ c.then = "look" => c.op \in {"write", "splice"}
    /\ c.op \in {"read", "write", "splice"} => c.fd \in Fds
    /\ c.op = "splice" => c.out \in Fds
    /\ c.op \in {"poll", "select"} => c.req \in SUBSET Asks
    /\ c.op = "epoll" => c.req \in SUBSET Interests
    /\ c.op \in {"select", "epoll"} => c.keys = {}
    /\ c.op = "write" => c.done <= c.n
    /\ c.pc \in {"drop", "add"} => c.desc \in Ends
    /\ c.pc = "add" => c.fd \in Fds /\ \E rd, wr \in BOOLEAN :
          c.req = {[fd |-> c.fd, desc |-> c.desc, rd |-> rd, wr |-> wr]}

OneWatch == \A v, w \in watch : v.fd = w.fd => v = w

(* Types, one per variable                                                 *)
PipesOK == pipe \in [PipeIds -> PipeRec]
EventsOK == event \in [EventFds -> 0..EventMax]
TablesOK == fdt \in [IoProcs -> [Fds -> Ends \cup {NoFd}]]
WatchOK == watch \in SUBSET Interests /\ IsFiniteSet(watch) /\ OneWatch
CallsOK == io \in [IoThreads -> CallRec] /\ \A t \in IoThreads : CallOK(io[t])
PTypes == PipesOK /\ EventsOK /\ TablesOK /\ WatchOK /\ CallsOK /\ lost \in Nat

(* The keys every drop of a descriptor wakes                               *)
OwnKeys(d) == IF d.end = "e" THEN {<<"r", d.obj>>, <<"w", d.obj>>} ELSE {<<d.end, d.obj>>}

(* A wakeup is on its way that no step of another thread can take back     *)
Sure(t) ==
    \E s \in IoThreads :
        \/ io[s].pc = "wake" /\ Wakes(io[s].wk, io[t])
        \/ io[s].pc = "drop" /\ Wakes(OwnKeys(io[s].desc), io[t])

(* What a sleeper waits for has not happened, and its keys are the ones of *)
(* what it waits for                                                       *)
ReadHeld(t, f) ==
    LET d == Mine(t)[f] IN d # NoFd /\ ReadBlocks(d) /\ io[t].keys = {<<"r", d.obj>>}
WriteHeld(t, f) ==
    LET d == Mine(t)[f] IN d # NoFd /\ WriteBlocks(d) /\ io[t].keys = {<<"w", d.obj>>}
SelectHeld(t) ==
    \A w \in io[t].req :
        LET d == Mine(t)[w.fd] IN d # NoFd /\ ~(w.rd /\ PollRead(d)) /\ ~(w.wr /\ PollWrite(d))
KeysFit(keys, w, d) ==
    \/ keys = {}
    \/ w.rd /\ ~w.wr /\ d.end \in {"r", "e"} /\ keys = {<<"r", d.obj>>}
    \/ w.wr /\ ~w.rd /\ d.end \in {"w", "e"} /\ keys = {<<"w", d.obj>>}
    \/ w.rd /\ w.wr /\ d.end = "e"
PollHeld(t) ==
    \A w \in io[t].req :
        LET d == Mine(t)[w.fd] IN d # NoFd /\ ~Ready(d, w) /\ KeysFit(io[t].keys, w, d)
EpollHeld(t) == \A w \in io[t].req : ~Ready(w.desc, w)

Held(t) ==
    LET c == io[t] IN
    /\ c.op = "read" => ReadHeld(t, c.fd)
    /\ c.op = "write" => WriteHeld(t, c.fd)
    /\ c.op = "splice" /\ c.done = 0 => ReadHeld(t, c.fd)
    /\ c.op = "splice" /\ c.done > 0 => WriteHeld(t, c.out)
    /\ c.op = "select" => SelectHeld(t)
    /\ c.op = "poll" /\ KeysStay(t) => PollHeld(t)
    /\ c.op = "epoll" => EpollHeld(t)

SleepersHeld == \A t \in IoThreads : io[t].pc = "asleep" => Sure(t) \/ Held(t)

(* The keys ppoll() has collected are still right when it goes to sleep    *)
Fits(t) ==
    io[t].op = "poll" /\ io[t].pc = "wait" /\ KeysStay(t) =>
        \A w \in io[t].req : Mine(t)[w.fd] # NoFd => KeysFit(io[t].keys, w, Mine(t)[w.fd])
Collected == \A t \in IoThreads : Fits(t)

PipeInv == PTypes /\ EndsExact /\ Collected /\ SleepersHeld

-----------------------------------------------------------------------------
(* Updates *)

LEMMA LeastOfTwo ==
  ASSUME NEW a \in Nat, NEW b \in Nat
  PROVE  AtMost(a, b) \in Nat /\ AtMost(a, b) <= a /\ AtMost(a, b) <= b /\ AtMost(a, b) \in {a, b}
  <1>1. \E x \in {a, b} : \A y \in {a, b} : x <= y
    <2>1. CASE a <= b BY <2>1
    <2>2. CASE ~(a <= b) BY <2>2
    <2> QED BY <2>1, <2>2, Zenon
  <1>2. AtMost(a, b) \in {a, b} /\ \A y \in {a, b} : AtMost(a, b) <= y
    BY <1>1, Zenon DEF AtMost, Min
  <1> QED BY <1>2, Zenon

LEMMA EndsType ==
  ASSUME NEW d \in Ends
  PROVE  /\ d # NoFd /\ d.end \in {"r", "w", "e"}
         /\ d.end \in {"r", "w"} => d \in PipeEnds /\ d.obj \in PipeIds
         /\ d.end = "e" => d.obj \in EventFds
         /\ <<"r", d.obj>> \in IoKeys /\ <<"w", d.obj>> \in IoKeys
  BY EndsAssumption, Zenon DEF Ends, PipeEnds, IoKeys

LEMMA SlotType ==
  ASSUME TablesOK, NEW t \in IoThreads, NEW f \in Fds
  PROVE  IoProcOf[t] \in IoProcs /\ Mine(t)[f] \in Ends \cup {NoFd}
  BY Zenon DEF TablesOK, IoProcs, Mine

LEMMA PipeSizes ==
  ASSUME PTypes, NEW o \in PipeIds
  PROVE  /\ pipe[o].len \in 0..PipeCapacity /\ pipe[o].len \in Nat
         /\ pipe[o].readers \in Nat /\ pipe[o].writers \in Nat /\ PipeCapacity \in Nat
  <1>1. pipe[o] \in PipeRec BY Zenon DEF PTypes, PipesOK
  <1> QED BY <1>1, PipeSizesAssumption DEF PipeRec

LEMMA CallSizes ==
  ASSUME PTypes, NEW t \in IoThreads
  PROVE  io[t] \in CallRec /\ io[t].n \in Nat /\ io[t].done \in Nat
  <1>1. io[t] \in CallRec BY Zenon DEF PTypes, CallsOK
  <1> QED BY <1>1, Zenon DEF CallRec

LEMMA Positive ==
  ASSUME NEW n \in Nat, n > 0
  PROVE  n # 0
  OBVIOUS

LEMMA Minus ==
  ASSUME NEW n \in Nat, NEW m \in Nat, m <= n
  PROVE  n - m \in Nat
  OBVIOUS

LEMMA OneLeft ==
  ASSUME NEW a \in Nat, NEW b, b = a - 1, b = 0
  PROVE  a = 1
  OBVIOUS

LEMMA EventTaken ==
  ASSUME NEW a \in 0..EventMax, a # 0
  PROVE  a - 1 \in 0..EventMax /\ 0 \in 0..EventMax
  BY PipeSizesAssumption

LEMMA EventSum ==
  ASSUME NEW a \in 0..EventMax, NEW n \in Nat, ~(n > EventMax - a)
  PROVE  a + n \in 0..EventMax /\ ~(a + n < a)
  BY PipeSizesAssumption

LEMMA IdleCall == IoIdle \in CallRec /\ CallOK(IoIdle)
  BY Zenon DEF IoIdle, CallRec, CallOK, Waiters

(* Thread t alone moves, to a call c                                       *)
IoMoves(t, c) == c \in CallRec /\ CallOK(c) /\ io' = [io EXCEPT ![t] = c]

LEMMA Moved ==
  ASSUME CallsOK, NEW t \in IoThreads, NEW c, IoMoves(t, c)
  PROVE  CallsOK' /\ io'[t] = c /\ \A s \in IoThreads \ {t} : io'[s] = io[s]
  <1>1. io' \in [IoThreads -> CallRec] /\ io'[t] = c /\ \A s \in IoThreads \ {t} : io'[s] = io[s]
    BY Zenon DEF CallsOK, IoMoves
  <1>2. ASSUME NEW s \in IoThreads PROVE CallOK(io'[s])
    BY <1>1, <1>2, Zenon DEF CallsOK, IoMoves
  <1>3. ASSUME NEW s \in IoThreads PROVE CallOK(io[s])'
    BY <1>2, Zenon DEF CallOK
  <1> QED BY <1>1, <1>3, Zenon DEF CallsOK

-----------------------------------------------------------------------------
(* Counting ends *)

AtSlots(d) == {s \in IoProcs \X Fds : fdt[s[1]][s[2]] = d}
AtWatch(d) == {w \in watch : w.desc = d}
AtHands(d) == {t \in IoThreads : io[t].pc \in {"add", "drop"} /\ io[t].desc = d}
Counter(d) == IF d.end = "r" THEN pipe[d.obj].readers ELSE pipe[d.obj].writers
Count(d) == Cardinality(AtSlots(d)) + Cardinality(AtWatch(d)) + Cardinality(AtHands(d))
Same(d, x) == IF d = x THEN 1 ELSE 0

LEMMA EndsAreCounted == EndsExact <=> \A d \in PipeEnds : Count(d) = Counter(d)
  <1>1. ASSUME NEW p \in PipeIds, NEW e \in {"r", "w"}
        PROVE  /\ [end |-> e, obj |-> p] \in PipeEnds
               /\ OpenEnds(e, p) = Cardinality(AtSlots([end |-> e, obj |-> p]))
               /\ Counter([end |-> e, obj |-> p]) = IF e = "r" THEN pipe[p].readers ELSE pipe[p].writers
    BY Zenon DEF PipeEnds, OpenEnds, AtSlots, Counter
  <1>2. ASSUME NEW d \in PipeEnds
        PROVE  d.obj \in PipeIds /\ d.end \in {"r", "w"} /\ d = [end |-> d.end, obj |-> d.obj]
    BY Zenon DEF PipeEnds
  <1>3. EndsExact <=> \A p \in PipeIds, e \in {"r", "w"} :
                         Count([end |-> e, obj |-> p]) = Counter([end |-> e, obj |-> p])
    BY <1>1, ZenonT(30) DEF EndsExact, Count, AtWatch, AtHands
  <1>4. ASSUME EndsExact, NEW d \in PipeEnds PROVE Count(d) = Counter(d)
    BY <1>2, <1>3, <1>4, Zenon
  <1>5. ASSUME \A d \in PipeEnds : Count(d) = Counter(d) PROVE EndsExact
    BY <1>1, <1>3, <1>5, Zenon
  <1> QED BY <1>4, <1>5, Zenon

(* t takes x into its hands, or gives it away, and nobody else moves       *)
Takes(t, x) ==
    /\ io[t].pc \notin {"add", "drop"} /\ io'[t].pc \in {"add", "drop"} /\ io'[t].desc = x
    /\ \A s \in IoThreads \ {t} : io'[s] = io[s]
Gives(t, x) ==
    /\ io[t].pc \in {"add", "drop"} /\ io'[t].pc \notin {"add", "drop"} /\ io[t].desc = x
    /\ \A s \in IoThreads \ {t} : io'[s] = io[s]

LEMMA HandsSame ==
  ASSUME NEW t \in IoThreads, \A s \in IoThreads \ {t} : io'[s] = io[s], NEW d,
         io[t].pc \in {"add", "drop"} <=> io'[t].pc \in {"add", "drop"},
         io[t].pc \in {"add", "drop"} => io'[t].desc = io[t].desc
  PROVE  AtHands(d)' = AtHands(d)
  BY Zenon DEF AtHands

-----------------------------------------------------------------------------
(* Readiness does not rise behind the back of the sleepers                 *)

Told(t, k) == io'[t].pc = "wake" /\ k \in io'[t].wk

(* Whatever becomes ready in a step, thread t is about to wake its key     *)
ReadRiseTold(t, d) ==
    (ReadBlocks(d) /\ ~ReadBlocks(d)') \/ (~PollRead(d) /\ PollRead(d)') \/ (~PollHup(d) /\ PollHup(d)')
        => Told(t, <<"r", d.obj>>)
WriteRiseTold(t, d) ==
    (WriteBlocks(d) /\ ~WriteBlocks(d)') \/ (~PollWrite(d) /\ PollWrite(d)') \/ (~PollErr(d) /\ PollErr(d)')
        => Told(t, <<"w", d.obj>>)
RisesTold(t) == \A d \in Ends : ReadRiseTold(t, d) /\ WriteRiseTold(t, d)

LEMMA NoRise ==
  ASSUME NEW t \in IoThreads, pipe' = pipe, event' = event
  PROVE  RisesTold(t)
  <1> SUFFICES ASSUME NEW d \in Ends PROVE ReadRiseTold(t, d) /\ WriteRiseTold(t, d)
    BY Zenon DEF RisesTold
  <1>1. (ReadBlocks(d)' <=> ReadBlocks(d)) /\ (WriteBlocks(d)' <=> WriteBlocks(d))
    BY Zenon DEF ReadBlocks, WriteBlocks
  <1>2. (PollRead(d)' <=> PollRead(d)) /\ (PollWrite(d)' <=> PollWrite(d))
    BY Zenon DEF PollRead, PollWrite
  <1>3. (PollHup(d)' <=> PollHup(d)) /\ (PollErr(d)' <=> PollErr(d))
    BY Zenon DEF PollHup, PollErr
  <1> QED BY <1>1, <1>2, <1>3, Zenon DEF ReadRiseTold, WriteRiseTold

(* The changes of one pipe that matter to a sleeper                        *)
PipeRise(t, o) ==
    /\ pipe'[o] \in PipeRec
    /\ (pipe[o].len = 0 /\ pipe'[o].len # 0) \/ (pipe[o].writers # 0 /\ pipe'[o].writers = 0)
          => Told(t, <<"r", o>>)
    /\ (pipe[o].len = PipeCapacity /\ pipe'[o].len # PipeCapacity)
          \/ (pipe[o].readers # 0 /\ pipe'[o].readers = 0) => Told(t, <<"w", o>>)
    /\ pipe[o].readers = 0 => pipe'[o].readers = 0

LEMMA PipeRisesTold ==
  ASSUME NEW t \in IoThreads, PipesOK, event' = event, NEW o \in PipeIds,
         \A p \in PipeIds \ {o} : pipe'[p] = pipe[p], PipeRise(t, o)
  PROVE  RisesTold(t)
  <1> SUFFICES ASSUME NEW d \in Ends PROVE ReadRiseTold(t, d) /\ WriteRiseTold(t, d)
    BY Zenon DEF RisesTold
  <1>1. pipe[o] \in PipeRec /\ pipe'[o] \in PipeRec BY Zenon DEF PipesOK, PipeRise
  <1>2. /\ pipe[o].len \in 0..PipeCapacity /\ pipe'[o].len \in 0..PipeCapacity
        /\ pipe[o].readers \in Nat /\ pipe'[o].readers \in Nat
        /\ pipe[o].writers \in Nat /\ pipe'[o].writers \in Nat
    BY <1>1, Zenon DEF PipeRec
  <1>3. CASE d.end = "e"
    <2>1. ~PollHup(d) /\ ~PollHup(d)' /\ ~PollErr(d) /\ ~PollErr(d)' BY <1>3, Zenon DEF PollHup, PollErr
    <2>2. (ReadBlocks(d)' <=> ReadBlocks(d)) /\ (WriteBlocks(d)' <=> WriteBlocks(d))
      BY <1>3, Zenon DEF ReadBlocks, WriteBlocks
    <2>3. (PollRead(d)' <=> PollRead(d)) /\ (PollWrite(d)' <=> PollWrite(d))
      BY <1>3, Zenon DEF PollRead, PollWrite
    <2> QED BY <2>1, <2>2, <2>3, Zenon DEF ReadRiseTold, WriteRiseTold
  <1>4. CASE d.end \in {"r", "w"} /\ d.obj # o
    <2>0. pipe'[d.obj] = pipe[d.obj] BY <1>4, EndsType, Zenon
    <2>1. (PollHup(d) <=> PollHup(d)') /\ (PollErr(d) <=> PollErr(d)') BY <2>0, Zenon DEF PollHup, PollErr
    <2>2. (ReadBlocks(d)' <=> ReadBlocks(d)) /\ (WriteBlocks(d)' <=> WriteBlocks(d))
      BY <1>4, <2>0, Zenon DEF ReadBlocks, WriteBlocks
    <2>3. (PollRead(d)' <=> PollRead(d)) /\ (PollWrite(d)' <=> PollWrite(d))
      BY <1>4, <2>0, Zenon DEF PollRead, PollWrite
    <2> QED BY <2>1, <2>2, <2>3, Zenon DEF ReadRiseTold, WriteRiseTold
  <1>5. CASE d.end = "r" /\ d.obj = o
    <2>1. WriteRiseTold(t, d) BY <1>5, Zenon DEF WriteRiseTold, WriteBlocks, PollWrite, PollErr
    <2>2. /\ ReadBlocks(d) <=> pipe[o].len = 0 /\ pipe[o].writers > 0
          /\ ReadBlocks(d)' <=> pipe'[o].len = 0 /\ pipe'[o].writers > 0
      BY <1>5, Zenon DEF ReadBlocks
    <2>3. /\ PollRead(d) <=> pipe[o].len > 0 \/ pipe[o].writers = 0
          /\ PollRead(d)' <=> pipe'[o].len > 0 \/ pipe'[o].writers = 0
      BY <1>5, Zenon DEF PollRead
    <2>4. (PollHup(d) <=> pipe[o].writers = 0) /\ (PollHup(d)' <=> pipe'[o].writers = 0)
      BY <1>5, Zenon DEF PollHup
    <2>5. ReadRiseTold(t, d)
      BY <1>2, <1>5, <2>2, <2>3, <2>4 DEF ReadRiseTold, PipeRise
    <2> QED BY <2>1, <2>5, Zenon
  <1>6. CASE d.end = "w" /\ d.obj = o
    <2>1. ReadRiseTold(t, d) BY <1>6, Zenon DEF ReadRiseTold, ReadBlocks, PollRead, PollHup
    <2>2. /\ WriteBlocks(d) <=> pipe[o].readers > 0 /\ pipe[o].len >= PipeCapacity
          /\ WriteBlocks(d)' <=> pipe'[o].readers > 0 /\ pipe'[o].len >= PipeCapacity
      BY <1>6, Zenon DEF WriteBlocks
    <2>3. /\ PollWrite(d) <=> pipe[o].readers > 0 /\ pipe[o].len < PipeCapacity
          /\ PollWrite(d)' <=> pipe'[o].readers > 0 /\ pipe'[o].len < PipeCapacity
      BY <1>6, Zenon DEF PollWrite
    <2>4. (PollErr(d) <=> pipe[o].readers = 0) /\ (PollErr(d)' <=> pipe'[o].readers = 0)
      BY <1>6, Zenon DEF PollErr
    <2>5. WriteRiseTold(t, d)
      BY <1>2, <1>6, <2>2, <2>3, <2>4, PipeSizesAssumption DEF WriteRiseTold, PipeRise
    <2> QED BY <2>1, <2>5, Zenon
  <1> QED BY <1>3, <1>4, <1>5, <1>6, EndsType, Zenon

LEMMA EventRisesTold ==
  ASSUME NEW t \in IoThreads, EventsOK, pipe' = pipe, NEW o \in EventFds,
         \A e \in EventFds \ {o} : event'[e] = event[e], event'[o] \in 0..EventMax,
         event[o] = 0 /\ event'[o] # 0 => Told(t, <<"r", o>>),
         event[o] # 0 /\ event'[o] < event[o] => Told(t, <<"w", o>>)
  PROVE  RisesTold(t)
  <1> SUFFICES ASSUME NEW d \in Ends PROVE ReadRiseTold(t, d) /\ WriteRiseTold(t, d)
    BY Zenon DEF RisesTold
  <1>1. (PollHup(d) <=> PollHup(d)') /\ (PollErr(d) <=> PollErr(d)') BY Zenon DEF PollHup, PollErr
  <1>2. CASE d.end # "e" \/ d.obj # o
    <2>0. d.end = "e" => event'[d.obj] = event[d.obj] BY <1>2, EndsType, Zenon
    <2>2. (ReadBlocks(d)' <=> ReadBlocks(d)) /\ (WriteBlocks(d)' <=> WriteBlocks(d))
      BY <2>0, Zenon DEF ReadBlocks, WriteBlocks
    <2>3. (PollRead(d)' <=> PollRead(d)) /\ (PollWrite(d)' <=> PollWrite(d))
      BY <2>0, Zenon DEF PollRead, PollWrite
    <2> QED BY <1>1, <2>2, <2>3, Zenon DEF ReadRiseTold, WriteRiseTold
  <1>3. CASE d.end = "e" /\ d.obj = o
    <2>1. event[o] \in 0..EventMax BY Zenon DEF EventsOK
    <2>2. (ReadBlocks(d) <=> event[o] = 0) /\ (ReadBlocks(d)' <=> event'[o] = 0)
      BY <1>3, Zenon DEF ReadBlocks
    <2>3. (PollRead(d) <=> event[o] # 0) /\ (PollRead(d)' <=> event'[o] # 0)
      BY <1>3, Zenon DEF PollRead
    <2>4. (WriteBlocks(d) <=> event[o] # 0) /\ (WriteBlocks(d)' <=> event'[o] # 0)
      BY <1>3, Zenon DEF WriteBlocks
    <2>5. (PollWrite(d) <=> event[o] < EventMax) /\ (PollWrite(d)' <=> event'[o] < EventMax)
      BY <1>3, Zenon DEF PollWrite
    <2>6. ReadRiseTold(t, d) BY <1>1, <1>3, <2>2, <2>3, Zenon DEF ReadRiseTold
    <2>7. WriteRiseTold(t, d)
      BY <1>1, <1>3, <2>1, <2>4, <2>5, PipeSizesAssumption DEF WriteRiseTold
    <2> QED BY <2>6, <2>7, Zenon
  <1> QED BY <1>2, <1>3, Zenon

-----------------------------------------------------------------------------
(* Sleepers *)

(* A slot is emptied only by a thread that goes on to drop the descriptor, *)
(* and only by a thread of the process                                     *)
SlotsTold(t) ==
    /\ \A p \in IoProcs, f \in Fds :
          \/ fdt'[p][f] = fdt[p][f] \/ fdt[p][f] = NoFd
          \/ io'[t].pc = "drop" /\ io'[t].desc = fdt[p][f]
    /\ \A s \in IoThreads : IoProcOf[s] # IoProcOf[t] => fdt'[IoProcOf[s]] = fdt[IoProcOf[s]]

(* A wakeup to make is not forgotten                                       *)
WakeKept(t) ==
    /\ io[t].pc # "wake"
    /\ io[t].pc = "drop" => io'[t].pc = "wake" /\ OwnKeys(io[t].desc) \subseteq io'[t].wk

Others(t) == \A s \in IoThreads \ {t} : io'[s] = io[s]

LEMMA SureStays ==
  ASSUME NEW t \in IoThreads, NEW s \in IoThreads \ {t}, Others(t), WakeKept(t), Sure(s)
  PROVE  Sure(s)'
  <1>1. io'[s] = io[s] BY Zenon DEF Others
  <1>2. PICK u \in IoThreads : \/ io[u].pc = "wake" /\ Wakes(io[u].wk, io[s])
                               \/ io[u].pc = "drop" /\ Wakes(OwnKeys(io[u].desc), io[s])
    BY Zenon DEF Sure
  <1>3. CASE u # t
    <2>1. io'[u] = io[u] BY <1>3, Zenon DEF Others
    <2> QED BY <1>1, <1>2, <2>1, Zenon DEF Sure, Wakes, OwnKeys
  <1>4. CASE u = t
    <2>1. io[t].pc = "drop" /\ Wakes(OwnKeys(io[t].desc), io[s]) BY <1>2, <1>4, Zenon DEF WakeKept
    <2>2. io'[t].pc = "wake" /\ OwnKeys(io[t].desc) \subseteq io'[t].wk BY <2>1, Zenon DEF WakeKept
    <2>3. Wakes(io'[t].wk, io'[s]) BY <1>1, <2>1, <2>2, Zenon DEF Wakes
    <2> QED BY <2>2, <2>3, Zenon DEF Sure, Wakes
  <1> QED BY <1>3, <1>4, Zenon

(* a key that is told, or a descriptor that is about to be dropped, wakes  *)
LEMMA ToldIsSure ==
  ASSUME NEW t \in IoThreads, NEW s \in IoThreads \ {t}, Others(t), io[s].pc = "asleep", NEW k,
         Told(t, k), io[s].keys = {} \/ k \in io[s].keys
  PROVE  Sure(s)'
  BY Zenon DEF Sure, Wakes, Told, Others

LEMMA DropIsSure ==
  ASSUME NEW t \in IoThreads, NEW s \in IoThreads \ {t}, Others(t), io[s].pc = "asleep", NEW d,
         io'[t].pc = "drop", io'[t].desc = d, io[s].keys = {} \/ OwnKeys(d) \cap io[s].keys # {}
  PROVE  Sure(s)'
  <1>1. Wakes(OwnKeys(io'[t].desc), io'[s]) BY Zenon DEF Wakes, Others
  <1>2. Wakes(OwnKeys(io[t].desc), io[s])' BY <1>1, Zenon DEF Wakes, OwnKeys
  <1> QED BY <1>2, Zenon DEF Sure

(* Thread t moves; the sleeper s is another one                            *)
Beside(t, s) ==
    /\ t \in IoThreads /\ s \in IoThreads /\ s # t /\ Others(t)
    /\ TablesOK /\ CallsOK /\ io[s].pc = "asleep"
    /\ RisesTold(t) /\ SlotsTold(t)

LEMMA ReadStays ==
  ASSUME NEW t, NEW s, Beside(t, s), NEW f \in Fds, ReadHeld(s, f)
  PROVE  ReadHeld(s, f)' \/ Sure(s)'
  <1>d. PICK d : d = Mine(s)[f] BY Zenon
  <1>0. t \in IoThreads /\ s \in IoThreads \ {t} /\ Others(t) /\ io[s].pc = "asleep" BY Zenon DEF Beside
  <1>1. d \in Ends /\ ReadBlocks(d) /\ io[s].keys = {<<"r", d.obj>>} /\ io'[s] = io[s]
    BY <1>d, SlotType, Zenon DEF Beside, ReadHeld, Others
  <1>2. d.end \in {"r", "e"} BY <1>1, Zenon DEF ReadBlocks
  <1>3. CASE fdt'[IoProcOf[s]][f] # d
    <2>0. IoProcOf[s] \in IoProcs /\ fdt[IoProcOf[s]][f] = d
      BY <1>d, <1>0, SlotType, Zenon DEF Beside, Mine
    <2>1. io'[t].pc = "drop" /\ io'[t].desc = d
      BY <1>1, <1>3, <2>0, EndsType, Zenon DEF Beside, SlotsTold
    <2>2. <<"r", d.obj>> \in OwnKeys(d) BY <1>2, Zenon DEF OwnKeys
    <2>3. OwnKeys(d) \cap io[s].keys # {} BY <1>1, <2>2, Zenon
    <2> QED BY <1>0, <2>1, <2>3, DropIsSure, Zenon
  <1>4. CASE fdt'[IoProcOf[s]][f] = d
    <2>1. Mine(s)'[f] = d BY <1>4, Zenon DEF Mine
    <2>2. CASE ReadBlocks(d)'
      BY <1>1, <2>1, <2>2, EndsType, Zenon DEF ReadHeld, ReadBlocks
    <2>3. CASE ~ReadBlocks(d)'
      <3>1. Told(t, <<"r", d.obj>>) BY <1>1, <2>3, Zenon DEF Beside, RisesTold, ReadRiseTold
      <3> QED BY <1>0, <1>1, <3>1, ToldIsSure, Zenon
    <2> QED BY <2>2, <2>3, Zenon
  <1> QED BY <1>3, <1>4, Zenon

LEMMA WriteStays ==
  ASSUME NEW t, NEW s, Beside(t, s), NEW f \in Fds, WriteHeld(s, f)
  PROVE  WriteHeld(s, f)' \/ Sure(s)'
  <1>d. PICK d : d = Mine(s)[f] OBVIOUS
  <1>0. t \in IoThreads /\ s \in IoThreads \ {t} /\ Others(t) /\ io[s].pc = "asleep" BY DEF Beside
  <1>1. d \in Ends /\ WriteBlocks(d) /\ io[s].keys = {<<"w", d.obj>>} /\ io'[s] = io[s]
    BY <1>d, SlotType, Zenon DEF Beside, WriteHeld, Others
  <1>2. d.end \in {"w", "e"} BY <1>1, Zenon DEF WriteBlocks
  <1>3. CASE fdt'[IoProcOf[s]][f] # d
    <2>0. IoProcOf[s] \in IoProcs /\ fdt[IoProcOf[s]][f] = d
      BY <1>d, <1>0, SlotType DEF Beside, Mine
    <2>1. io'[t].pc = "drop" /\ io'[t].desc = d
      BY <1>1, <1>3, <2>0, EndsType, Zenon DEF Beside, SlotsTold
    <2>2. <<"w", d.obj>> \in OwnKeys(d) BY <1>2, Zenon DEF OwnKeys
    <2>3. OwnKeys(d) \cap io[s].keys # {} BY <1>1, <2>2, Zenon
    <2> QED BY <1>0, <2>1, <2>3, DropIsSure
  <1>4. CASE fdt'[IoProcOf[s]][f] = d
    <2>1. Mine(s)'[f] = d BY <1>4 DEF Mine
    <2>2. CASE WriteBlocks(d)'
      BY <1>1, <2>1, <2>2, EndsType, Zenon DEF WriteHeld, WriteBlocks
    <2>3. CASE ~WriteBlocks(d)'
      <3>1. Told(t, <<"w", d.obj>>) BY <1>1, <2>3, Zenon DEF Beside, RisesTold, WriteRiseTold
      <3> QED BY <1>0, <1>1, <3>1, ToldIsSure, Zenon
    <2> QED BY <2>2, <2>3
  <1> QED BY <1>3, <1>4

LEMMA SelectStays ==
  ASSUME NEW t, NEW s, Beside(t, s), io[s].op = "select", SelectHeld(s)
  PROVE  SelectHeld(s)' \/ Sure(s)'
  <1>0. t \in IoThreads /\ s \in IoThreads \ {t} /\ Others(t) /\ io[s].pc = "asleep" BY Zenon DEF Beside
  <1>1. io'[s] = io[s] /\ io[s].keys = {} /\ io[s].req \in SUBSET Asks
    BY <1>0, Zenon DEF Beside, CallsOK, CallOK, Others
  <1>2. ASSUME ~Sure(s)', NEW w \in io[s].req, NEW d, d = Mine(s)[w.fd]
        PROVE  /\ d = fdt'[IoProcOf[s]][w.fd] /\ d # NoFd
               /\ ~(w.rd /\ PollRead(d)') /\ ~(w.wr /\ PollWrite(d)')
    <2>2. w.fd \in Fds BY <1>1, Zenon DEF Asks
    <2>3. d \in Ends /\ ~(w.rd /\ PollRead(d)) /\ ~(w.wr /\ PollWrite(d))
      BY <1>0, <1>2, <2>2, SlotType, Zenon DEF Beside, SelectHeld
    <2>4. fdt'[IoProcOf[s]][w.fd] = d
      <3> SUFFICES ASSUME fdt'[IoProcOf[s]][w.fd] # d PROVE FALSE BY Zenon
      <3>0. IoProcOf[s] \in IoProcs /\ fdt[IoProcOf[s]][w.fd] = d
        BY <1>0, <1>2, <2>2, SlotType, Zenon DEF Beside, Mine
      <3>1. io'[t].pc = "drop" /\ io'[t].desc = d
        BY <2>2, <2>3, <3>0, EndsType, Zenon DEF Beside, SlotsTold
      <3> QED BY <1>0, <1>1, <1>2, <3>1, DropIsSure, Zenon
    <2>5. \A k : ~Told(t, k) BY <1>0, <1>1, <1>2, ToldIsSure, Zenon
    <2>6. (PollRead(d)' => PollRead(d)) /\ (PollWrite(d)' => PollWrite(d))
      BY <2>3, <2>5, Zenon DEF Beside, RisesTold, ReadRiseTold, WriteRiseTold
    <2> QED BY <2>3, <2>4, <2>6, EndsType, Zenon
  <1>3. ASSUME ~Sure(s)', NEW w \in io'[s].req
        PROVE  (LET d == Mine(s)[w.fd] IN d # NoFd /\ ~(w.rd /\ PollRead(d)) /\ ~(w.wr /\ PollWrite(d)))'
    <2>1. PICK d : d = Mine(s)[w.fd] BY Zenon
    <2>2. /\ d = fdt'[IoProcOf[s]][w.fd] /\ d # NoFd
          /\ ~(w.rd /\ PollRead(d)') /\ ~(w.wr /\ PollWrite(d)')
      BY <1>1, <1>2, <1>3, <2>1, Zenon
    <2> QED BY <2>2, Zenon DEF Mine, PollRead, PollWrite
  <1> QED BY <1>3, Zenon DEF SelectHeld

(* A descriptor that becomes ready for what w asks has told one of its keys *)
LEMMA ReadyTold ==
  ASSUME NEW t \in IoThreads, RisesTold(t), NEW d \in Ends, NEW w, ~Ready(d, w), Ready(d, w)'
  PROVE  \/ (w.rd \/ d.end = "r") /\ d.end \in {"r", "e"} /\ Told(t, <<"r", d.obj>>)
         \/ (w.wr \/ d.end = "w") /\ d.end \in {"w", "e"} /\ Told(t, <<"w", d.obj>>)
  <1>1. ReadRiseTold(t, d) /\ WriteRiseTold(t, d) BY Zenon DEF RisesTold
  <1>2. ~(w.rd /\ PollRead(d)) /\ ~(w.wr /\ PollWrite(d)) /\ ~PollErr(d) /\ ~PollHup(d)
    BY Zenon DEF Ready
  <1>3. (w.rd /\ PollRead(d)') \/ (w.wr /\ PollWrite(d)') \/ PollErr(d)' \/ PollHup(d)'
    BY Zenon DEF Ready
  <1>4. CASE w.rd /\ PollRead(d)'
    <2>1. d.end \in {"r", "e"} BY <1>4, Zenon DEF PollRead
    <2> QED BY <1>1, <1>2, <1>4, <2>1, Zenon DEF ReadRiseTold
  <1>5. CASE w.wr /\ PollWrite(d)'
    <2>1. d.end \in {"w", "e"} BY <1>5, Zenon DEF PollWrite
    <2> QED BY <1>1, <1>2, <1>5, <2>1, Zenon DEF WriteRiseTold
  <1>6. CASE PollErr(d)'
    <2>1. d.end = "w" BY <1>6, Zenon DEF PollErr
    <2> QED BY <1>1, <1>2, <1>6, <2>1, Zenon DEF WriteRiseTold
  <1>7. CASE PollHup(d)'
    <2>1. d.end = "r" BY <1>7, Zenon DEF PollHup
    <2> QED BY <1>1, <1>2, <1>7, <2>1, Zenon DEF ReadRiseTold
  <1> QED BY <1>3, <1>4, <1>5, <1>6, <1>7, Zenon

LEMMA EpollStays ==
  ASSUME NEW t, NEW s, Beside(t, s), io[s].op = "epoll", EpollHeld(s)
  PROVE  EpollHeld(s)' \/ Sure(s)'
  <1>0. t \in IoThreads /\ s \in IoThreads \ {t} /\ Others(t) /\ io[s].pc = "asleep" /\ RisesTold(t)
    BY Zenon DEF Beside
  <1>1. io'[s] = io[s] /\ io[s].keys = {} /\ io[s].req \in SUBSET Interests
    BY <1>0, Zenon DEF Beside, CallsOK, CallOK, Others
  <1>2. ASSUME ~Sure(s)', NEW w \in io[s].req PROVE ~Ready(w.desc, w)'
    <2>1. w.desc \in Ends /\ ~Ready(w.desc, w) BY <1>1, Zenon DEF Interests, EpollHeld
    <2>2. \A k : ~Told(t, k) BY <1>0, <1>1, <1>2, ToldIsSure, Zenon
    <2> QED BY <1>0, <2>1, <2>2, ReadyTold, Zenon
  <1> QED BY <1>1, <1>2, Zenon DEF EpollHeld

(* The keys of a poll of d wake it when d becomes ready                    *)
LEMMA FitIsTold ==
  ASSUME NEW t \in IoThreads, RisesTold(t), NEW d \in Ends, NEW w \in Asks, ~Ready(d, w),
         Ready(d, w)', NEW keys, KeysFit(keys, w, d), event \in [EventFds -> 0..EventMax]
  PROVE  \E k : Told(t, k) /\ (keys = {} \/ k \in keys)
  <1>1. PICK k \in {<<"r", d.obj>>, <<"w", d.obj>>} :
           /\ Told(t, k)
           /\ \/ (w.rd \/ d.end = "r") /\ d.end \in {"r", "e"} /\ k = <<"r", d.obj>>
              \/ (w.wr \/ d.end = "w") /\ d.end \in {"w", "e"} /\ k = <<"w", d.obj>>
    BY ReadyTold, Zenon
  <1>2. ~(w.rd /\ w.wr /\ d.end = "e")
    <2> SUFFICES ASSUME w.rd, w.wr, d.end = "e" PROVE FALSE BY Zenon
    <2>1. ~PollRead(d) /\ ~PollWrite(d) BY Zenon DEF Ready
    <2>2. ~(event[d.obj] # 0) /\ ~(event[d.obj] < EventMax) BY <2>1, Zenon DEF PollRead, PollWrite
    <2> QED BY <2>2, EndsType, PipeSizesAssumption
  <1>3. CASE keys = {} BY <1>1, <1>3, Zenon
  <1>4. CASE w.rd /\ ~w.wr /\ d.end \in {"r", "e"} /\ keys = {<<"r", d.obj>>}
    <2>1. k = <<"r", d.obj>> BY <1>1, <1>4, Zenon
    <2> QED BY <1>1, <1>4, <2>1, Zenon
  <1>5. CASE w.wr /\ ~w.rd /\ d.end \in {"w", "e"} /\ keys = {<<"w", d.obj>>}
    <2>1. k = <<"w", d.obj>> BY <1>1, <1>5, Zenon
    <2> QED BY <1>1, <1>5, <2>1, Zenon
  <1> QED BY <1>2, <1>3, <1>4, <1>5, Zenon DEF KeysFit

LEMMA PollStays ==
  ASSUME NEW t, NEW s, Beside(t, s), EventsOK, io[s].op = "poll", KeysStay(s), PollHeld(s)
  PROVE  PollHeld(s)' \/ Sure(s)'
  <1>0. t \in IoThreads /\ s \in IoThreads \ {t} /\ Others(t) /\ io[s].pc = "asleep" /\ RisesTold(t)
    BY Zenon DEF Beside
  <1>1. io'[s] = io[s] /\ io[s].req \in SUBSET Asks
    BY <1>0, Zenon DEF Beside, CallsOK, CallOK, Others
  <1>2. fdt'[IoProcOf[s]] = fdt[IoProcOf[s]]
    BY <1>0, Zenon DEF Beside, SlotsTold, KeysStay
  <1>3. ASSUME ~Sure(s)', NEW w \in io[s].req, NEW d, d = Mine(s)[w.fd]
        PROVE  d # NoFd /\ ~Ready(d, w)' /\ KeysFit(io[s].keys, w, d)
    <2>1. w \in Asks /\ w.fd \in Fds BY <1>1, Zenon DEF Asks
    <2>2. d \in Ends /\ ~Ready(d, w) /\ KeysFit(io[s].keys, w, d)
      BY <1>0, <1>3, <2>1, SlotType, Zenon DEF Beside, PollHeld
    <2>3. \A k : Told(t, k) => ~(io[s].keys = {} \/ k \in io[s].keys)
      BY <1>0, <1>3, ToldIsSure, Zenon
    <2>4. ~Ready(d, w)'
      BY <1>0, <2>1, <2>2, <2>3, FitIsTold, Zenon DEF EventsOK
    <2> QED BY <2>2, <2>4, EndsType, Zenon
  <1>4. ASSUME ~Sure(s)', NEW w \in io'[s].req
        PROVE  (LET d == Mine(s)[w.fd] IN d # NoFd /\ ~Ready(d, w) /\ KeysFit(io[s].keys, w, d))'
    <2>1. PICK d : d = Mine(s)[w.fd] BY Zenon
    <2>2. d # NoFd /\ ~Ready(d, w)' /\ KeysFit(io[s].keys, w, d) BY <1>1, <1>3, <1>4, <2>1, Zenon
    <2>3. d = Mine(s)'[w.fd] BY <1>2, <2>1, Zenon DEF Mine
    <2> QED BY <1>1, <2>2, <2>3, Zenon DEF Ready, PollRead, PollWrite, PollErr, PollHup, KeysFit
  <1> QED BY <1>4, Zenon DEF PollHeld

LEMMA HeldStays ==
  ASSUME NEW t, NEW s, Beside(t, s), EventsOK, Held(s)
  PROVE  Held(s)' \/ Sure(s)'
  <1>0. s \in IoThreads /\ io'[s] = io[s] BY Zenon DEF Beside, Others
  <1>1. CallOK(io[s]) /\ io[s].done \in Nat BY <1>0, Zenon DEF Beside, CallsOK, CallRec
  <1>2. KeysStay(s)' <=> KeysStay(s) BY <1>0, Zenon DEF KeysStay
  <1> SUFFICES ASSUME ~Sure(s)' PROVE Held(s)' BY Zenon
  <1>3. io[s].op = "read" => ReadHeld(s, io[s].fd)' BY <1>0, <1>1, ReadStays, Zenon DEF Held, CallOK
  <1>4. io[s].op = "write" => WriteHeld(s, io[s].fd)' BY <1>0, <1>1, WriteStays, Zenon DEF Held, CallOK
  <1>5. io[s].op = "splice" /\ io[s].done = 0 => ReadHeld(s, io[s].fd)'
    BY <1>0, <1>1, ReadStays, Zenon DEF Held, CallOK
  <1>6. io[s].op = "splice" /\ io[s].done > 0 => WriteHeld(s, io[s].out)'
    BY <1>0, <1>1, WriteStays, Zenon DEF Held, CallOK
  <1>7. io[s].op = "select" => SelectHeld(s)' BY SelectStays, Zenon DEF Held
  <1>8. io[s].op = "poll" /\ KeysStay(s) => PollHeld(s)' BY PollStays, Zenon DEF Held
  <1>9. io[s].op = "epoll" => EpollHeld(s)' BY EpollStays, Zenon DEF Held
  <1> QED BY <1>0, <1>2, <1>3, <1>4, <1>5, <1>6, <1>7, <1>8, <1>9, Zenon DEF Held

LEMMA SleepersKept ==
  ASSUME PTypes, SleepersHeld, NEW t \in IoThreads, Others(t), WakeKept(t), RisesTold(t),
         SlotsTold(t), io'[t].pc = "asleep" => Held(t)'
  PROVE  SleepersHeld'
  <1> SUFFICES ASSUME NEW s \in IoThreads, io'[s].pc = "asleep" PROVE Sure(s)' \/ Held(s)'
    BY Zenon DEF SleepersHeld
  <1>1. CASE s = t BY <1>1, Zenon
  <1>2. CASE s # t
    <2>1. io[s].pc = "asleep" BY <1>2, Zenon DEF Others
    <2>2. Sure(s) \/ Held(s) BY <2>1, Zenon DEF SleepersHeld
    <2>3. Beside(t, s) BY <1>2, <2>1, Zenon DEF Beside, PTypes
    <2> QED BY <1>2, <2>2, <2>3, SureStays, HeldStays, Zenon DEF PTypes
  <1> QED BY <1>1, <1>2, Zenon

LEMMA FitsKept ==
  ASSUME Collected, NEW t \in IoThreads, Others(t), SlotsTold(t), Fits(t)'
  PROVE  Collected'
  <1> SUFFICES ASSUME NEW s \in IoThreads, s # t PROVE Fits(s)' BY Zenon DEF Collected
  <1>1. io'[s] = io[s] /\ Fits(s) BY Zenon DEF Others, Collected
  <1>2. KeysStay(s)' <=> KeysStay(s) BY <1>1, Zenon DEF KeysStay
  <1>3. KeysStay(s) => Mine(s)' = Mine(s) BY Zenon DEF KeysStay, SlotsTold, Mine
  <1> QED BY <1>1, <1>2, <1>3 DEF Fits, KeysFit

-----------------------------------------------------------------------------
(* What a step of one thread has to do *)

Acts(t) ==
    /\ PTypes' /\ EndsExact'
    /\ Others(t) /\ WakeKept(t) /\ RisesTold(t) /\ SlotsTold(t)
    /\ io'[t].pc = "asleep" => Held(t)'
    /\ Fits(t)'

LEMMA ActsInv ==
  ASSUME PipeInv, NEW t \in IoThreads, Acts(t)
  PROVE  PipeInv'
  BY SleepersKept, FitsKept, Zenon DEF PipeInv, Acts

(* The descriptors and the counts of ends stay                             *)
LEMMA EndsKept ==
  ASSUME EndsExact, fdt' = fdt, watch' = watch, \A d \in PipeEnds : AtHands(d)' = AtHands(d),
         \A o \in PipeIds : pipe'[o].readers = pipe[o].readers /\ pipe'[o].writers = pipe[o].writers
  PROVE  EndsExact'
  <1>1. \A d \in PipeEnds : Count(d)' = Count(d) BY Zenon DEF Count, AtSlots, AtWatch
  <1>2. \A d \in PipeEnds : Counter(d)' = Counter(d) BY Zenon DEF Counter, PipeEnds
  <1>3. \A d \in PipeEnds : Count(d) = Counter(d) BY EndsAreCounted, Zenon
  <1>4. \A d \in PipeEnds : Count(d)' = Counter(d)' BY <1>1, <1>2, <1>3, Zenon
  <1>5. (\A d \in PipeEnds : Count(d) = Counter(d))' BY <1>4, Zenon
  <1> QED BY <1>5, EndsAreCounted, PTL

LEMMA IoActs ==
  ASSUME PTypes, EndsExact, NEW t \in IoThreads, NEW c, IoMoves(t, c),
         fdt' = fdt, watch' = watch, PipesOK', EventsOK', lost' \in Nat,
         \A o \in PipeIds : pipe'[o].readers = pipe[o].readers /\ pipe'[o].writers = pipe[o].writers,
         io[t].pc \notin {"wake", "drop", "add"}, c.pc \notin {"drop", "add"},
         RisesTold(t), c.pc = "asleep" => Held(t)', Fits(t)'
  PROVE  Acts(t)
  <1>1. CallsOK' /\ io'[t] = c /\ Others(t) BY Moved, Zenon DEF PTypes, Others
  <1>2. TablesOK' /\ WatchOK' BY Zenon DEF PTypes, TablesOK, WatchOK, OneWatch
  <1>3. \A d \in PipeEnds : AtHands(d)' = AtHands(d) BY <1>1, HandsSame, Zenon DEF Others
  <1>4. EndsExact' BY <1>3, EndsKept, Zenon
  <1>5. WakeKept(t) BY Zenon DEF WakeKept
  <1>6. SlotsTold(t) BY Zenon DEF SlotsTold
  <1> QED BY <1>1, <1>2, <1>4, <1>5, <1>6, Zenon DEF Acts, PTypes

(* a step that changes no object                                           *)
Quietly(t) == io[t].pc \notin {"wake", "drop", "add"} /\ UNCHANGED <<pipe, event, fdt, watch>> /\ lost' \in Nat

LEMMA QuietActs ==
  ASSUME PTypes, EndsExact, NEW t \in IoThreads, NEW c, IoMoves(t, c), Quietly(t),
         c.pc \notin {"drop", "add"}, c.pc = "asleep" => Held(t)', Fits(t)'
  PROVE  Acts(t)
  <1>1. PipesOK' /\ EventsOK' BY Zenon DEF PTypes, PipesOK, EventsOK, Quietly
  <1>2. \A o \in PipeIds : pipe'[o].readers = pipe[o].readers /\ pipe'[o].writers = pipe[o].writers
    BY Zenon DEF Quietly
  <1>3. RisesTold(t) BY NoRise, Zenon DEF Quietly
  <1> QED BY <1>1, <1>2, <1>3, IoActs, Zenon DEF Quietly

LEMMA FitsElsewhere ==
  ASSUME PTypes, NEW t \in IoThreads, NEW c, IoMoves(t, c), c.op # "poll" \/ c.pc # "wait"
  PROVE  Fits(t)'
  BY Moved, Zenon DEF Fits, PTypes

LEMMA QuietFinish ==
  ASSUME PTypes, EndsExact, NEW t \in IoThreads, Finish(t), Quietly(t)
  PROVE  Acts(t)
  <1>1. IoMoves(t, IoIdle) BY IdleCall, Zenon DEF Finish, IoMoves
  <1>2. IoIdle.pc = "idle" BY Zenon DEF IoIdle
  <1>3. Fits(t)' BY <1>1, <1>2, FitsElsewhere, Zenon
  <1> QED BY <1>1, <1>2, <1>3, QuietActs, Zenon

LEMMA StepMoves ==
  ASSUME CallsOK, NEW t \in IoThreads, NEW pc \in {"look", "keys", "wait", "asleep"}, Step(t, pc),
         io[t].op \in Waiters, pc = "keys" => io[t].op = "poll"
  PROVE  \E c : IoMoves(t, c) /\ c.pc = pc /\ c.op = io[t].op
  <1> DEFINE c == [io[t] EXCEPT !.pc = pc]
  <1>1. io[t] \in CallRec /\ CallOK(io[t]) BY Zenon DEF CallsOK
  <1>2. c \in CallRec /\ c.pc = pc /\ c.op = io[t].op BY <1>1 DEF CallRec
  <1>3. CallOK(c) BY <1>1 DEF CallOK, CallRec
  <1>4. io' = [io EXCEPT ![t] = c] BY Zenon DEF Step
  <1> QED BY <1>2, <1>3, <1>4, Zenon DEF IoMoves

LEMMA QuietStep ==
  ASSUME PTypes, EndsExact, NEW t \in IoThreads, NEW pc \in {"look", "keys", "wait"}, Step(t, pc),
         Quietly(t), io[t].op \in Waiters, pc = "keys" => io[t].op = "poll",
         pc = "wait" => io[t].op # "poll"
  PROVE  Acts(t)
  <1>1. PICK c : IoMoves(t, c) /\ c.pc = pc /\ c.op = io[t].op BY StepMoves DEF PTypes
  <1>2. Fits(t)' BY <1>1, FitsElsewhere, Zenon
  <1> QED BY <1>1, <1>2, QuietActs, Zenon

LEMMA QuietSleep ==
  ASSUME PTypes, EndsExact, NEW t \in IoThreads, Quietly(t), NEW c, IoMoves(t, c),
         c.pc = "asleep", Held(t)'
  PROVE  Acts(t)
  <1>1. Fits(t)' BY FitsElsewhere, Zenon
  <1> QED BY <1>1, QuietActs, Zenon

LEMMA StartMoves ==
  ASSUME PTypes, EndsExact, NEW t \in IoThreads, NEW c \in CallRec, CallOK(c), StartIo(t, c),
         c.pc = "look"
  PROVE  Acts(t)
  <1>1. IoMoves(t, c) BY Zenon DEF StartIo, IoMoves
  <1>2. Quietly(t) BY Zenon DEF StartIo, Quietly, PTypes
  <1>3. Fits(t)' BY <1>1, FitsElsewhere, Zenon
  <1> QED BY <1>1, <1>2, <1>3, QuietActs, Zenon

(* a step that fills or drains a pipe, or changes an eventfd               *)
LEMMA BufferActs ==
  ASSUME PTypes, EndsExact, NEW t \in IoThreads, NEW c, IoMoves(t, c), io[t].pc = "look",
         c.pc \in {"idle", "look", "wake"}, NEW o \in PipeIds, NEW n \in 0..PipeCapacity,
         pipe' = [pipe EXCEPT ![o].len = n], UNCHANGED <<event, fdt, watch, lost>>,
         pipe[o].len = 0 /\ n # 0 => Told(t, <<"r", o>>),
         pipe[o].len = PipeCapacity /\ n # PipeCapacity => Told(t, <<"w", o>>)
  PROVE  Acts(t)
  <1>1. /\ PipesOK' /\ \A p \in PipeIds \ {o} : pipe'[p] = pipe[p]
        /\ pipe'[o] \in PipeRec /\ pipe'[o].len = n
        /\ pipe'[o].readers = pipe[o].readers /\ pipe'[o].writers = pipe[o].writers
    BY Zenon DEF PTypes, PipesOK, PipeRec
  <1>2. PipeRise(t, o) BY <1>1, Zenon DEF PipeRise
  <1>3. RisesTold(t) BY <1>1, <1>2, PipeRisesTold, Zenon DEF PTypes
  <1>4. EventsOK' /\ lost' \in Nat BY Zenon DEF PTypes, EventsOK
  <1>5. Fits(t)' BY FitsElsewhere, Zenon
  <1> QED BY <1>1, <1>3, <1>4, <1>5, IoActs, Zenon

LEMMA EventActs ==
  ASSUME PTypes, EndsExact, NEW t \in IoThreads, NEW c, IoMoves(t, c), io[t].pc = "look",
         c.pc \in {"idle", "look", "wake"}, NEW o \in EventFds, NEW v \in 0..EventMax,
         event' = [event EXCEPT ![o] = v], UNCHANGED <<pipe, fdt, watch, lost>>,
         event[o] = 0 /\ v # 0 => Told(t, <<"r", o>>),
         event[o] # 0 /\ v < event[o] => Told(t, <<"w", o>>)
  PROVE  Acts(t)
  <1>1. EventsOK' /\ event'[o] = v /\ \A e \in EventFds \ {o} : event'[e] = event[e]
    BY Zenon DEF PTypes, EventsOK
  <1>2. RisesTold(t) BY <1>1, EventRisesTold, Zenon DEF PTypes
  <1>3. PipesOK' /\ lost' \in Nat BY Zenon DEF PTypes, PipesOK
  <1>4. Fits(t)' BY FitsElsewhere, Zenon
  <1> QED BY <1>1, <1>2, <1>3, <1>4, IoActs, Zenon

-----------------------------------------------------------------------------
(* The calls that start, look and go to sleep *)

Base(t) == PTypes /\ EndsExact /\ Collected /\ t \in IoThreads

LEMMA StartActs ==
  ASSUME NEW t, Base(t),
         \/ \E fd \in Fds, n \in Counts : ReadCall(t, fd, n) \/ WriteCall(t, fd, n)
         \/ \E req \in PollSets : PollCall(t, req) \/ SelectCall(t, req)
         \/ EpollCall(t)
         \/ \E fd, out \in Fds, n \in Counts : SpliceCall(t, fd, out, n)
  PROVE  Acts(t)
  <1>0. PTypes /\ EndsExact /\ t \in IoThreads BY Zenon DEF Base
  <1>1. ASSUME NEW fd \in Fds, NEW n \in Counts, ReadCall(t, fd, n) PROVE Acts(t)
    <2> DEFINE c == [IoIdle EXCEPT !.pc = "look", !.op = "read", !.fd = fd, !.n = n]
    <2>0. n \in Nat /\ 0 <= n BY PipeSizesAssumption
    <2>1. c \in CallRec /\ c.pc = "look" BY <2>0, Zenon DEF IoIdle, CallRec, Waiters
    <2>3. CallOK(c) BY <2>0, Zenon DEF IoIdle, CallOK, Waiters
    <2>2. StartIo(t, c) BY <1>1, Zenon DEF ReadCall
    <2> QED BY <1>0, <2>1, <2>2, <2>3, StartMoves, Zenon
  <1>2. ASSUME NEW fd \in Fds, NEW n \in Counts, WriteCall(t, fd, n) PROVE Acts(t)
    <2> DEFINE c == [IoIdle EXCEPT !.pc = "look", !.op = "write", !.fd = fd, !.n = n]
    <2>0. n \in Nat /\ 0 <= n BY PipeSizesAssumption
    <2>1. c \in CallRec /\ c.pc = "look" BY <2>0, Zenon DEF IoIdle, CallRec, Waiters
    <2>3. CallOK(c) BY <2>0, Zenon DEF IoIdle, CallOK, Waiters
    <2>2. StartIo(t, c) BY <1>2, Zenon DEF WriteCall
    <2> QED BY <1>0, <2>1, <2>2, <2>3, StartMoves, Zenon
  <1>3. ASSUME NEW req \in PollSets, PollCall(t, req) PROVE Acts(t)
    <2> DEFINE c == [IoIdle EXCEPT !.pc = "look", !.op = "poll", !.req = req]
    <2>0. req \in SUBSET Asks BY PollSetsAssumption, Zenon DEF Asks
    <2>1. c \in CallRec /\ CallOK(c) /\ c.pc = "look"
      BY <2>0, Zenon DEF IoIdle, CallRec, CallOK, Waiters
    <2>2. StartIo(t, c) BY <1>3, Zenon DEF PollCall
    <2> QED BY <1>0, <2>1, <2>2, StartMoves, Zenon
  <1>4. ASSUME NEW req \in PollSets, SelectCall(t, req) PROVE Acts(t)
    <2> DEFINE c == [IoIdle EXCEPT !.pc = "look", !.op = "select", !.req = req]
    <2>0. req \in SUBSET Asks BY PollSetsAssumption DEF Asks
    <2>1. c \in CallRec /\ CallOK(c) /\ c.pc = "look"
      BY <2>0, Zenon DEF IoIdle, CallRec, CallOK, Waiters
    <2>2. StartIo(t, c) BY <1>4, Zenon DEF SelectCall
    <2> QED BY <1>0, <2>1, <2>2, StartMoves, Zenon
  <1>5. ASSUME EpollCall(t) PROVE Acts(t)
    <2> DEFINE c == [IoIdle EXCEPT !.pc = "look", !.op = "epoll"]
    <2>1. c \in CallRec /\ CallOK(c) /\ c.pc = "look"
      BY Zenon DEF IoIdle, CallRec, CallOK, Waiters
    <2>2. StartIo(t, c) BY <1>5, Zenon DEF EpollCall
    <2> QED BY <1>0, <2>1, <2>2, StartMoves, Zenon
  <1>6. ASSUME NEW fd \in Fds, NEW out \in Fds, NEW n \in Counts, SpliceCall(t, fd, out, n)
        PROVE  Acts(t)
    <2> DEFINE c == [IoIdle EXCEPT !.pc = "look", !.op = "splice", !.fd = fd, !.out = out, !.n = n]
    <2>0. n \in Nat /\ 0 <= n BY PipeSizesAssumption
    <2>1. c \in CallRec /\ c.pc = "look" BY <2>0, Zenon DEF IoIdle, CallRec, Waiters
    <2>3. CallOK(c) BY <2>0, Zenon DEF IoIdle, CallOK, Waiters
    <2>2. StartIo(t, c) BY <1>6, Zenon DEF SpliceCall
    <2> QED BY <1>0, <2>1, <2>2, <2>3, StartMoves, Zenon
  <1> QED BY <1>1, <1>2, <1>3, <1>4, <1>5, <1>6, Zenon

LEMMA LookQuietly ==
  ASSUME NEW t, Base(t), io[t].pc \in {"look", "wait", "asleep", "keys"}, lost' \in Nat,
         UNCHANGED <<pipe, event, fdt, watch>>
  PROVE  Quietly(t) /\ io[t].op \in Waiters /\ PTypes /\ EndsExact /\ t \in IoThreads
  BY Zenon DEF Base, PTypes, CallsOK, CallOK, Quietly, Waiters

LEMMA LookActs ==
  ASSUME NEW t, Base(t), PollLook(t) \/ SelectLook(t) \/ EpollLook(t)
  PROVE  Acts(t)
  <1>0. lost \in Nat BY Zenon DEF Base, PTypes
  <1>1. CASE PollLook(t)
    <2>1. Quietly(t) /\ io[t].op \in Waiters /\ PTypes /\ EndsExact /\ t \in IoThreads
      BY <1>0, <1>1, LookQuietly, Zenon DEF PollLook
    <2>2. io[t].op = "poll" /\ (Finish(t) \/ Step(t, "keys")) BY <1>1, Zenon DEF PollLook
    <2> QED BY <2>1, <2>2, QuietFinish, QuietStep, Zenon
  <1>2. CASE SelectLook(t)
    <2>1. Quietly(t) /\ io[t].op \in Waiters /\ PTypes /\ EndsExact /\ t \in IoThreads
      BY <1>0, <1>2, LookQuietly, Zenon DEF SelectLook
    <2>2. io[t].op = "select" /\ (Finish(t) \/ Step(t, "wait")) BY <1>2, Zenon DEF SelectLook
    <2> QED BY <2>1, <2>2, QuietFinish, QuietStep, Zenon
  <1>3. CASE EpollLook(t)
    <2>1. Quietly(t) /\ io[t].op \in Waiters /\ PTypes /\ EndsExact /\ t \in IoThreads
      BY <1>0, <1>3, LookQuietly, Zenon DEF EpollLook
    <2>2. io[t].op = "epoll" /\ (Finish(t) \/ Step(t, "wait")) BY <1>3, Zenon DEF EpollLook
    <2> QED BY <2>1, <2>2, QuietFinish, QuietStep, Zenon
  <1> QED BY <1>1, <1>2, <1>3, Zenon

LEMMA EndActs ==
  ASSUME NEW t, Base(t), EndSleep(t)
  PROVE  Acts(t)
  <1>1. lost \in Nat /\ io[t].done \in Nat BY Zenon DEF Base, PTypes, CallsOK, CallRec
  <1>2. PICK k \in {0, io[t].done} : lost' = lost + k BY Zenon DEF EndSleep
  <1>3. lost' \in Nat BY <1>1, <1>2
  <1>4. Quietly(t) /\ PTypes /\ EndsExact /\ t \in IoThreads BY <1>3, LookQuietly, Zenon DEF EndSleep
  <1> QED BY <1>4, QuietFinish, Zenon DEF EndSleep

(* Going to sleep on one end of a descriptor                               *)
SleepsAt(t, e, f, d) ==
    /\ e = "r" => ReadBlocks(d)
    /\ e = "w" => WriteBlocks(d)
    /\ d = Mine(t)[f] /\ d \in Ends
    /\ io' = [io EXCEPT ![t].pc = "asleep", ![t].keys = {<<e, d.obj>>}]

(* the call of t, asleep on the key of end e of d                          *)
SleptAs(t, c, e, d) ==
    /\ IoMoves(t, c) /\ c.pc = "asleep" /\ c.keys = {<<e, d.obj>>} /\ c.op = io[t].op
    /\ c.fd = io[t].fd /\ c.out = io[t].out /\ c.done = io[t].done

LEMMA SleepAtMoves ==
  ASSUME NEW t, Base(t), io[t].op \in {"read", "write", "splice"}, NEW e \in {"r", "w"}, NEW f \in Fds,
         NEW d, SleepsAt(t, e, f, d)
  PROVE  \E c : SleptAs(t, c, e, d)
  <1> DEFINE c == [io[t] EXCEPT !.pc = "asleep", !.keys = {<<e, d.obj>>}]
  <1>1. io[t] \in CallRec /\ CallOK(io[t]) /\ t \in IoThreads BY Zenon DEF Base, PTypes, CallsOK
  <1>2. {<<e, d.obj>>} \in SUBSET IoKeys BY EndsType, Zenon DEF SleepsAt
  <1>3. /\ c \in CallRec /\ c.pc = "asleep" /\ c.keys = {<<e, d.obj>>} /\ c.op = io[t].op
        /\ c.fd = io[t].fd /\ c.out = io[t].out /\ c.done = io[t].done
    BY <1>1, <1>2, Zenon DEF CallRec
  <1>4. CallOK(c) BY <1>1, Zenon DEF CallOK, CallRec, Waiters
  <1>5. io' = [io EXCEPT ![t] = c] BY Zenon DEF SleepsAt
  <1>6. IoMoves(t, c) BY <1>3, <1>4, <1>5, Zenon DEF IoMoves
  <1>7. SleptAs(t, c, e, d) BY <1>3, <1>6, Zenon DEF SleptAs
  <1> QED BY <1>7, Zenon

LEMMA SleepAtActs ==
  ASSUME NEW t, Base(t), Quietly(t), io[t].op \in {"read", "write", "splice"},
         NEW e \in {"r", "w"}, NEW f \in Fds, NEW d, SleepsAt(t, e, f, d),
         io[t].op = "read" => e = "r" /\ f = io[t].fd,
         io[t].op = "write" => e = "w" /\ f = io[t].fd,
         io[t].op = "splice" /\ io[t].done = 0 => e = "r" /\ f = io[t].fd,
         io[t].op = "splice" /\ io[t].done > 0 => e = "w" /\ f = io[t].out
  PROVE  Acts(t)
  <1>0. PICK c : SleptAs(t, c, e, d) BY SleepAtMoves, Zenon
  <1>1. /\ IoMoves(t, c) /\ c.pc = "asleep" /\ c.keys = {<<e, d.obj>>} /\ c.op = io[t].op
        /\ c.fd = io[t].fd /\ c.out = io[t].out /\ c.done = io[t].done
    BY <1>0, Zenon DEF SleptAs
  <1>2. io'[t] = c /\ t \in IoThreads BY <1>1, Moved, Zenon DEF Base, PTypes
  <1>3. d = Mine(t)'[f] /\ d # NoFd /\ d \in Ends BY EndsType, Zenon DEF Mine, Quietly, SleepsAt
  <1>4. e = "r" => ReadHeld(t, f)'
    <2> SUFFICES ASSUME e = "r" PROVE ReadHeld(t, f)' BY Zenon
    <2>1. ReadBlocks(d)' BY Zenon DEF SleepsAt, ReadBlocks, Quietly
    <2> QED BY <1>1, <1>2, <1>3, <2>1, Zenon DEF ReadHeld, ReadBlocks
  <1>5. e = "w" => WriteHeld(t, f)'
    <2> SUFFICES ASSUME e = "w" PROVE WriteHeld(t, f)' BY Zenon
    <2>1. WriteBlocks(d)' BY Zenon DEF SleepsAt, WriteBlocks, Quietly
    <2> QED BY <1>1, <1>2, <1>3, <2>1, Zenon DEF WriteHeld, WriteBlocks
  <1>6. Held(t)' BY <1>1, <1>2, <1>4, <1>5, Zenon DEF Held, ReadHeld, WriteHeld
  <1> QED BY <1>1, <1>6, QuietSleep, Zenon DEF Base

LEMMA SleepOnFdActs ==
  ASSUME NEW t, Base(t), SleepOnFd(t)
  PROVE  Acts(t)
  <1>0. lost \in Nat /\ lost' = lost BY Zenon DEF Base, PTypes, SleepOnFd
  <1>1. Quietly(t) /\ io[t].op \in Waiters /\ PTypes /\ EndsExact /\ t \in IoThreads
    BY <1>0, LookQuietly, Zenon DEF SleepOnFd
  <1>2. io[t].op \in {"read", "write"} /\ io[t].fd \in Fds
    BY <1>1, Zenon DEF SleepOnFd, PTypes, CallsOK, CallOK
  <1>3. CASE Finish(t) BY <1>1, <1>3, QuietFinish, Zenon
  <1>4. CASE Step(t, "look") BY <1>1, <1>4, QuietStep, Zenon
  <1>5. CASE ~Finish(t) /\ ~Step(t, "look")
    <2>1. PICK d : d = Mine(t)[io[t].fd] BY Zenon
    <2>2. d # NoFd BY <1>5, <2>1, Zenon DEF SleepOnFd
    <2>3. d \in Ends BY <1>1, <1>2, <2>1, <2>2, SlotType, Zenon DEF PTypes
    <2>4. CASE io[t].op = "read"
      <3>1. SleepsAt(t, "r", io[t].fd, d) BY <1>5, <2>1, <2>2, <2>3, <2>4, Zenon DEF SleepOnFd, SleepsAt
      <3> QED BY <1>1, <1>2, <2>4, <3>1, SleepAtActs, Zenon
    <2>5. CASE io[t].op = "write"
      <3>1. SleepsAt(t, "w", io[t].fd, d) BY <1>5, <2>1, <2>2, <2>3, <2>5, Zenon DEF SleepOnFd, SleepsAt
      <3> QED BY <1>1, <1>2, <2>5, <3>1, SleepAtActs, Zenon
    <2> QED BY <1>2, <2>4, <2>5, Zenon
  <1> QED BY <1>3, <1>4, <1>5, Zenon

LEMMA SpliceSleepActs ==
  ASSUME NEW t, Base(t), SpliceSleep(t)
  PROVE  Acts(t)
  <1>0. lost \in Nat /\ io[t].done \in Nat BY DEF Base, PTypes, CallsOK, CallRec
  <1>a. lost' \in {lost, lost + io[t].done} BY Zenon DEF SpliceSleep
  <1>b. lost' \in Nat BY <1>0, <1>a
  <1>1. Quietly(t) /\ io[t].op \in Waiters /\ PTypes /\ EndsExact /\ t \in IoThreads
    BY <1>b, LookQuietly, Zenon DEF SpliceSleep
  <1>2. io[t].op = "splice" /\ io[t].fd \in Fds /\ io[t].out \in Fds
    BY <1>1, Zenon DEF SpliceSleep, PTypes, CallsOK, CallOK
  <1>3. CASE Finish(t) BY <1>1, <1>3, QuietFinish
  <1>4. CASE Step(t, "look") BY <1>1, <1>4, QuietStep
  <1>5. CASE ~Finish(t) /\ ~Step(t, "look")
    <2>1. PICK f \in Fds : f = IF io[t].done = 0 THEN io[t].fd ELSE io[t].out BY <1>2, Zenon
    <2>2. PICK d : d = Mine(t)[f] BY Zenon
    <2>3. d # NoFd BY <1>5, <2>1, <2>2, Zenon DEF SpliceSleep
    <2>4. d \in Ends BY <1>1, <2>2, <2>3, SlotType, Zenon DEF PTypes
    <2>5. CASE io[t].done = 0
      <3>1. SleepsAt(t, "r", f, d) BY <1>5, <2>1, <2>2, <2>3, <2>4, <2>5, Zenon DEF SpliceSleep, SleepsAt
      <3> QED BY <1>0, <1>1, <1>2, <2>1, <2>5, <3>1, SleepAtActs
    <2>6. CASE io[t].done # 0
      <3>1. SleepsAt(t, "w", f, d) BY <1>5, <2>1, <2>2, <2>3, <2>4, <2>6, Zenon DEF SpliceSleep, SleepsAt
      <3> QED BY <1>0, <1>1, <1>2, <2>1, <2>6, <3>1, SleepAtActs, Zenon
    <2> QED BY <2>5, <2>6, Zenon
  <1> QED BY <1>3, <1>4, <1>5

(* poll_wait_keys() of one descriptor                                      *)
LEMMA PollKeysFit ==
  ASSUME NEW t \in IoThreads, TablesOK, NEW w \in Asks, NEW d \in Ends, d = Mine(t)[w.fd]
  PROVE  KeysFit(PollKeys(t, {w}), w, d)
  <1>1. w.rd \in BOOLEAN /\ w.wr \in BOOLEAN BY Zenon DEF Asks
  <1> DEFINE un == \/ PollErr(d) \/ PollHup(d)
                   \/ w.rd /\ ~PollRead(d) /\ d.end = "w"
                   \/ w.wr /\ ~PollWrite(d) /\ d.end = "r"
                   \/ ~w.rd /\ ~w.wr
             R == {v \in {w} : v.rd /\ ~PollRead(Mine(t)[v.fd])}
             W == {v \in {w} : v.wr /\ ~PollWrite(Mine(t)[v.fd])}
             keys == {<<"r", Mine(t)[v.fd].obj>> : v \in R} \cup {<<"w", Mine(t)[v.fd].obj>> : v \in W}
  <1>2. PollKeys(t, {w}) = IF un THEN {} ELSE keys BY EndsType, Zenon DEF PollKeys
  <1>3. CASE un BY <1>2, <1>3, Zenon DEF KeysFit
  <1>4. CASE ~un
    <2>1. PollKeys(t, {w}) = keys BY <1>2, <1>4, Zenon
    <2>2. d.end \in {"r", "w", "e"} BY EndsType, Zenon
    <2>3. CASE w.rd /\ w.wr
      <3>1. d.end = "w" => PollRead(d) BY <1>4, <2>3, Zenon
      <3>2. d.end = "r" => PollWrite(d) BY <1>4, <2>3, Zenon
      <3>3. d.end = "w" => ~PollRead(d) BY Zenon DEF PollRead
      <3>4. d.end = "r" => ~PollWrite(d) BY Zenon DEF PollWrite
      <3>5. d.end = "e" BY <2>2, <3>1, <3>2, <3>3, <3>4, Zenon
      <3> QED BY <2>3, <3>5, Zenon DEF KeysFit
    <2>4. CASE w.rd /\ ~w.wr
      <3>1. W = {} BY <2>4, Zenon
      <3>2. d.end = "w" => ~PollRead(d) BY DEF PollRead
      <3>3. d.end # "w" BY <1>4, <2>4, <3>2, Zenon
      <3>4. CASE PollRead(d)
        <4>1. R = {} BY <3>4, Zenon
        <4> QED BY <2>1, <3>1, <4>1, Zenon DEF KeysFit
      <3>5. CASE ~PollRead(d)
        <4>1. R = {w} BY <2>4, <3>5, Zenon
        <4>2. keys = {<<"r", d.obj>>} BY <3>1, <4>1, Zenon
        <4> QED BY <2>1, <2>2, <2>4, <3>3, <4>2, Zenon DEF KeysFit
      <3> QED BY <3>4, <3>5, Zenon
    <2>5. CASE w.wr /\ ~w.rd
      <3>1. R = {} BY <2>5, Zenon
      <3>2. d.end = "r" => ~PollWrite(d) BY DEF PollWrite
      <3>3. d.end # "r" BY <1>4, <2>5, <3>2, Zenon
      <3>4. CASE PollWrite(d)
        <4>1. W = {} BY <3>4, Zenon
        <4> QED BY <2>1, <3>1, <4>1, Zenon DEF KeysFit
      <3>5. CASE ~PollWrite(d)
        <4>1. W = {w} BY <2>5, <3>5, Zenon
        <4>2. keys = {<<"w", d.obj>>} BY <3>1, <4>1, Zenon
        <4> QED BY <2>1, <2>2, <2>5, <3>3, <4>2, Zenon DEF KeysFit
      <3> QED BY <3>4, <3>5
    <2> QED BY <1>1, <1>4, <2>3, <2>4, <2>5, Zenon
  <1> QED BY <1>3, <1>4, Zenon

LEMMA PollKeysType ==
  ASSUME NEW t \in IoThreads, TablesOK, NEW req \in SUBSET Asks
  PROVE  PollKeys(t, req) \in SUBSET IoKeys
  <1>1. CASE \E w \in req : Mine(t)[w.fd] = NoFd BY <1>1, Zenon DEF PollKeys
  <1>2. CASE \A w \in req : Mine(t)[w.fd] # NoFd
    <2>1. ASSUME NEW w \in req
          PROVE  <<"r", Mine(t)[w.fd].obj>> \in IoKeys /\ <<"w", Mine(t)[w.fd].obj>> \in IoKeys
      <3>1. w.fd \in Fds BY Zenon DEF Asks
      <3>2. Mine(t)[w.fd] \in Ends BY <1>2, <3>1, SlotType, Zenon
      <3> QED BY <3>2, EndsType, Zenon
    <2> QED BY <2>1, Zenon DEF PollKeys
  <1> QED BY <1>1, <1>2, Zenon

LEMMA PollCollectActs ==
  ASSUME NEW t, Base(t), PollCollect(t)
  PROVE  Acts(t)
  <1>0. lost' \in Nat BY Zenon DEF Base, PTypes, PollCollect
  <1>1. Quietly(t) /\ io[t].op \in Waiters /\ PTypes /\ EndsExact /\ t \in IoThreads
    BY <1>0, LookQuietly, Zenon DEF PollCollect
  <1>2. /\ io[t] \in CallRec /\ CallOK(io[t]) /\ io[t].op = "poll" /\ io[t].req \in SUBSET Asks
    BY <1>1, Zenon DEF PTypes, CallsOK, CallOK, PollCollect
  <1>3. PICK keys : keys = PollKeys(t, io[t].req) BY Zenon
  <1>4. keys \in SUBSET IoKeys BY <1>1, <1>2, <1>3, PollKeysType, Zenon DEF PTypes
  <1>5. PICK c : c = [io[t] EXCEPT !.pc = "wait", !.keys = keys] BY Zenon
  <1>6. c \in CallRec /\ c.pc = "wait" /\ c.op = "poll" /\ c.keys = keys /\ c.req = io[t].req
    BY <1>2, <1>4, <1>5, Zenon DEF CallRec
  <1>7. CallOK(c) BY <1>2, <1>5, <1>6, Zenon DEF CallOK, Waiters
  <1>8. IoMoves(t, c) BY <1>3, <1>5, <1>6, <1>7, Zenon DEF IoMoves, PollCollect
  <1>9. io'[t] = c BY <1>1, <1>8, Moved, Zenon DEF PTypes
  <1>10. Fits(t)'
    <2> SUFFICES ASSUME NEW w, io[t].req = {w}, NEW d, d = Mine(t)[w.fd], d # NoFd
                 PROVE  KeysFit(keys, w, d)
      BY <1>1, <1>6, <1>9 DEF Fits, KeysStay, Mine, Quietly, KeysFit
    <2>1. w \in Asks /\ w.fd \in Fds BY <1>2 DEF Asks
    <2>2. d \in Ends BY <1>1, <2>1, SlotType, Zenon DEF PTypes
    <2> QED BY <1>1, <1>3, <2>1, <2>2, PollKeysFit, Zenon DEF PTypes
  <1> QED BY <1>1, <1>6, <1>8, <1>10, QuietActs, Zenon

LEMMA PollSleepActs ==
  ASSUME NEW t, Base(t), PollSleep(t)
  PROVE  Acts(t)
  <1>0. lost' \in Nat BY Zenon DEF Base, PTypes, PollSleep
  <1>1. Quietly(t) /\ io[t].op \in Waiters /\ PTypes /\ EndsExact /\ t \in IoThreads
    BY <1>0, LookQuietly, Zenon DEF PollSleep
  <1>2. CASE PollReady(t, io[t].req)
    <2>1. Step(t, "look") BY <1>2, Zenon DEF PollSleep
    <2> QED BY <1>1, <2>1, QuietStep, Zenon
  <1>3. CASE ~PollReady(t, io[t].req)
    <2>1. Step(t, "asleep") /\ io[t].op = "poll" /\ io[t].pc = "wait" BY <1>3, Zenon DEF PollSleep
    <2>2. PICK c : IoMoves(t, c) /\ c.pc = "asleep" /\ c.op = "poll"
      BY <1>1, <2>1, StepMoves DEF PTypes
    <2>3. io'[t] = [io[t] EXCEPT !.pc = "asleep"] /\ io[t] \in CallRec
      BY <1>1, <2>1, Zenon DEF Step, PTypes, CallsOK
    <2>4. io'[t].op = "poll" /\ io'[t].req = io[t].req /\ io'[t].keys = io[t].keys
      BY <2>1, <2>3, Zenon DEF CallRec
    <2>5. KeysStay(t)' => PollHeld(t)'
      <3> SUFFICES ASSUME KeysStay(t), NEW w \in io[t].req, NEW d, d = Mine(t)[w.fd]
                   PROVE  d # NoFd /\ ~Ready(d, w) /\ KeysFit(io[t].keys, w, d)
        BY <1>1, <2>4, ZenonT(30) DEF KeysStay, PollHeld, Mine, Quietly, Ready, PollRead, PollWrite, PollErr,
                          PollHup, KeysFit
      <3>1. d # NoFd /\ ~Ready(d, w) BY <1>3, Zenon DEF PollReady
      <3>2. Fits(t) BY <1>1, Zenon DEF Base, Collected
      <3> QED BY <2>1, <3>1, <3>2, Zenon DEF Fits
    <2>6. Held(t)' BY <2>4, <2>5, Zenon DEF Held
    <2> QED BY <1>1, <2>2, <2>6, QuietSleep, Zenon
  <1> QED BY <1>2, <1>3, Zenon

LEMMA SelectSleepActs ==
  ASSUME NEW t, Base(t), SelectSleep(t)
  PROVE  Acts(t)
  <1>0. lost' \in Nat BY Zenon DEF Base, PTypes, SelectSleep
  <1>1. Quietly(t) /\ io[t].op \in Waiters /\ PTypes /\ EndsExact /\ t \in IoThreads
    BY <1>0, LookQuietly, Zenon DEF SelectSleep
  <1>2. CASE Finish(t) BY <1>1, <1>2, QuietFinish
  <1>3. CASE Step(t, "look") BY <1>1, <1>3, QuietStep
  <1>4. CASE ~Finish(t) /\ ~Step(t, "look")
    <2>1. /\ Step(t, "asleep") /\ io[t].op = "select" /\ io[t].pc = "wait"
          /\ ~SelectReady(t, io[t].req) /\ \A w \in io[t].req : Mine(t)[w.fd] # NoFd
      BY <1>4, Zenon DEF SelectSleep
    <2>2. PICK c : IoMoves(t, c) /\ c.pc = "asleep" /\ c.op = "select"
      BY <1>1, <2>1, StepMoves DEF PTypes
    <2>3. io'[t] = [io[t] EXCEPT !.pc = "asleep"] /\ io[t] \in CallRec
      BY <1>1, <2>1, Zenon DEF Step, PTypes, CallsOK
    <2>4. io'[t].op = "select" /\ io'[t].req = io[t].req
      BY <2>1, <2>3, Zenon DEF CallRec
    <2>5. SelectHeld(t)'
      <3> SUFFICES ASSUME NEW w \in io[t].req, NEW d, d = Mine(t)[w.fd]
                   PROVE  d # NoFd /\ ~(w.rd /\ PollRead(d)) /\ ~(w.wr /\ PollWrite(d))
        BY <1>1, <2>4, Zenon DEF SelectHeld, Mine, Quietly, PollRead, PollWrite
      <3> QED BY <2>1, Zenon DEF SelectReady
    <2>6. Held(t)' BY <2>4, <2>5, Zenon DEF Held
    <2> QED BY <1>1, <2>2, <2>6, QuietSleep, Zenon
  <1> QED BY <1>2, <1>3, <1>4

LEMMA EpollSleepActs ==
  ASSUME NEW t, Base(t), EpollSleep(t)
  PROVE  Acts(t)
  <1>0. lost' \in Nat BY Zenon DEF Base, PTypes, EpollSleep
  <1>1. Quietly(t) /\ io[t].op \in Waiters /\ PTypes /\ EndsExact /\ t \in IoThreads
    BY <1>0, LookQuietly, Zenon DEF EpollSleep
  <1>2. CASE EpollReady
    <2>1. Step(t, "look") /\ io[t].op = "epoll" BY <1>2, Zenon DEF EpollSleep, Step
    <2> QED BY <1>1, <2>1, QuietStep, Zenon
  <1>3. CASE ~EpollReady
    <2>1. io' = [io EXCEPT ![t].pc = "asleep", ![t].req = watch] /\ io[t].op = "epoll"
      BY <1>3, Zenon DEF EpollSleep
    <2>2. io[t] \in CallRec /\ CallOK(io[t]) /\ watch \in SUBSET Interests
      BY <1>1, Zenon DEF PTypes, CallsOK, WatchOK
    <2>3. PICK c : c = [io[t] EXCEPT !.pc = "asleep", !.req = watch] BY Zenon
    <2>4. c \in CallRec /\ c.pc = "asleep" /\ c.op = "epoll" /\ c.req = watch
      BY <2>1, <2>2, <2>3, Zenon DEF CallRec
    <2>5. CallOK(c) BY <2>1, <2>2, <2>3, <2>4 DEF CallOK, Waiters
    <2>6. IoMoves(t, c) BY <2>1, <2>3, <2>4, <2>5, Zenon DEF IoMoves
    <2>7. io'[t] = c BY <1>1, <2>6, Moved DEF PTypes
    <2>8. EpollHeld(t)'
      <3> SUFFICES ASSUME NEW w \in watch PROVE ~Ready(w.desc, w)
        BY <1>1, <2>4, <2>7, Zenon DEF EpollHeld, Quietly, Ready, PollRead, PollWrite, PollErr, PollHup
      <3> QED BY <1>3, Zenon DEF EpollReady
    <2>9. Held(t)' BY <2>4, <2>7, <2>8, Zenon DEF Held
    <2> QED BY <1>1, <2>4, <2>6, <2>9, QuietSleep, Zenon
  <1> QED BY <1>2, <1>3, Zenon

-----------------------------------------------------------------------------
(* Reading and writing *)

(* the call of t goes on to wake the key k, or is over                     *)
WakesNext(t, k) == io' = [io EXCEPT ![t].pc = "wake", ![t].wk = {k}, ![t].then = "idle"]

LEMMA WakeMoves ==
  ASSUME NEW t, Base(t), NEW k \in IoKeys, WakesNext(t, k)
  PROVE  \E c : IoMoves(t, c) /\ c.pc = "wake" /\ Told(t, k)
  <1>1. io[t] \in CallRec /\ CallOK(io[t]) /\ t \in IoThreads BY Zenon DEF Base, PTypes, CallsOK
  <1>2. PICK c : c = [io[t] EXCEPT !.pc = "wake", !.wk = {k}, !.then = "idle"] BY Zenon
  <1>3. c \in CallRec /\ c.pc = "wake" /\ c.wk = {k} /\ c.then = "idle" BY <1>1, <1>2, Zenon DEF CallRec
  <1>4. CallOK(c) BY <1>1, <1>2, <1>3 DEF CallOK, CallRec
  <1>5. io' = [io EXCEPT ![t] = c] BY <1>2, Zenon DEF WakesNext
  <1>6. IoMoves(t, c) BY <1>3, <1>4, <1>5, Zenon DEF IoMoves
  <1>7. io'[t] = c BY <1>1, <1>6, Moved, Zenon DEF Base, PTypes
  <1> QED BY <1>3, <1>6, <1>7, Zenon DEF Told

LEMMA FinishMoves ==
  ASSUME NEW t, Finish(t)
  PROVE  \E c : IoMoves(t, c) /\ c.pc = "idle"
  <1>1. IoMoves(t, IoIdle) BY IdleCall, Zenon DEF Finish, IoMoves
  <1>2. IoIdle.pc = "idle" BY Zenon DEF IoIdle
  <1> QED BY <1>1, <1>2, Zenon

LEMMA Drained ==
  ASSUME NEW l \in 0..PipeCapacity, NEW m \in Nat, m <= l
  PROVE  l - m \in 0..PipeCapacity /\ (l = 0 => l - m = 0)
  BY PipeSizesAssumption

LEMMA Filled ==
  ASSUME NEW l \in 0..PipeCapacity, NEW m \in Nat, m <= PipeCapacity - l
  PROVE  l + m \in 0..PipeCapacity /\ (l = PipeCapacity => l + m = PipeCapacity)
  BY PipeSizesAssumption

LEMMA ReadPipe ==
  ASSUME NEW t, Base(t), TryRead(t), NEW d \in Ends, d = Mine(t)[io[t].fd], d.end = "r",
         pipe[d.obj].len > 0
  PROVE  Acts(t)
  <1>0. PTypes /\ EndsExact /\ t \in IoThreads BY Zenon DEF Base
  <1>1. d # NoFd /\ d.obj \in PipeIds /\ <<"w", d.obj>> \in IoKeys BY EndsType, Zenon
  <1>2. /\ pipe[d.obj].len \in 0..PipeCapacity /\ pipe[d.obj].len \in Nat /\ io[t].n \in Nat
        /\ PipeCapacity \in Nat
    BY <1>0, <1>1, PipeSizes, CallSizes, Zenon
  <1>3. /\ pipe' = [pipe EXCEPT ![d.obj].len = pipe[d.obj].len - AtMost(io[t].n, pipe[d.obj].len)]
        /\ After(t, ReadWakes(pipe[d.obj], io[t].n), {<<"w", d.obj>>}, "idle")
        /\ io[t].pc = "look" /\ UNCHANGED <<event, fdt, watch, lost>>
    <2>1. pipe[d.obj].len # 0 BY <1>2, Positive, Zenon
    <2> QED BY <1>1, <2>1, Zenon DEF TryRead
  <1>4. \/ WakesNext(t, <<"w", d.obj>>)
        \/ ~(pipe[d.obj].len = PipeCapacity /\ io[t].n > 0) /\ Finish(t)
    BY <1>3, Zenon DEF After, ReadWakes, WakesNext
  <1>5. PICK n : n = pipe[d.obj].len - AtMost(io[t].n, pipe[d.obj].len) BY Zenon
  <1>6. n \in 0..PipeCapacity /\ (pipe[d.obj].len # 0 \/ n = 0)
    <2>1. PICK m \in Nat : m = AtMost(io[t].n, pipe[d.obj].len) /\ m <= pipe[d.obj].len
      BY <1>2, LeastOfTwo, Zenon
    <2>2. n = pipe[d.obj].len - m BY <1>5, <2>1, Zenon
    <2> QED BY <1>2, <2>1, <2>2, Drained, Zenon
  <1>7. pipe[d.obj].len = PipeCapacity /\ n # PipeCapacity => io[t].n > 0
    BY <1>2, <1>5, LeastOfTwo
  <1>8. CASE WakesNext(t, <<"w", d.obj>>)
    <2>1. PICK c : IoMoves(t, c) /\ c.pc = "wake" /\ Told(t, <<"w", d.obj>>)
      BY <1>1, <1>8, WakeMoves, Zenon
    <2> QED BY <1>0, <1>1, <1>3, <1>5, <1>6, <2>1, BufferActs, Zenon
  <1>9. CASE ~(pipe[d.obj].len = PipeCapacity /\ io[t].n > 0) /\ Finish(t)
    <2>1. PICK c : IoMoves(t, c) /\ c.pc = "idle" BY <1>9, FinishMoves, Zenon
    <2>2. ~(pipe[d.obj].len = PipeCapacity /\ n # PipeCapacity) BY <1>7, <1>9, Zenon
    <2> QED BY <1>0, <1>1, <1>3, <1>5, <1>6, <2>1, <2>2, BufferActs, Zenon
  <1> QED BY <1>4, <1>8, <1>9, Zenon

LEMMA ReadEvent ==
  ASSUME NEW t, Base(t), TryRead(t), NEW d \in Ends, d = Mine(t)[io[t].fd], d.end = "e",
         event[d.obj] # 0
  PROVE  Acts(t)
  <1>0. PTypes /\ EndsExact /\ t \in IoThreads BY Zenon DEF Base
  <1>1. PICK v : v = IF d.obj \in Semaphores THEN event[d.obj] - 1 ELSE 0 BY Zenon
  <1>2. /\ event' = [event EXCEPT ![d.obj] = v]
        /\ WakesNext(t, <<"w", d.obj>>)
        /\ io[t].pc = "look" /\ UNCHANGED <<pipe, fdt, watch, lost>>
    BY <1>1, EndsType, Zenon DEF TryRead, After, WakesNext
  <1>3. d.obj \in EventFds /\ event[d.obj] \in 0..EventMax /\ <<"w", d.obj>> \in IoKeys
    BY <1>0, EndsType, Zenon DEF PTypes, EventsOK
  <1>4. v \in 0..EventMax BY <1>1, <1>3, EventTaken, Zenon
  <1>5. PICK c : IoMoves(t, c) /\ c.pc = "wake" /\ Told(t, <<"w", d.obj>>)
    BY <1>2, <1>3, WakeMoves, Zenon
  <1> QED BY <1>0, <1>2, <1>3, <1>4, <1>5, EventActs, Zenon

LEMMA TryReadActs ==
  ASSUME NEW t, Base(t), TryRead(t)
  PROVE  Acts(t)
  <1>0. PTypes /\ EndsExact /\ t \in IoThreads /\ lost \in Nat BY Zenon DEF Base, PTypes
  <1>1. io[t].op = "read" /\ io[t].pc = "look" /\ io[t].fd \in Fds /\ UNCHANGED <<fdt, watch, lost>>
    BY <1>0, Zenon DEF TryRead, PTypes, CallsOK, CallOK
  <1>2. PICK d : d = Mine(t)[io[t].fd] OBVIOUS
  <1>3. CASE (Finish(t) \/ Step(t, "wait")) /\ UNCHANGED <<pipe, event>>
    <2>1. Quietly(t) /\ io[t].op \in Waiters BY <1>0, <1>1, <1>3, LookQuietly, Zenon
    <2> QED BY <1>0, <1>1, <1>3, <2>1, QuietFinish, QuietStep, Zenon
  <1>4. CASE ~((Finish(t) \/ Step(t, "wait")) /\ UNCHANGED <<pipe, event>>)
    <2>1. d # NoFd BY <1>2, <1>4, Zenon DEF TryRead
    <2>2. d \in Ends BY <1>0, <1>1, <1>2, <2>1, SlotType, Zenon DEF PTypes
    <2>3. (d.end = "r" /\ pipe[d.obj].len > 0) \/ (d.end = "e" /\ event[d.obj] # 0)
      BY <1>2, <1>4, <2>1, Zenon DEF TryRead
    <2> QED BY <1>2, <2>2, <2>3, ReadPipe, ReadEvent, Zenon
  <1> QED BY <1>3, <1>4, Zenon

(* a write() or splice() goes on to c, through a wakeup of k or not        *)
LEMMA GoesOn ==
  ASSUME NEW t, Base(t), io[t].op \in {"write", "splice"}, NEW c \in CallRec, c.op = io[t].op,
         c.fd = io[t].fd, c.out = io[t].out, c.pc \in {"look", "wake"},
         c.op = "write" => c.done <= c.n, io' = [io EXCEPT ![t] = c], NEW k, c.wk = {k}
  PROVE  IoMoves(t, c) /\ (c.pc = "wake" => Told(t, k))
  <1>1. CallOK(io[t]) /\ t \in IoThreads BY Zenon DEF Base, PTypes, CallsOK
  <1>2. CallOK(c) BY <1>1, Zenon DEF CallOK, Waiters
  <1>3. IoMoves(t, c) BY <1>2, Zenon DEF IoMoves
  <1>4. io'[t] = c BY <1>1, <1>3, Moved, Zenon DEF Base, PTypes
  <1> QED BY <1>3, <1>4, Zenon DEF Told

(* some bytes are added to the pipe o, and its readers are woken if it was *)
(* empty                                                                   *)
LEMMA FillActs ==
  ASSUME NEW t, Base(t), io[t].pc = "look", NEW o \in PipeIds, NEW m \in Nat, m <= Room(pipe[o]),
         pipe' = [pipe EXCEPT ![o].len = pipe[o].len + m], UNCHANGED <<event, fdt, watch, lost>>,
         NEW c, IoMoves(t, c), c.pc \in {"idle", "look", "wake"},
         pipe[o].len = 0 => Told(t, <<"r", o>>)
  PROVE  Acts(t)
  <1>1. PTypes /\ EndsExact /\ t \in IoThreads BY Zenon DEF Base
  <1>2. pipe[o].len \in 0..PipeCapacity BY <1>1, Zenon DEF PTypes, PipesOK, PipeRec
  <1>3. PICK n : n = pipe[o].len + m BY Zenon
  <1>4. n \in 0..PipeCapacity /\ (pipe[o].len = PipeCapacity => n = PipeCapacity)
    BY <1>2, <1>3, Filled, Zenon DEF Room
  <1> QED BY <1>1, <1>3, <1>4, BufferActs, Zenon

(* the number of bytes there is room for                                   *)
LEMMA RoomLeft ==
  ASSUME NEW t, Base(t), NEW o \in PipeIds
  PROVE  Room(pipe[o]) \in Nat /\ pipe[o].len \in Nat /\ (Room(pipe[o]) # 0 <=> pipe[o].len # PipeCapacity)
  <1>1. pipe[o].len \in 0..PipeCapacity BY Zenon DEF Base, PTypes, PipesOK, PipeRec
  <1> QED BY <1>1, PipeSizesAssumption DEF Room

LEMMA WritePipe ==
  ASSUME NEW t, Base(t), TryWrite(t), NEW d \in Ends, d = Mine(t)[io[t].fd], d.end = "w",
         pipe[d.obj].readers # 0, Room(pipe[d.obj]) # 0
  PROVE  Acts(t)
  <1>1. d # NoFd /\ d.obj \in PipeIds /\ <<"r", d.obj>> \in IoKeys BY EndsType, Zenon
  <1>2. /\ t \in IoThreads /\ io[t] \in CallRec /\ io[t].n \in Nat /\ io[t].done \in Nat
        /\ io[t].op = "write" /\ io[t].done <= io[t].n /\ io[t].pc = "look"
    BY Zenon DEF TryWrite, Base, PTypes, CallsOK, CallRec, CallOK
  <1>3. Room(pipe[d.obj]) \in Nat /\ pipe[d.obj].len \in Nat BY <1>1, RoomLeft, Zenon
  <1>4. PICK m : m = AtMost(io[t].n - io[t].done, Room(pipe[d.obj])) BY Zenon
  <1>5. io[t].n - io[t].done \in Nat BY <1>2
  <1>6. m \in Nat /\ m <= Room(pipe[d.obj]) /\ m <= io[t].n - io[t].done
    BY <1>3, <1>4, <1>5, LeastOfTwo, Zenon
  <1>7. /\ pipe' = [pipe EXCEPT ![d.obj].len = pipe[d.obj].len + m]
        /\ IF io[t].done + m = io[t].n
           THEN After(t, WriteWakes(pipe[d.obj]), {<<"r", d.obj>>}, "idle")
           ELSE io' = [io EXCEPT ![t].done = io[t].done + m, ![t].wk = {<<"r", d.obj>>},
                                 ![t].then = "look",
                                 ![t].pc = IF WriteWakes(pipe[d.obj]) THEN "wake" ELSE "look"]
        /\ UNCHANGED <<event, fdt, watch, lost>>
    BY <1>1, <1>4, Zenon DEF TryWrite
  <1>8. CASE io[t].done + m = io[t].n
    <2>1. WakesNext(t, <<"r", d.obj>>) \/ (pipe[d.obj].len # 0 /\ Finish(t))
      BY <1>7, <1>8, Zenon DEF After, WriteWakes, WakesNext
    <2>2. CASE WakesNext(t, <<"r", d.obj>>)
      <3>1. PICK c : IoMoves(t, c) /\ c.pc = "wake" /\ Told(t, <<"r", d.obj>>)
        BY <1>1, <2>2, WakeMoves, Zenon
      <3> QED BY <1>1, <1>2, <1>6, <1>7, <3>1, FillActs, Zenon
    <2>3. CASE pipe[d.obj].len # 0 /\ Finish(t)
      <3>1. PICK c : IoMoves(t, c) /\ c.pc = "idle" BY <2>3, FinishMoves, Zenon
      <3> QED BY <1>1, <1>2, <1>6, <1>7, <2>3, <3>1, FillActs, Zenon
    <2> QED BY <2>1, <2>2, <2>3, Zenon
  <1>9. CASE io[t].done + m # io[t].n
    <2>1. PICK pc \in {"wake", "look"} : pc = IF WriteWakes(pipe[d.obj]) THEN "wake" ELSE "look"
      BY Zenon
    <2>2. PICK a : a = io[t].done + m BY Zenon
    <2>3. a \in Nat /\ a <= io[t].n BY <1>2, <1>6, <2>2
    <2>4. PICK c : c = [io[t] EXCEPT !.done = a, !.wk = {<<"r", d.obj>>}, !.then = "look", !.pc = pc]
      BY Zenon
    <2>5. io' = [io EXCEPT ![t] = c] BY <1>7, <1>9, <2>1, <2>2, <2>4, Zenon
    <2>6. /\ c \in CallRec /\ c.op = io[t].op /\ c.fd = io[t].fd /\ c.out = io[t].out /\ c.pc = pc
          /\ c.done <= c.n /\ c.wk = {<<"r", d.obj>>}
      BY <1>1, <1>2, <2>3, <2>4, Zenon DEF CallRec
    <2>7. IoMoves(t, c) /\ (c.pc = "wake" => Told(t, <<"r", d.obj>>)) BY <1>2, <2>5, <2>6, GoesOn, Zenon
    <2>8. pipe[d.obj].len = 0 => c.pc = "wake" BY <2>1, <2>6, Zenon DEF WriteWakes
    <2> QED BY <1>1, <1>2, <1>6, <1>7, <2>6, <2>7, <2>8, FillActs, Zenon
  <1> QED BY <1>8, <1>9, Zenon

LEMMA WriteEvent ==
  ASSUME NEW t, Base(t), TryWrite(t), NEW d \in Ends, d = Mine(t)[io[t].fd], d.end = "e",
         ~(io[t].n > EventMax - event[d.obj])
  PROVE  Acts(t)
  <1>0. PTypes /\ EndsExact /\ t \in IoThreads BY Zenon DEF Base
  <1>1. d # NoFd /\ d.obj \in EventFds /\ <<"r", d.obj>> \in IoKeys BY EndsType, Zenon
  <1>2. event[d.obj] \in 0..EventMax /\ io[t].n \in Nat
    BY <1>0, <1>1, CallSizes, Zenon DEF PTypes, EventsOK
  <1>3. /\ event' = [event EXCEPT ![d.obj] = event[d.obj] + io[t].n]
        /\ After(t, event[d.obj] = 0, {<<"r", d.obj>>}, "idle")
        /\ io[t].pc = "look" /\ UNCHANGED <<pipe, fdt, watch, lost>>
    BY <1>1, Zenon DEF TryWrite
  <1>4. PICK v : v = event[d.obj] + io[t].n BY Zenon
  <1>5. v \in 0..EventMax /\ ~(v < event[d.obj]) BY <1>2, <1>4, EventSum, Zenon
  <1>6. WakesNext(t, <<"r", d.obj>>) \/ (event[d.obj] # 0 /\ Finish(t))
    BY <1>3, Zenon DEF After, WakesNext
  <1>7. CASE WakesNext(t, <<"r", d.obj>>)
    <2>1. PICK c : IoMoves(t, c) /\ c.pc = "wake" /\ Told(t, <<"r", d.obj>>)
      BY <1>1, <1>7, WakeMoves, Zenon
    <2> QED BY <1>0, <1>1, <1>3, <1>4, <1>5, <2>1, EventActs, Zenon
  <1>8. CASE event[d.obj] # 0 /\ Finish(t)
    <2>1. PICK c : IoMoves(t, c) /\ c.pc = "idle" BY <1>8, FinishMoves, Zenon
    <2> QED BY <1>0, <1>1, <1>3, <1>4, <1>5, <1>8, <2>1, EventActs, Zenon
  <1> QED BY <1>6, <1>7, <1>8, Zenon

LEMMA TryWriteActs ==
  ASSUME NEW t, Base(t), TryWrite(t)
  PROVE  Acts(t)
  <1>0. PTypes /\ EndsExact /\ t \in IoThreads /\ lost \in Nat BY DEF Base, PTypes
  <1>1. io[t].op = "write" /\ io[t].pc = "look" /\ io[t].fd \in Fds /\ UNCHANGED <<fdt, watch, lost>>
    BY <1>0, Zenon DEF TryWrite, PTypes, CallsOK, CallOK
  <1>2. PICK d : d = Mine(t)[io[t].fd] OBVIOUS
  <1>3. CASE (Finish(t) \/ Step(t, "wait")) /\ UNCHANGED <<pipe, event>>
    <2>1. Quietly(t) /\ io[t].op \in Waiters BY <1>0, <1>1, <1>3, LookQuietly, Zenon
    <2> QED BY <1>0, <1>1, <1>3, <2>1, QuietFinish, QuietStep, Zenon
  <1>4. CASE ~((Finish(t) \/ Step(t, "wait")) /\ UNCHANGED <<pipe, event>>)
    <2>1. d # NoFd BY <1>2, <1>4, Zenon DEF TryWrite
    <2>2. d \in Ends BY <1>0, <1>1, <1>2, <2>1, SlotType, Zenon DEF PTypes
    <2>3. \/ d.end = "w" /\ pipe[d.obj].readers # 0 /\ Room(pipe[d.obj]) # 0
          \/ d.end = "e" /\ ~(io[t].n > EventMax - event[d.obj])
      BY <1>2, <1>4, <2>1, Zenon DEF TryWrite
    <2> QED BY <1>2, <2>2, <2>3, WritePipe, WriteEvent, Zenon
  <1> QED BY <1>3, <1>4

LEMMA SpliceTakes ==
  ASSUME NEW t, Base(t), SpliceRead(t), NEW d \in Ends, d = Mine(t)[io[t].fd], d.end = "r",
         pipe[d.obj].len # 0
  PROVE  Acts(t)
  <1>0. PTypes /\ EndsExact /\ t \in IoThreads BY Zenon DEF Base
  <1>1. d # NoFd /\ d.obj \in PipeIds /\ <<"w", d.obj>> \in IoKeys BY EndsType, Zenon
  <1>2. /\ io[t] \in CallRec /\ io[t].n \in Nat /\ io[t].op = "splice" /\ io[t].pc = "look"
    BY <1>0, Zenon DEF SpliceRead, PTypes, CallsOK, CallRec
  <1>3. pipe[d.obj].len \in 0..PipeCapacity /\ pipe[d.obj].len \in Nat
    BY <1>0, <1>1, PipeSizes, Zenon
  <1>4. PICK m : m = AtMost(io[t].n, pipe[d.obj].len) BY Zenon
  <1>5. m \in Nat /\ m <= pipe[d.obj].len /\ m <= io[t].n BY <1>2, <1>3, <1>4, LeastOfTwo, Zenon
  <1>6. /\ pipe' = [pipe EXCEPT ![d.obj].len = pipe[d.obj].len - m]
        /\ io' = [io EXCEPT ![t].done = m, ![t].n = io[t].n - m,
                            ![t].pc = IF ReadWakes(pipe[d.obj], m) THEN "wake" ELSE "look",
                            ![t].wk = {<<"w", d.obj>>}, ![t].then = "look"]
        /\ UNCHANGED <<event, fdt, watch, lost>>
    BY <1>1, <1>4, Zenon DEF SpliceRead
  <1>7. PICK pc \in {"wake", "look"} : pc = IF ReadWakes(pipe[d.obj], m) THEN "wake" ELSE "look"
    BY Zenon
  <1>8. PICK a : a = io[t].n - m BY Zenon
  <1>9. a \in Nat BY <1>2, <1>5, <1>8, Minus, Zenon
  <1>10. PICK c : c = [io[t] EXCEPT !.done = m, !.n = a, !.pc = pc, !.wk = {<<"w", d.obj>>},
                                    !.then = "look"]
    BY Zenon
  <1>11. io' = [io EXCEPT ![t] = c] BY <1>6, <1>7, <1>8, <1>10, Zenon
  <1>12. /\ c \in CallRec /\ c.op = "splice" /\ c.fd = io[t].fd /\ c.out = io[t].out /\ c.pc = pc
         /\ c.wk = {<<"w", d.obj>>}
    BY <1>1, <1>2, <1>5, <1>9, <1>10, Zenon DEF CallRec
  <1>13. IoMoves(t, c) /\ (c.pc = "wake" => Told(t, <<"w", d.obj>>))
    BY <1>2, <1>11, <1>12, GoesOn, Zenon
  <1>14. PICK n : n = pipe[d.obj].len - m BY Zenon
  <1>15. n \in 0..PipeCapacity BY <1>3, <1>5, <1>14, Drained, Zenon
  <1>16. pipe[d.obj].len = PipeCapacity /\ n # PipeCapacity => Told(t, <<"w", d.obj>>)
    <2> SUFFICES ASSUME pipe[d.obj].len = PipeCapacity, n # PipeCapacity PROVE c.pc = "wake"
      BY <1>13, Zenon
    <2>1. m > 0 BY <1>3, <1>5, <1>14
    <2> QED BY <1>7, <1>12, <2>1, Zenon DEF ReadWakes
  <1> QED BY <1>0, <1>1, <1>2, <1>6, <1>12, <1>13, <1>14, <1>15, <1>16, BufferActs, Zenon

LEMMA SpliceReadActs ==
  ASSUME NEW t, Base(t), SpliceRead(t)
  PROVE  Acts(t)
  <1>0. PTypes /\ EndsExact /\ t \in IoThreads /\ lost \in Nat BY DEF Base, PTypes
  <1>1. io[t].op = "splice" /\ io[t].pc = "look" /\ io[t].fd \in Fds /\ UNCHANGED <<event, fdt, watch, lost>>
    BY <1>0, Zenon DEF SpliceRead, PTypes, CallsOK, CallOK
  <1>2. PICK d : d = Mine(t)[io[t].fd] OBVIOUS
  <1>3. CASE (Finish(t) \/ Step(t, "wait")) /\ UNCHANGED pipe
    <2>1. Quietly(t) /\ io[t].op \in Waiters BY <1>0, <1>1, <1>3, LookQuietly, Zenon
    <2> QED BY <1>0, <1>1, <1>3, <2>1, QuietFinish, QuietStep, Zenon
  <1>4. CASE ~((Finish(t) \/ Step(t, "wait")) /\ UNCHANGED pipe)
    <2>1. d # NoFd /\ d.end = "r" /\ pipe[d.obj].len # 0 BY <1>2, <1>4, Zenon DEF SpliceRead
    <2>2. d \in Ends BY <1>0, <1>1, <1>2, <2>1, SlotType, Zenon DEF PTypes
    <2> QED BY <1>2, <2>1, <2>2, SpliceTakes, Zenon
  <1> QED BY <1>3, <1>4, Zenon

LEMMA SpliceGives ==
  ASSUME NEW t, Base(t), SpliceWrite(t), NEW d \in Ends, d = Mine(t)[io[t].out], d.end = "w",
         pipe[d.obj].readers # 0, Room(pipe[d.obj]) # 0
  PROVE  Acts(t)
  <1>1. d # NoFd /\ d.obj \in PipeIds /\ <<"r", d.obj>> \in IoKeys BY EndsType, Zenon
  <1>2. /\ t \in IoThreads /\ io[t] \in CallRec /\ io[t].done \in Nat
        /\ io[t].op = "splice" /\ io[t].pc = "look"
    BY Zenon DEF SpliceWrite, Base, PTypes, CallsOK, CallRec
  <1>3. Room(pipe[d.obj]) \in Nat /\ pipe[d.obj].len \in Nat BY <1>1, RoomLeft, Zenon
  <1>4. PICK m : m = AtMost(io[t].done, Room(pipe[d.obj])) BY Zenon
  <1>5. m \in Nat /\ m <= Room(pipe[d.obj]) /\ m <= io[t].done BY <1>2, <1>3, <1>4, LeastOfTwo, Zenon
  <1>6. PICK then \in {"idle", "look"} : then = IF io[t].done = m /\ io[t].n = 0 THEN "idle" ELSE "look"
    BY Zenon
  <1>7. /\ pipe' = [pipe EXCEPT ![d.obj].len = pipe[d.obj].len + m]
        /\ io' = [io EXCEPT ![t] =
                     IF ~WriteWakes(pipe[d.obj]) /\ then = "idle" THEN IoIdle
                     ELSE [io[t] EXCEPT !.done = io[t].done - m, !.moved = TRUE,
                                        !.wk = {<<"r", d.obj>>}, !.then = then,
                                        !.pc = IF WriteWakes(pipe[d.obj]) THEN "wake" ELSE then]]
        /\ UNCHANGED <<event, fdt, watch, lost>>
    BY <1>1, <1>4, <1>6, Zenon DEF SpliceWrite
  <1>8. CASE ~WriteWakes(pipe[d.obj]) /\ then = "idle"
    <2>1. Finish(t) /\ pipe[d.obj].len # 0 BY <1>7, <1>8, Zenon DEF Finish, WriteWakes
    <2>2. PICK c : IoMoves(t, c) /\ c.pc = "idle" BY <2>1, FinishMoves, Zenon
    <2> QED BY <1>1, <1>2, <1>5, <1>7, <2>1, <2>2, FillActs, Zenon
  <1>9. CASE ~(~WriteWakes(pipe[d.obj]) /\ then = "idle")
    <2>1. PICK pc \in {"wake", "look"} : pc = IF WriteWakes(pipe[d.obj]) THEN "wake" ELSE then
      BY <1>9, Zenon
    <2>2. PICK a : a = io[t].done - m BY Zenon
    <2>3. a \in Nat BY <1>2, <1>5, <2>2, Minus, Zenon
    <2>4. PICK c : c = [io[t] EXCEPT !.done = a, !.moved = TRUE, !.wk = {<<"r", d.obj>>},
                                     !.then = then, !.pc = pc]
      BY Zenon
    <2>5. io' = [io EXCEPT ![t] = c] BY <1>7, <1>9, <2>1, <2>2, <2>4, Zenon
    <2>6. /\ c \in CallRec /\ c.op = "splice" /\ c.fd = io[t].fd /\ c.out = io[t].out /\ c.pc = pc
          /\ c.wk = {<<"r", d.obj>>}
      BY <1>1, <1>2, <2>3, <2>4, ZenonT(30) DEF CallRec
    <2>7. IoMoves(t, c) /\ (c.pc = "wake" => Told(t, <<"r", d.obj>>)) BY <1>2, <2>5, <2>6, GoesOn, Zenon
    <2>8. pipe[d.obj].len = 0 => c.pc = "wake" BY <2>1, <2>6, Zenon DEF WriteWakes
    <2> QED BY <1>1, <1>2, <1>5, <1>7, <2>6, <2>7, <2>8, FillActs, Zenon
  <1> QED BY <1>8, <1>9, Zenon

LEMMA SpliceWriteActs ==
  ASSUME NEW t, Base(t), SpliceWrite(t)
  PROVE  Acts(t)
  <1>0. PTypes /\ EndsExact /\ t \in IoThreads /\ lost \in Nat /\ io[t].done \in Nat
    BY Zenon DEF Base, PTypes, CallsOK, CallRec
  <1>1. io[t].op = "splice" /\ io[t].pc = "look" /\ io[t].out \in Fds /\ UNCHANGED <<event, fdt, watch>>
    BY <1>0, Zenon DEF SpliceWrite, PTypes, CallsOK, CallOK
  <1>2. PICK d : d = Mine(t)[io[t].out] BY Zenon
  <1>3. CASE (Finish(t) \/ Step(t, "wait")) /\ UNCHANGED pipe
    <2>1. lost' \in {lost, lost + io[t].done} BY Zenon DEF SpliceWrite
    <2>2. lost' \in Nat BY <1>0, <2>1
    <2>3. Quietly(t) /\ io[t].op \in Waiters BY <1>0, <1>1, <1>3, <2>2, LookQuietly, Zenon
    <2> QED BY <1>0, <1>1, <1>3, <2>3, QuietFinish, QuietStep, Zenon
  <1>4. CASE ~((Finish(t) \/ Step(t, "wait")) /\ UNCHANGED pipe)
    <2>1. d # NoFd /\ d.end = "w" /\ pipe[d.obj].readers # 0 /\ Room(pipe[d.obj]) # 0
      BY <1>2, <1>4, Zenon DEF SpliceWrite
    <2>2. d \in Ends BY <1>0, <1>1, <1>2, <2>1, SlotType, Zenon DEF PTypes
    <2> QED BY <1>2, <2>1, <2>2, SpliceGives, Zenon
  <1> QED BY <1>3, <1>4

-----------------------------------------------------------------------------
(* What a clone or a drop of a descriptor does to its pipe *)

LEMMA ClonedPipe ==
  ASSUME NEW t \in IoThreads, PipesOK, NEW d \in Ends, pipe' = Cloned(d), event' = event,
         d \in PipeEnds => Counter(d) > 0
  PROVE  PipesOK' /\ RisesTold(t) /\ \A x \in PipeEnds : Counter(x)' = Counter(x) + Same(x, d)
  <1>1. CASE d.end = "e"
    <2>1. pipe' = pipe BY <1>1, EndsType, Zenon DEF Cloned
    <2>2. \A x \in PipeEnds : x # d BY <1>1, Zenon DEF PipeEnds
    <2>3. \A x \in PipeEnds : Counter(x) \in Nat BY Zenon DEF PipesOK, PipeRec, Counter, PipeEnds
    <2>4. \A x \in PipeEnds : Counter(x)' = Counter(x) + Same(x, d) BY <2>1, <2>2, <2>3 DEF Counter, Same
    <2> QED BY <2>1, <2>4, NoRise, Zenon DEF PipesOK
  <1>2. CASE d.end = "r"
    <2>1. d \in PipeEnds /\ d.obj \in PipeIds /\ d # NoFd BY <1>2, EndsType, Zenon
    <2>2. pipe' = [pipe EXCEPT ![d.obj].readers = pipe[d.obj].readers + 1]
      BY <1>2, <2>1, Zenon DEF Cloned
    <2>3. pipe[d.obj] \in PipeRec /\ pipe[d.obj].readers > 0 BY <1>2, <2>1, Zenon DEF PipesOK, Counter
    <2>4. /\ pipe'[d.obj] \in PipeRec /\ pipe'[d.obj].readers = pipe[d.obj].readers + 1
          /\ pipe'[d.obj].writers = pipe[d.obj].writers /\ pipe'[d.obj].len = pipe[d.obj].len
          /\ \A p \in PipeIds \ {d.obj} : pipe'[p] = pipe[p]
      BY <2>1, <2>2, <2>3 DEF PipesOK, PipeRec
    <2>5. PipesOK' BY <2>1, <2>2, <2>4, Zenon DEF PipesOK
    <2>6. PipeRise(t, d.obj)
      <3>1. pipe[d.obj].readers \in Nat /\ pipe[d.obj].readers + 1 # 0 BY <2>3 DEF PipeRec
      <3>2. pipe[d.obj].readers # 0 BY <2>3, <3>1, Positive, Zenon
      <3> QED BY <2>4, <3>1, <3>2, Zenon DEF PipeRise
    <2>7. RisesTold(t) BY <2>1, <2>4, <2>6, PipeRisesTold, Zenon
    <2>8. ASSUME NEW x \in PipeEnds PROVE Counter(x)' = Counter(x) + Same(x, d)
      <3>1. Counter(x) \in Nat BY Zenon DEF PipesOK, PipeRec, Counter, PipeEnds
      <3>2. CASE x = d BY <1>2, <2>4, <3>2, Zenon DEF Counter, Same
      <3>3. CASE x # d
        <4>1. x.end # "r" \/ x.obj # d.obj BY <1>2, <2>1, <3>3 DEF PipeEnds
        <4>2. Counter(x)' = Counter(x) BY <2>4, <4>1, Zenon DEF Counter, PipeEnds
        <4> QED BY <3>1, <3>3, <4>2 DEF Same
      <3> QED BY <3>2, <3>3, Zenon
    <2> QED BY <2>5, <2>7, <2>8, Zenon
  <1>3. CASE d.end = "w"
    <2>1. d \in PipeEnds /\ d.obj \in PipeIds /\ d # NoFd BY <1>3, EndsType, Zenon
    <2>2. pipe' = [pipe EXCEPT ![d.obj].writers = pipe[d.obj].writers + 1]
      BY <1>3, <2>1, Zenon DEF Cloned
    <2>3. pipe[d.obj] \in PipeRec /\ pipe[d.obj].writers > 0 BY <1>3, <2>1, Zenon DEF PipesOK, Counter
    <2>4. /\ pipe'[d.obj] \in PipeRec /\ pipe'[d.obj].readers = pipe[d.obj].readers
          /\ pipe'[d.obj].writers = pipe[d.obj].writers + 1 /\ pipe'[d.obj].len = pipe[d.obj].len
          /\ \A p \in PipeIds \ {d.obj} : pipe'[p] = pipe[p]
      BY <2>1, <2>2, <2>3 DEF PipesOK, PipeRec
    <2>5. PipesOK' BY <2>1, <2>2, <2>4, Zenon DEF PipesOK
    <2>6. PipeRise(t, d.obj)
      <3>1. pipe[d.obj].writers \in Nat /\ pipe[d.obj].writers + 1 # 0 BY <2>3 DEF PipeRec
      <3>2. pipe[d.obj].writers # 0 BY <2>3, <3>1, Positive, Zenon
      <3> QED BY <2>4, <3>1, <3>2, Zenon DEF PipeRise
    <2>7. RisesTold(t) BY <2>1, <2>4, <2>6, PipeRisesTold, Zenon
    <2>8. ASSUME NEW x \in PipeEnds PROVE Counter(x)' = Counter(x) + Same(x, d)
      <3>1. Counter(x) \in Nat BY DEF PipesOK, PipeRec, Counter, PipeEnds
      <3>2. CASE x = d BY <1>3, <2>4, <3>2, Zenon DEF Counter, Same
      <3>3. CASE x # d
        <4>1. x.end = "r" \/ x.obj # d.obj BY <1>3, <2>1, <3>3 DEF PipeEnds
        <4>2. Counter(x)' = Counter(x) BY <2>4, <4>1, Zenon DEF Counter, PipeEnds
        <4> QED BY <3>1, <3>3, <4>2 DEF Same
      <3> QED BY <3>2, <3>3
    <2> QED BY <2>5, <2>7, <2>8
  <1> QED BY <1>1, <1>2, <1>3, EndsType, Zenon

LEMMA OwnKeysDropped ==
  ASSUME NEW d \in Ends
  PROVE  OwnKeys(d) \subseteq DropKeys(d) /\ DropKeys(d) \in SUBSET IoKeys
  <1>1. d.end \in {"r", "w", "e"} /\ <<"r", d.obj>> \in IoKeys /\ <<"w", d.obj>> \in IoKeys BY EndsType, Zenon
  <1>2. CASE d.end = "r" BY <1>1, <1>2, Zenon DEF OwnKeys, DropKeys
  <1>3. CASE d.end = "w" BY <1>1, <1>3, Zenon DEF OwnKeys, DropKeys
  <1>4. CASE d.end = "e" BY <1>1, <1>4, Zenon DEF OwnKeys, DropKeys
  <1> QED BY <1>1, <1>2, <1>3, <1>4, Zenon

LEMMA DroppedPipe ==
  ASSUME NEW t \in IoThreads, PipesOK, NEW d \in Ends, event' = event, pipe' = Dropped(d),
         io'[t].pc = "wake", io'[t].wk = DropKeys(d), d \in PipeEnds => Counter(d) > 0
  PROVE  PipesOK' /\ RisesTold(t) /\ \A x \in PipeEnds : Counter(x)' = Counter(x) - Same(x, d)
  <1>1. CASE d.end = "e"
    <2>1. pipe' = pipe BY <1>1, Zenon DEF Dropped
    <2>2. \A x \in PipeEnds : x # d BY <1>1, Zenon DEF PipeEnds
    <2>3. \A x \in PipeEnds : Counter(x) \in Nat BY Zenon DEF PipesOK, PipeRec, Counter, PipeEnds
    <2>4. \A x \in PipeEnds : Counter(x)' = Counter(x) - Same(x, d) BY <2>1, <2>2, <2>3 DEF Counter, Same
    <2> QED BY <2>1, <2>4, NoRise, Zenon DEF PipesOK
  <1>2. CASE d.end = "r"
    <2>1. d \in PipeEnds /\ d.obj \in PipeIds /\ d # NoFd BY <1>2, EndsType, Zenon
    <2>2. pipe' = [pipe EXCEPT ![d.obj].readers = pipe[d.obj].readers - 1] BY <1>2, Zenon DEF Dropped
    <2>3. pipe[d.obj] \in PipeRec /\ pipe[d.obj].readers > 0 BY <1>2, <2>1, Zenon DEF PipesOK, Counter
    <2>4. pipe[d.obj].readers \in Nat /\ pipe[d.obj].readers - 1 \in Nat BY <2>3 DEF PipeRec
    <2>5. /\ pipe'[d.obj] \in PipeRec /\ pipe'[d.obj].readers = pipe[d.obj].readers - 1
          /\ pipe'[d.obj].writers = pipe[d.obj].writers /\ pipe'[d.obj].len = pipe[d.obj].len
          /\ \A p \in PipeIds \ {d.obj} : pipe'[p] = pipe[p]
      BY <2>1, <2>2, <2>3, <2>4 DEF PipesOK, PipeRec
    <2>6. PipesOK' BY <2>1, <2>2, <2>5, Zenon DEF PipesOK
    <2>7. pipe'[d.obj].readers = 0 => Told(t, <<"w", d.obj>>)
      <3> SUFFICES ASSUME pipe'[d.obj].readers = 0 PROVE Told(t, <<"w", d.obj>>) BY Zenon
      <3>1. pipe[d.obj].readers = 1 BY <2>4, <2>5, OneLeft, Zenon
      <3> QED BY <1>2, <3>1, Zenon DEF DropKeys, Told
    <2>8. PipeRise(t, d.obj) BY <2>3, <2>5, <2>7 DEF PipeRise
    <2>9. RisesTold(t) BY <2>1, <2>5, <2>8, PipeRisesTold, Zenon
    <2>10. ASSUME NEW x \in PipeEnds PROVE Counter(x)' = Counter(x) - Same(x, d)
      <3>1. Counter(x) \in Nat BY Zenon DEF PipesOK, PipeRec, Counter, PipeEnds
      <3>2. CASE x = d BY <1>2, <2>5, <3>2, Zenon DEF Counter, Same
      <3>3. CASE x # d
        <4>1. x.end # "r" \/ x.obj # d.obj BY <1>2, <2>1, <3>3 DEF PipeEnds
        <4>2. Counter(x)' = Counter(x) BY <2>5, <4>1, Zenon DEF Counter, PipeEnds
        <4> QED BY <3>1, <3>3, <4>2 DEF Same
      <3> QED BY <3>2, <3>3, Zenon
    <2> QED BY <2>6, <2>9, <2>10, Zenon
  <1>3. CASE d.end = "w"
    <2>1. d \in PipeEnds /\ d.obj \in PipeIds /\ d # NoFd BY <1>3, EndsType, Zenon
    <2>2. pipe' = [pipe EXCEPT ![d.obj].writers = pipe[d.obj].writers - 1] BY <1>3, Zenon DEF Dropped
    <2>3. pipe[d.obj] \in PipeRec /\ pipe[d.obj].writers > 0 BY <1>3, <2>1, Zenon DEF PipesOK, Counter
    <2>4. pipe[d.obj].writers \in Nat /\ pipe[d.obj].writers - 1 \in Nat BY <2>3 DEF PipeRec
    <2>5. /\ pipe'[d.obj] \in PipeRec /\ pipe'[d.obj].writers = pipe[d.obj].writers - 1
          /\ pipe'[d.obj].readers = pipe[d.obj].readers /\ pipe'[d.obj].len = pipe[d.obj].len
          /\ \A p \in PipeIds \ {d.obj} : pipe'[p] = pipe[p]
      BY <2>1, <2>2, <2>3, <2>4 DEF PipesOK, PipeRec
    <2>6. PipesOK' BY <2>1, <2>2, <2>5, Zenon DEF PipesOK
    <2>7. pipe'[d.obj].writers = 0 => Told(t, <<"r", d.obj>>)
      <3> SUFFICES ASSUME pipe'[d.obj].writers = 0 PROVE Told(t, <<"r", d.obj>>) BY Zenon
      <3>1. pipe[d.obj].writers = 1 BY <2>4, <2>5, OneLeft, Zenon
      <3> QED BY <1>3, <3>1, Zenon DEF DropKeys, Told
    <2>8. PipeRise(t, d.obj) BY <2>3, <2>5, <2>7, Zenon DEF PipeRise
    <2>9. RisesTold(t) BY <2>1, <2>5, <2>8, PipeRisesTold, Zenon
    <2>10. ASSUME NEW x \in PipeEnds PROVE Counter(x)' = Counter(x) - Same(x, d)
      <3>1. Counter(x) \in Nat BY DEF PipesOK, PipeRec, Counter, PipeEnds
      <3>2. CASE x = d BY <1>3, <2>5, <3>2, Zenon DEF Counter, Same
      <3>3. CASE x # d
        <4>1. x.end = "r" \/ x.obj # d.obj BY <1>3, <2>1, <3>3 DEF PipeEnds
        <4>2. Counter(x)' = Counter(x) BY <2>5, <4>1, Zenon DEF Counter, PipeEnds
        <4> QED BY <3>1, <3>3, <4>2 DEF Same
      <3> QED BY <3>2, <3>3
    <2> QED BY <2>6, <2>9, <2>10
  <1> QED BY <1>1, <1>2, <1>3, EndsType, Zenon

(* The count of every end moves as its counter does                        *)
LEMMA EndsMove ==
  ASSUME NEW t, Base(t), \A d \in PipeEnds : Count(d)' = Count(d) /\ Counter(d)' = Counter(d)
  PROVE  EndsExact'
  <1>1. \A d \in PipeEnds : Count(d) = Counter(d) BY EndsAreCounted, Zenon DEF Base
  <1>2. (\A d \in PipeEnds : Count(d) = Counter(d))' BY <1>1, Zenon
  <1> QED BY <1>2, EndsAreCounted, PTL

LEMMA EndsGrow ==
  ASSUME NEW t, Base(t), NEW e,
         \A d \in PipeEnds : Count(d)' = Count(d) + Same(d, e) /\ Counter(d)' = Counter(d) + Same(d, e)
  PROVE  EndsExact'
  <1>1. \A d \in PipeEnds : Count(d) = Counter(d) BY EndsAreCounted, Zenon DEF Base
  <1>2. (\A d \in PipeEnds : Count(d) = Counter(d))' BY <1>1, Zenon
  <1> QED BY <1>2, EndsAreCounted, PTL

LEMMA EndsShrink ==
  ASSUME NEW t, Base(t), NEW e,
         \A d \in PipeEnds : Count(d)' = Count(d) - Same(d, e) /\ Counter(d)' = Counter(d) - Same(d, e)
  PROVE  EndsExact'
  <1>1. \A d \in PipeEnds : Count(d) = Counter(d) BY EndsAreCounted, Zenon DEF Base
  <1>2. (\A d \in PipeEnds : Count(d) = Counter(d))' BY <1>1, Zenon
  <1> QED BY <1>2, EndsAreCounted, PTL

(* Every variable but the tables and the interests is as an action of a    *)
(* call that holds a descriptor leaves it                                  *)
LEMMA DescActs ==
  ASSUME NEW t, Base(t), NEW c, IoMoves(t, c), c.pc \in {"idle", "wake", "drop", "add"},
         PipesOK', TablesOK', WatchOK', event' = event, lost' = lost, EndsExact',
         RisesTold(t), SlotsTold(t), WakeKept(t)
  PROVE  Acts(t)
  <1>0. PTypes /\ t \in IoThreads BY Zenon DEF Base
  <1>1. CallsOK' /\ io'[t] = c /\ Others(t) BY <1>0, Moved, Zenon DEF PTypes, Others
  <1>2. EventsOK' /\ lost' \in Nat BY <1>0, Zenon DEF PTypes, EventsOK
  <1>3. Fits(t)' BY <1>0, FitsElsewhere, Zenon
  <1> QED BY <1>1, <1>2, <1>3, Zenon DEF Acts, PTypes

LEMMA PushRefused ==
  ASSUME NEW t, Base(t), io[t].pc = "add", Step(t, "drop"), UNCHANGED <<pipe, event, fdt, watch, lost>>
  PROVE  Acts(t)
  <1>0. PTypes /\ EndsExact /\ t \in IoThreads BY Zenon DEF Base
  <1>1. io[t] \in CallRec /\ CallOK(io[t]) BY <1>0, Zenon DEF PTypes, CallsOK
  <1>2. PICK c : c = [io[t] EXCEPT !.pc = "drop"] BY Zenon
  <1>3. c \in CallRec /\ c.pc = "drop" /\ c.desc = io[t].desc BY <1>1, <1>2, Zenon DEF CallRec
  <1>4. CallOK(c) BY <1>1, <1>2, <1>3, Zenon DEF CallOK, CallRec
  <1>5. IoMoves(t, c) BY <1>2, <1>3, <1>4, Zenon DEF IoMoves, Step
  <1>6. io'[t] = c /\ Others(t) BY <1>0, <1>5, Moved, Zenon DEF PTypes, Others
  <1>7. \A x \in PipeEnds : AtHands(x)' = AtHands(x)
    BY <1>0, <1>3, <1>6, HandsSame, Zenon DEF Others
  <1>8. EndsExact' BY <1>0, <1>7, EndsKept, Zenon
  <1>9. PipesOK' /\ TablesOK' /\ WatchOK'
    BY <1>0, Zenon DEF PTypes, PipesOK, TablesOK, WatchOK, OneWatch
  <1>10. RisesTold(t) BY <1>0, NoRise, Zenon
  <1>11. SlotsTold(t) /\ WakeKept(t) BY Zenon DEF SlotsTold, WakeKept
  <1> QED BY <1>3, <1>5, <1>8, <1>9, <1>10, <1>11, DescActs, Zenon

-----------------------------------------------------------------------------
(* The wakeup itself *)

LEMMA WakeMovesAll ==
  ASSUME CallsOK, NEW t \in IoThreads, WakeIo(t)
  PROVE  /\ CallsOK' /\ io'[t].pc \in {"idle", "look"}
         /\ \A s \in IoThreads \ {t} :
               \/ io'[s] = io[s] /\ ~Wakes(io[t].wk, io[s])
               \/ io[s].pc = "asleep" /\ io'[s].pc = "look" /\ Wakes(io[t].wk, io[s])
  <1>1. \A s \in IoThreads : io[s] \in CallRec /\ CallOK(io[s]) BY Zenon DEF CallsOK
  <1>2. io'[t] = IF io[t].then = "idle" THEN IoIdle ELSE [io[t] EXCEPT !.pc = io[t].then]
    BY Zenon DEF WakeIo
  <1>3. io'[t] \in CallRec /\ CallOK(io'[t]) /\ io'[t].pc \in {"idle", "look"}
    <2>1. CASE io[t].then = "idle" BY <1>2, <2>1, IdleCall DEF IoIdle
    <2>2. CASE io[t].then = "look"
      <3>1. io[t].pc = "wake" BY Zenon DEF WakeIo
      <3>2. PICK c : c = [io[t] EXCEPT !.pc = "look"] BY Zenon
      <3>3. c \in CallRec /\ c.pc = "look" BY <1>1, <3>2 DEF CallRec
      <3>4. CallOK(c) BY <1>1, <2>2, <3>1, <3>2, <3>3 DEF CallOK, CallRec, Waiters
      <3> QED BY <1>2, <2>2, <3>2, <3>3, <3>4, Zenon
    <2> QED BY <1>1, <2>1, <2>2, Zenon DEF CallRec
  <1>4. ASSUME NEW s \in IoThreads \ {t}
        PROVE  /\ io'[s] \in CallRec /\ CallOK(io'[s])
               /\ \/ io'[s] = io[s] /\ ~Wakes(io[t].wk, io[s])
                  \/ io[s].pc = "asleep" /\ io'[s].pc = "look" /\ Wakes(io[t].wk, io[s])
    <2>1. io'[s] = IF Wakes(io[t].wk, io[s]) THEN [io[s] EXCEPT !.pc = "look"] ELSE io[s]
      BY Zenon DEF WakeIo
    <2>2. CASE ~Wakes(io[t].wk, io[s]) BY <1>1, <2>1, <2>2, Zenon
    <2>3. CASE Wakes(io[t].wk, io[s])
      <3>1. io[s].pc = "asleep" BY <2>3, Zenon DEF Wakes
      <3>2. PICK c : c = [io[s] EXCEPT !.pc = "look"] BY Zenon
      <3>3. c \in CallRec /\ c.pc = "look" BY <1>1, <3>2 DEF CallRec
      <3>4. CallOK(c) BY <1>1, <3>1, <3>2, <3>3 DEF CallOK, CallRec
      <3> QED BY <2>1, <2>3, <3>1, <3>2, <3>3, <3>4, Zenon
    <2> QED BY <2>2, <2>3, Zenon
  <1>5. \A s \in IoThreads : io'[s] \in CallRec /\ CallOK(io'[s]) BY <1>3, <1>4, Zenon
  <1>6. io' \in [IoThreads -> CallRec] BY <1>5, Zenon DEF WakeIo
  <1>7. \A s \in IoThreads : CallOK(io[s])' BY <1>5, Zenon DEF CallOK
  <1> QED BY <1>3, <1>4, <1>6, <1>7, Zenon DEF CallsOK

LEMMA WakeInv ==
  ASSUME PipeInv, NEW t \in IoThreads, WakeIo(t)
  PROVE  PipeInv'
  <1>0. UNCHANGED <<pipe, event, fdt, watch, lost>> /\ io[t].pc = "wake" BY Zenon DEF WakeIo
  <1>1. /\ CallsOK' /\ io'[t].pc \in {"idle", "look"}
        /\ \A s \in IoThreads \ {t} :
              \/ io'[s] = io[s] /\ ~Wakes(io[t].wk, io[s])
              \/ io[s].pc = "asleep" /\ io'[s].pc = "look" /\ Wakes(io[t].wk, io[s])
    BY WakeMovesAll, Zenon DEF PipeInv, PTypes
  <1>2. PTypes'
    BY <1>0, <1>1, Zenon DEF PipeInv, PTypes, PipesOK, EventsOK, TablesOK, WatchOK, OneWatch
  <1>3. EndsExact'
    <2>1. ASSUME NEW x \in PipeEnds PROVE AtHands(x)' = AtHands(x)
      BY <1>0, <1>1, Zenon DEF AtHands
    <2> QED BY <1>0, <2>1, EndsKept, Zenon DEF PipeInv
  <1>4. Collected'
    <2> SUFFICES ASSUME NEW s \in IoThreads, io'[s].pc = "wait" PROVE Fits(s)'
      BY Zenon DEF Collected, Fits
    <2>1. io'[s] = io[s] /\ Fits(s) BY <1>1, Zenon DEF PipeInv, Collected
    <2> QED BY <1>0, <2>1, Zenon DEF Fits, KeysStay, Mine, KeysFit
  <1>5. SleepersHeld'
    <2> SUFFICES ASSUME NEW s \in IoThreads, io'[s].pc = "asleep" PROVE Sure(s)' \/ Held(s)'
      BY Zenon DEF SleepersHeld
    <2>1. s # t /\ io'[s] = io[s] /\ ~Wakes(io[t].wk, io[s]) BY <1>1, Zenon
    <2>2. Sure(s) \/ Held(s) BY <2>1, Zenon DEF PipeInv, SleepersHeld
    <2>3. CASE Sure(s)
      <3>1. PICK u \in IoThreads : \/ io[u].pc = "wake" /\ Wakes(io[u].wk, io[s])
                                   \/ io[u].pc = "drop" /\ Wakes(OwnKeys(io[u].desc), io[s])
        BY <2>3, Zenon DEF Sure
      <3>2. u # t BY <1>0, <2>1, <3>1, Zenon
      <3>3. io'[u] = io[u] BY <1>1, <3>1, <3>2, Zenon
      <3> QED BY <2>1, <3>1, <3>3, Zenon DEF Sure, Wakes, OwnKeys
    <2>4. CASE Held(s)
      <3>1. (KeysStay(s)' <=> KeysStay(s)) /\ Mine(s)' = Mine(s) BY <1>0, <2>1, Zenon DEF KeysStay, Mine
      <3>2. /\ \A f : ReadHeld(s, f) => ReadHeld(s, f)'
            /\ \A f : WriteHeld(s, f) => WriteHeld(s, f)'
        BY <1>0, <2>1, <3>1, Zenon DEF ReadHeld, WriteHeld, ReadBlocks, WriteBlocks
      <3>3. SelectHeld(s) => SelectHeld(s)'
        BY <1>0, <2>1, <3>1 DEF SelectHeld, PollRead, PollWrite
      <3>4. PollHeld(s) => PollHeld(s)'
        BY <1>0, <2>1, <3>1 DEF PollHeld, Ready, PollRead, PollWrite, PollErr, PollHup, KeysFit
      <3>5. EpollHeld(s) => EpollHeld(s)'
        BY <1>0, <2>1, Zenon DEF EpollHeld, Ready, PollRead, PollWrite, PollErr, PollHup
      <3>6. Held(s)' BY <2>1, <2>4, <3>1, <3>2, <3>3, <3>4, <3>5, Zenon DEF Held
      <3> QED BY <3>6, Zenon
    <2> QED BY <2>2, <2>3, <2>4, Zenon
  <1> QED BY <1>2, <1>3, <1>4, <1>5, Zenon DEF PipeInv

-----------------------------------------------------------------------------
(* What the invariant gives *)

LEMMA HeldCannotGoOn ==
  ASSUME PTypes, NEW t \in IoThreads, io[t].pc = "asleep", Held(t), io[t].op = "poll" => KeysStay(t)
  PROVE  ~CanGoOn(t)
  <1>0. io[t].op \in Waiters /\ io[t].done \in Nat BY Zenon DEF PTypes, CallsOK, CallOK, CallRec
  <1>1. CASE io[t].op = "read"
    <2>1. ReadHeld(t, io[t].fd) BY <1>1, Zenon DEF Held
    <2> QED BY <1>1, <2>1, Zenon DEF CanGoOn, ReadHeld, ReadGoesOn
  <1>2. CASE io[t].op = "write"
    <2>1. WriteHeld(t, io[t].fd) BY <1>2, Zenon DEF Held
    <2> QED BY <1>2, <2>1, Zenon DEF CanGoOn, WriteHeld, WriteGoesOn
  <1>3. CASE io[t].op = "splice" /\ io[t].done = 0
    <2>1. ReadHeld(t, io[t].fd) BY <1>3, Zenon DEF Held
    <2>2. ~(io[t].done > 0) BY <1>0, <1>3, Positive, Zenon
    <2> QED BY <1>3, <2>1, <2>2, Zenon DEF CanGoOn, ReadHeld, ReadGoesOn
  <1>4. CASE io[t].op = "splice" /\ io[t].done > 0
    <2>1. WriteHeld(t, io[t].out) BY <1>4, Zenon DEF Held
    <2>2. io[t].done # 0 BY <1>0, <1>4, Positive, Zenon
    <2> QED BY <1>4, <2>1, <2>2, Zenon DEF CanGoOn, WriteHeld, WriteGoesOn
  <1>5. CASE io[t].op = "poll"
    <2>1. PollHeld(t) BY <1>5, Zenon DEF Held
    <2>2. ~PollReady(t, io[t].req) BY <2>1, Zenon DEF PollHeld, PollReady
    <2> QED BY <1>5, <2>2, Zenon DEF CanGoOn
  <1>6. CASE io[t].op = "select"
    <2>1. SelectHeld(t) BY <1>6, Zenon DEF Held
    <2>2. ~SelectReady(t, io[t].req) BY <2>1, Zenon DEF SelectHeld, SelectReady
    <2> QED BY <1>6, <2>2, Zenon DEF CanGoOn
  <1>7. CASE io[t].op = "epoll"
    <2>1. EpollHeld(t) BY <1>7, Zenon DEF Held
    <2> QED BY <1>7, <2>1, Zenon DEF CanGoOn, EpollHeld
  <1>8. io[t].op = "splice" => io[t].done = 0 \/ io[t].done > 0 BY <1>0
  <1> QED BY <1>0, <1>1, <1>2, <1>3, <1>4, <1>5, <1>6, <1>7, <1>8, Zenon DEF Waiters

LEMMA PipeInvSafe == PipeInv => PipesSafe
  <1> SUFFICES ASSUME PipeInv PROVE PipesSafe
    BY Zenon
  <1>1. PTypes /\ EndsExact /\ SleepersHeld BY Zenon DEF PipeInv
  <1>2. PipeTypeOK BY <1>1, Zenon DEF PipeTypeOK, PTypes, PipesOK, PipeRec, EventsOK, CallsOK, CallRec
  <1>3. NoStrandedIo
    <2> SUFFICES ASSUME NEW t \in IoThreads, io[t].pc = "asleep", CanGoOn(t),
                        io[t].op = "poll" => KeysStay(t)
                 PROVE  Coming(t)
      BY Zenon DEF NoStrandedIo
    <2>1. ~Held(t) BY <1>1, HeldCannotGoOn, Zenon
    <2>2. Sure(t) BY <1>1, <2>1, Zenon DEF SleepersHeld
    <2>3. PICK s \in IoThreads : \/ io[s].pc = "wake" /\ Wakes(io[s].wk, io[t])
                                 \/ io[s].pc = "drop" /\ Wakes(OwnKeys(io[s].desc), io[t])
      BY <2>2, Zenon DEF Sure
    <2>4. CASE io[s].pc = "wake" /\ Wakes(io[s].wk, io[t]) BY <2>4, Zenon DEF Coming
    <2>5. CASE io[s].pc = "drop" /\ Wakes(OwnKeys(io[s].desc), io[t])
      <3>1. io[s].desc \in Ends BY <1>1, <2>5, Zenon DEF PTypes, CallsOK, CallOK
      <3>2. OwnKeys(io[s].desc) \subseteq DropKeys(io[s].desc) BY <3>1, OwnKeysDropped, Zenon
      <3>3. Wakes(DropKeys(io[s].desc), io[t]) BY <2>5, <3>2, Zenon DEF Wakes
      <3> QED BY <2>5, <3>3, Zenon DEF Coming
    <2> QED BY <2>3, <2>4, <2>5, Zenon
  <1> QED BY <1>1, <1>2, <1>3, Zenon DEF PipesSafe

-----------------------------------------------------------------------------
(* Bytes in the hands of splice() *)

(* the condition of SpliceLoss, for the thread that acts                   *)
LosesRightly(t) ==
    /\ io[t].op = "splice" /\ io'[t].pc = "idle"
    /\ \/ io[t].pc = "asleep"
       \/ LET d == Mine(t)[io[t].out]
          IN  d = NoFd \/ d.end # "w" \/ pipe[d.obj].readers = 0

LEMMA FinishIdles ==
  ASSUME PTypes, NEW t \in IoThreads, Finish(t)
  PROVE  io'[t].pc = "idle"
  <1>1. io \in [IoThreads -> CallRec] BY Zenon DEF PTypes, CallsOK
  <1> QED BY <1>1, Zenon DEF Finish, IoIdle

LEMMA StepLoss ==
  ASSUME PTypes, NEW t \in IoThreads, PipeStep(t), lost' # lost
  PROVE  LosesRightly(t)
  <1>0. lost \in Nat /\ io[t].done \in Nat BY Zenon DEF PTypes, CallsOK, CallRec
  <1>1. CASE EndSleep(t)
    <2>1. Finish(t) /\ io[t].pc = "asleep" BY <1>1, Zenon DEF EndSleep
    <2>2. io[t].op = "splice" BY <1>0, <1>1 DEF EndSleep
    <2> QED BY <2>1, <2>2, FinishIdles, Zenon DEF LosesRightly
  <1>2. CASE SpliceWrite(t)
    <2>1. PICK d : d = Mine(t)[io[t].out] BY Zenon
    <2>2. (d = NoFd \/ d.end # "w" \/ pipe[d.obj].readers = 0) /\ Finish(t)
      BY <1>2, <2>1, Zenon DEF SpliceWrite
    <2>3. io[t].op = "splice" BY <1>2, Zenon DEF SpliceWrite
    <2> QED BY <2>1, <2>2, <2>3, FinishIdles, Zenon DEF LosesRightly
  <1>3. CASE SpliceSleep(t)
    <2>1. PICK d : d = Mine(t)[IF io[t].done = 0 THEN io[t].fd ELSE io[t].out] BY Zenon
    <2>2. d = NoFd /\ Finish(t) /\ lost' = lost + io[t].done BY <1>3, <2>1, Zenon DEF SpliceSleep
    <2>3. io[t].done # 0 BY <1>0, <2>2
    <2>4. Mine(t)[io[t].out] = NoFd BY <2>1, <2>2, <2>3, Zenon
    <2>5. io[t].op = "splice" BY <1>3, Zenon DEF SpliceSleep
    <2> QED BY <2>2, <2>4, <2>5, FinishIdles, Zenon DEF LosesRightly
  <1>4. CASE WakeIo(t) \/ TryRead(t) \/ TryWrite(t) \/ SleepOnFd(t)
    BY <1>4, Zenon DEF WakeIo, TryRead, TryWrite, SleepOnFd
  <1>5. CASE PollLook(t) \/ PollCollect(t) \/ PollSleep(t)
    BY <1>5, Zenon DEF PollLook, PollCollect, PollSleep
  <1>6. CASE SelectLook(t) \/ SelectSleep(t) \/ EpollLook(t) \/ EpollSleep(t)
    BY <1>6, Zenon DEF SelectLook, SelectSleep, EpollLook, EpollSleep
  <1>7. CASE SpliceRead(t) \/ DropDesc(t) \/ CtlPush(t)
    BY <1>7, Zenon DEF SpliceRead, DropDesc, CtlPush
  <1> QED BY <1>1, <1>2, <1>3, <1>4, <1>5, <1>6, <1>7, Zenon DEF PipeStep

LEMMA CallsLoseNothing ==
  ASSUME NEW t \in IoThreads, PipeCall(t)
  PROVE  lost' = lost
  <1>1. CASE EpollCall(t) BY <1>1, Zenon DEF EpollCall, StartIo
  <1>2. ASSUME NEW req \in PollSets, PollCall(t, req) \/ SelectCall(t, req) PROVE lost' = lost
    BY <1>2, Zenon DEF PollCall, SelectCall, StartIo
  <1>3. ASSUME NEW fd \in Fds, PipeClose(t, fd) \/ CtlDel(t, fd) PROVE lost' = lost
    BY <1>3, Zenon DEF PipeClose, CtlDel
  <1>4. ASSUME NEW fd \in Fds, NEW n \in Counts, ReadCall(t, fd, n) \/ WriteCall(t, fd, n) PROVE lost' = lost
    BY <1>4, Zenon DEF ReadCall, WriteCall, StartIo
  <1>5. ASSUME NEW fd \in Fds, NEW new \in Fds, PipeDup(t, fd, new) PROVE lost' = lost
    BY <1>5, Zenon DEF PipeDup
  <1>6. ASSUME NEW fd \in Fds, NEW new \in Fds, NEW n \in Counts, SpliceCall(t, fd, new, n) PROVE lost' = lost
    BY <1>6, Zenon DEF SpliceCall, StartIo
  <1>7. ASSUME NEW fd \in Fds, NEW rd \in BOOLEAN, NEW wr \in BOOLEAN,
               CtlAdd(t, fd, rd, wr) \/ CtlMod(t, fd, rd, wr)
        PROVE  lost' = lost
    BY <1>7, Zenon DEF CtlAdd, CtlMod
  <1> QED BY <1>1, <1>2, <1>3, <1>4, <1>5, <1>6, <1>7, Zenon DEF PipeCall

=============================================================================
