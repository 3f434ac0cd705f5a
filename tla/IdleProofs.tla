----------------------------- MODULE IdleProofs -----------------------------
(***************************************************************************)
(* Proofs about the ready queue and the idle CPUs (IdleCpus), for any      *)
(* number of CPUs and tasks: a queued task is never left to CPUs that all  *)
(* wait for an interrupt nobody has sent, outside the one window in which  *)
(* a CPU takes the interrupt before its wait instruction.                  *)
(***************************************************************************)
EXTENDS IdleCpus, FiniteSetTheorems, SequenceTheorems, WellFoundedInduction, TLAPS

Queued(t) == \E i \in 1..Len(rq) : rq[i] = t

Awake(c) ==
    ic[c].at \in {"look", "run", "prepare", "check", "notify", "send", "notifyall"}

\* Somebody has cleared c's idle bit and is about to interrupt it.
Claimed(c) == \E d \in ICpus : ic[d].at = "send" /\ c \in ic[d].mask

\* The interrupt came after interrupts were enabled and before the wait.
MissedIt(c) == ic[c].at \in {"on", "wait"} /\ c \in lost

Reached(c) == Awake(c) \/ c \in ipis \/ Claimed(c) \/ MissedIt(c)

\* A CPU on its way to the wait instruction has its bit set, or whoever cleared
\* the bit sends an interrupt.
BitOrNews ==
    \A c \in ICpus : ic[c].at \in {"check", "enable", "on", "wait"} =>
        c \in idle \/ c \in ipis \/ Claimed(c) \/ MissedIt(c)

\* A queued task is in sight of a CPU that may run it, or of a notification that
\* is not over: its own, or one to everybody.
InSight(t) ==
    \/ \E c \in its[t].aff : Reached(c)
    \/ \E d \in ICpus : ic[d].at = "notifyall"
    \/ \E d \in ICpus : ic[d].at = "notify" /\ ic[d].mask = its[t].aff \ {d}

QueueInSight == \A t \in ITasks : Queued(t) => InSight(t)

\* The CPUs run different tasks, none of them in the queue.
OnCpu ==
    /\ \A c \in ICpus : /\ ic[c].at \in {"run", "notifyall"} => ic[c].task # NoTask
                        /\ ic[c].task # NoTask => its[ic[c].task].st = "running"
    /\ \A c, d \in ICpus : ic[c].task = ic[d].task /\ ic[c].task # NoTask => c = d

Places ==
    {"look", "run", "prepare", "check", "enable", "on", "wait", "notify", "send", "notifyall"}
IcStates == [at : Places, task : ITasks \cup {NoTask}, mask : SUBSET ICpus]

IdleInv == IdleTypeOK /\ OnCpu /\ BitOrNews /\ QueueInSight

-----------------------------------------------------------------------------
(* Least and greatest elements *)

LEMMA LeastExists ==
  ASSUME NEW S, S \subseteq Nat, S # {}
  PROVE  \E x \in S : \A y \in S : x <= y
  <1>1. PICK x \in S : \A y \in S : ~(<<y, x>> \in OpToRel(<, Nat))
    BY NatLessThanWellFounded, WFMin, Zenon
  <1>2. \A y \in S : <<y, x>> \in OpToRel(<, Nat) <=> y < x
    BY Zenon DEF OpToRel
  <1>3. \A y \in S : x <= y
    <2> TAKE y \in S
    <2>1. ~(y < x) BY <1>1, <1>2, Zenon
    <2>2. x \in Nat /\ y \in Nat BY Zenon
    <2> QED BY <2>1, <2>2
  <1> QED BY <1>3, Zenon

LEMMA GreatestExists ==
  ASSUME NEW S, S \subseteq Nat, S # {}, NEW B \in Nat, \A x \in S : x <= B
  PROVE  \E x \in S : \A y \in S : x >= y
  <1> DEFINE T == {B - x : x \in S}
  <1>1. T \subseteq Nat
    <2> SUFFICES ASSUME NEW x \in S PROVE B - x \in Nat BY Zenon
    <2>1. x \in Nat /\ x <= B BY Zenon
    <2> QED BY <2>1
  <1>2. T # {} BY Zenon
  <1>3. PICK z \in T : \A y \in T : z <= y
    <2> HIDE DEF T
    <2> QED BY <1>1, <1>2, LeastExists, Zenon
  <1>4. PICK x \in S : z = B - x BY Zenon
  <1>5. \A y \in S : x >= y
    <2> TAKE y \in S
    <2>1. B - x <= B - y BY <1>3, <1>4, Zenon
    <2>2. x \in Nat /\ y \in Nat BY Zenon
    <2> QED BY <2>1, <2>2
  <1> QED BY <1>5, Zenon

LEMMA LowestIn ==
  ASSUME NEW S, S \subseteq Nat, S # {}
  PROVE  Lowest(S) \in S
  BY LeastExists, Zenon DEF Lowest

LEMMA HighestIn ==
  ASSUME NEW S, S \subseteq 0..MaxRtPrio, S # {}
  PROVE  Highest(S) \in S
  <1>1. S \subseteq Nat /\ \A x \in S : x <= 99 BY DEF MaxRtPrio
  <1>2. \E x \in S : \A y \in S : x >= y
    BY <1>1, GreatestExists, Zenon
  <1> QED BY <1>2, Zenon DEF Highest

-----------------------------------------------------------------------------
(* What fetch_from_queue() chooses is an entry this CPU may run *)

LEMMA ChosenRunnable ==
  ASSUME IdleTypeOK, NEW c \in ICpus, RunnableOn(c) # {}
  PROVE  Chosen(c) \in RunnableOn(c)
  <1>1. \A i \in RunnableOn(c) : i \in Nat /\ rq[i] \in ITasks /\ Prio(rq[i]) \in 0..MaxRtPrio
    BY DEF IdleTypeOK, RunnableOn, Prio
  <1>2. Levels(c) # {} /\ Levels(c) \subseteq 0..MaxRtPrio
    BY <1>1, Zenon DEF Levels
  <1>3. ASSUME NEW p \in Levels(c) PROVE FirstAt(c, p) \in RunnableOn(c)
    <2> DEFINE S == {i \in RunnableOn(c) : Prio(rq[i]) = p}
    <2>1. S # {} BY <1>3, Zenon DEF Levels
    <2>2. S \subseteq Nat BY <1>1, Zenon
    <2>3. Lowest(S) \in S
      <3> HIDE DEF S
      <3> QED BY <2>1, <2>2, LowestIn, Zenon
    <2> QED BY <2>3, Zenon DEF FirstAt
  <1>4. Highest(Levels(c)) \in Levels(c)
    BY <1>2, HighestIn, Zenon
  <1>5. LowerRt(c) # {} => Highest(LowerRt(c)) \in Levels(c)
    <2>1. LowerRt(c) \subseteq Levels(c) BY Zenon DEF LowerRt
    <2> QED BY <1>2, <2>1, HighestIn, Zenon
  <1> QED BY <1>3, <1>4, <1>5, Zenon DEF Chosen

LEMMA RemovedProps ==
  ASSUME IdleTypeOK, NEW i \in 1..Len(rq)
  PROVE  /\ Removed(i) \in Seq(ITasks)
         /\ IsInjective(Removed(i))
         /\ \A j \in 1..Len(Removed(i)) : \E k \in 1..Len(rq) : k # i /\ Removed(i)[j] = rq[k]
  <1> DEFINE n == Len(rq)
             a == SubSeq(rq, 1, i - 1)
             b == SubSeq(rq, i + 1, n)
             r == a \o b
  <1>1. rq \in Seq(ITasks) /\ n \in Nat /\ \A k \in 1..n : rq[k] \in ITasks
    BY DEF IdleTypeOK
  <1>2. /\ a \in Seq(ITasks) /\ Len(a) = i - 1
        /\ \A j \in 1..(i - 1) : a[j] = rq[j]
    BY <1>1, SubSeqProperties
  <1>3. /\ b \in Seq(ITasks) /\ Len(b) = n - i
        /\ \A j \in 1..(n - i) : b[j] = rq[i + j]
    BY <1>1, SubSeqProperties
  <1> HIDE DEF a, b
  <1>4. /\ r \in Seq(ITasks) /\ Len(r) = n - 1
        /\ \A j \in 1..(n - 1) : r[j] = IF j < i THEN rq[j] ELSE rq[j + 1]
    <2>1. /\ r \in Seq(ITasks) /\ Len(r) = Len(a) + Len(b)
          /\ \A j \in 1..(Len(a) + Len(b)) : r[j] = IF j <= Len(a) THEN a[j] ELSE b[j - Len(a)]
      BY <1>2, <1>3, ConcatProperties, Zenon
    <2> HIDE DEF r, n
    <2>2. i \in Int /\ n \in Int /\ 1 <= i /\ i <= n BY <1>1 DEF n
    <2>3. Len(r) = n - 1 BY <1>2, <1>3, <2>1, <2>2
    <2>4. ASSUME NEW j \in 1..(n - 1), j < i PROVE r[j] = rq[j]
      BY <1>2, <1>3, <2>1, <2>2, <2>4
    <2>5. ASSUME NEW j \in 1..(n - 1), ~(j < i) PROVE r[j] = rq[j + 1]
      <3>1. r[j] = b[j - (i - 1)] BY <1>2, <1>3, <2>1, <2>2, <2>5
      <3>2. j - (i - 1) \in 1..(n - i) /\ i + (j - (i - 1)) = j + 1 BY <2>2, <2>5
      <3> QED BY <1>3, <3>1, <3>2, Zenon
    <2> QED BY <2>1, <2>3, <2>4, <2>5, Zenon
  <1>5. Removed(i) = r BY Zenon DEF Removed, RemoveAt, a, b
  <1> HIDE DEF r
  <1>6. \A j, k \in 1..n : rq[j] = rq[k] => j = k
    BY <1>1 DEF IdleTypeOK, IsInjective
  <1>7. \A j, k \in 1..(n - 1) : r[j] = r[k] => j = k
    BY <1>4, <1>6
  <1>8. IsInjective(r) BY <1>4, <1>7 DEF IsInjective
  <1>9. \A j \in 1..(n - 1) : \E k \in 1..n : k # i /\ r[j] = rq[k]
    BY <1>4
  <1> QED BY <1>4, <1>5, <1>8, <1>9, Zenon

-----------------------------------------------------------------------------
(* Each step keeps the invariant *)

LEMMA IcTyped ==
  ASSUME IdleTypeOK, NEW c \in ICpus, NEW at \in Places
  PROVE  /\ ic \in [ICpus -> IcStates]
         /\ [ic[c] EXCEPT !.at = at] \in IcStates
         /\ [ic[c] EXCEPT !.at = at].at = at
         /\ [ic[c] EXCEPT !.at = at].task = ic[c].task
         /\ [ic[c] EXCEPT !.at = at].mask = ic[c].mask
  <1>1. ic \in [ICpus -> IcStates] BY Zenon DEF IdleTypeOK, IcStates, Places
  <1>2. ic[c] \in IcStates BY <1>1, Zenon
  <1> QED BY <1>1, <1>2, Zenon DEF IcStates

\* Steps that leave the queue and the tasks alone and move c from one place to
\* another keep the types and the assignment of tasks.
LEMMA MoveKeepsTypes ==
  ASSUME IdleInv, NEW c \in ICpus, NEW new,
         ic' = [ic EXCEPT ![c] = new],
         new \in IcStates,
         new.task = ic[c].task, new.at \in {"run", "notifyall"} => new.task # NoTask,
         UNCHANGED <<rq, rtRuns, its>>, idle' \subseteq ICpus, ipis' \subseteq ICpus
  PROVE  IdleTypeOK' /\ OnCpu'
  <1>1. IdleTypeOK' BY Zenon DEF IdleInv, IdleTypeOK, IcStates, Places
  <1>2. \A d \in ICpus : ic'[d].task = ic[d].task
    BY Zenon DEF IdleInv, IdleTypeOK
  <1>3. \A d \in ICpus : ic'[d].at \in {"run", "notifyall"} => ic'[d].task # NoTask
    BY Zenon DEF IdleInv, IdleTypeOK, OnCpu
  <1>4. OnCpu' BY <1>2, <1>3 DEF IdleInv, OnCpu
  <1> QED BY <1>1, <1>4, Zenon

LEMMA Elsewhere ==
  ASSUME IdleTypeOK, NEW c \in ICpus, NEW new, ic' = [ic EXCEPT ![c] = new]
  PROVE  ic'[c] = new /\ \A d \in ICpus \ {c} : ic'[d] = ic[d]
  BY Zenon DEF IdleTypeOK

\* While c moves, the other CPUs on their way to the wait keep their bits or
\* hear of it.
LEMMA BitsKept ==
  ASSUME BitOrNews, NEW c \in ICpus, \A d \in ICpus \ {c} : ic'[d] = ic[d],
         \A d \in ICpus \ {c} : /\ d \in idle => d \in idle' \/ Claimed(d)'
                                /\ d \in ipis => d \in ipis'
                                /\ d \in lost => d \in lost'
                                /\ Claimed(d) => Claimed(d)' \/ d \in ipis',
         ic'[c].at \in {"check", "enable", "on", "wait"}
            => c \in idle' \/ c \in ipis' \/ Claimed(c)' \/ MissedIt(c)'
  PROVE  BitOrNews'
  <1> SUFFICES ASSUME NEW d \in ICpus \ {c}, ic'[d].at \in {"check", "enable", "on", "wait"}
               PROVE  d \in idle' \/ d \in ipis' \/ Claimed(d)' \/ MissedIt(d)'
    BY Zenon DEF BitOrNews
  <1>1. d \in idle \/ d \in ipis \/ Claimed(d) \/ MissedIt(d)
    BY Zenon DEF BitOrNews
  <1>2. MissedIt(d) => MissedIt(d)' BY Zenon DEF MissedIt
  <1> QED BY <1>1, <1>2, Zenon

\* A step that hides no CPU from a task it may run, ends no notification and
\* queues nothing keeps the queue in sight.
LEMMA SightKept ==
  ASSUME IdleTypeOK, QueueInSight,
         \A t \in ITasks : its'[t].aff = its[t].aff,
         \A t \in ITasks : Queued(t)' => Queued(t),
         \A d \in ICpus : \/ Reached(d) => Reached(d)'
                          \/ \A t \in ITasks : Queued(t) => d \notin its[t].aff,
         \A d \in ICpus : ic[d].at = "notifyall" => ic'[d].at = "notifyall",
         \A d \in ICpus : ic[d].at = "notify" => ic'[d].at = "notify" /\ ic'[d].mask = ic[d].mask
  PROVE  QueueInSight'
  <1> SUFFICES ASSUME NEW t \in ITasks, Queued(t)' PROVE InSight(t)'
    BY Zenon DEF QueueInSight
  <1>1. Queued(t) /\ InSight(t) BY Zenon DEF QueueInSight
  <1>2. its[t].aff \subseteq ICpus BY Zenon DEF IdleTypeOK
  <1>3. CASE \E c \in its[t].aff : Reached(c)
    BY <1>1, <1>2, <1>3, Zenon DEF InSight
  <1>4. CASE \E d \in ICpus : ic[d].at = "notifyall"
    BY <1>4, Zenon DEF InSight
  <1>5. CASE \E d \in ICpus : ic[d].at = "notify" /\ ic[d].mask = its[t].aff \ {d}
    BY <1>5, Zenon DEF InSight
  <1> QED BY <1>1, <1>3, <1>4, <1>5, Zenon DEF InSight

\* The two together, for a CPU that is not notifying.
LEMMA QuietMove ==
  ASSUME IdleInv, NEW c \in ICpus, NEW at,
         ic' = [ic EXCEPT ![c].at = at],
         at \in Places,
         at \in {"run", "notifyall"} => ic[c].task # NoTask,
         ic[c].at \notin {"notify", "notifyall"},
         UNCHANGED <<rq, rtRuns, its>>, idle' \subseteq ICpus, ipis' \subseteq ICpus,
         \A d \in ICpus \ {c} : /\ d \in idle => d \in idle'
                                /\ d \in ipis => d \in ipis'
                                /\ d \in lost => d \in lost'
                                /\ Claimed(d) => Claimed(d)' \/ d \in ipis',
         at \in {"check", "enable", "on", "wait"}
            => c \in idle' \/ c \in ipis' \/ Claimed(c)' \/ (at \in {"on", "wait"} /\ c \in lost'),
         \/ Reached(c) => Reached(c)'
         \/ \A t \in ITasks : Queued(t) => c \notin its[t].aff
  PROVE  IdleInv'
  <1>0. IdleTypeOK /\ BitOrNews /\ QueueInSight BY Zenon DEF IdleInv
  <1>1. ic' = [ic EXCEPT ![c] = [ic[c] EXCEPT !.at = at]]
    BY <1>0, Zenon DEF IdleTypeOK
  <1>2. IdleTypeOK' /\ OnCpu'
    <2> DEFINE new == [ic[c] EXCEPT !.at = at]
    <2>1. new \in IcStates /\ new.task = ic[c].task /\ new.at = at
      BY <1>0, IcTyped, Zenon
    <2> HIDE DEF new
    <2> QED BY <1>1, <2>1, MoveKeepsTypes, Zenon DEF new
  <1>3. ic'[c].at = at /\ \A d \in ICpus \ {c} : ic'[d] = ic[d]
    BY <1>0, <1>1, Elsewhere DEF IdleTypeOK
  <1>4. BitOrNews'
    BY <1>0, <1>3, BitsKept, Zenon DEF MissedIt
  <1>5. \A d \in ICpus \ {c} : Reached(d) => Reached(d)'
    BY <1>3, Zenon DEF Reached, Awake, MissedIt
  <1>6. QueueInSight'
    BY <1>0, <1>3, <1>5, SightKept DEF Queued
  <1> QED BY <1>2, <1>4, <1>6, Zenon DEF IdleInv

LEMMA MoveSteps ==
  ASSUME IdleInv, NEW c \in ICpus
  PROVE  /\ PrepareIdle(c) => IdleInv'
         /\ IdleEnable(c) => IdleInv'
         /\ IdleIrq(c) => IdleInv'
         /\ IdleWait(c) => IdleInv'
         /\ IdleEnds(c) => IdleInv'
         /\ IdleTick(c) => IdleInv'
  <1>0. IdleTypeOK BY Zenon DEF IdleInv
  <1>a. ASSUME \/ PrepareIdle(c) \/ IdleEnable(c) \/ IdleIrq(c) \/ IdleWait(c) \/ IdleEnds(c)
               \/ IdleTick(c)
        PROVE  \A d \in ICpus : Claimed(d) <=> Claimed(d)'
    <2>1. ic[c].at # "send" /\ ic'[c].at # "send"
      BY <1>0, <1>a DEF PrepareIdle, IdleEnable, IdleIrq, IdleWait, IdleEnds, IdleTick, Go, IdleTypeOK
    <2>2. \A d \in ICpus \ {c} : ic'[d] = ic[d]
      BY <1>0, <1>a DEF PrepareIdle, IdleEnable, IdleIrq, IdleWait, IdleEnds, IdleTick, Go, IdleTypeOK
    <2> QED BY <2>1, <2>2, Zenon DEF Claimed
  <1>1. ASSUME PrepareIdle(c) PROVE IdleInv'
    <2>1. Reached(c)' BY <1>0, <1>1 DEF PrepareIdle, Go, Reached, Awake, IdleTypeOK
    <2> QED BY <1>0, <1>1, <1>a, <2>1, QuietMove, Zenon DEF Places, PrepareIdle, Go, IdleTypeOK
  <1>2. ASSUME IdleEnable(c) PROVE IdleInv'
    <2>1. c \in idle \/ c \in ipis \/ Claimed(c)
      BY <1>2, Zenon DEF IdleInv, BitOrNews, MissedIt, IdleEnable
    <2>2. Reached(c) => Reached(c)'
      BY <1>0, <1>2, <1>a, Zenon DEF IdleEnable, Go, Reached, Awake, MissedIt, IdleTypeOK
    <2> QED BY <1>0, <1>2, <1>a, <2>1, <2>2, QuietMove, Zenon DEF Places, IdleEnable, Go, IdleTypeOK
  <1>3. ASSUME IdleIrq(c) PROVE IdleInv'
    <2>1. ic' = [ic EXCEPT ![c].at = "on"]
      BY <1>0, <1>3, Zenon DEF IdleIrq, IdleTypeOK
    <2>2. Reached(c)' BY <1>3, Zenon DEF IdleIrq, Reached, MissedIt
    <2> QED BY <1>0, <1>3, <1>a, <2>1, <2>2, QuietMove, ZenonT(30) DEF Places, IdleIrq, IdleTypeOK
  <1>4. ASSUME IdleWait(c) PROVE IdleInv'
    <2>1. c \in idle \/ c \in ipis \/ Claimed(c) \/ c \in lost
      BY <1>4, Zenon DEF IdleInv, BitOrNews, MissedIt, IdleWait
    <2>2. Reached(c) => Reached(c)'
      BY <1>0, <1>4, <1>a, Zenon DEF IdleWait, Go, Reached, Awake, MissedIt, IdleTypeOK
    <2> QED BY <1>0, <1>4, <1>a, <2>1, <2>2, QuietMove, Zenon DEF Places, IdleWait, Go, IdleTypeOK
  <1>5. ASSUME IdleEnds(c) \/ IdleTick(c) PROVE IdleInv'
    <2>1. Reached(c)' BY <1>0, <1>5 DEF IdleEnds, IdleTick, Go, Reached, Awake, IdleTypeOK
    <2> QED BY <1>0, <1>5, <1>a, <2>1, QuietMove, Zenon DEF Places, IdleEnds, IdleTick, Go, IdleTypeOK
  <1> QED BY <1>1, <1>2, <1>3, <1>4, <1>5, Zenon

LEMMA RecheckQueueInv ==
  ASSUME IdleInv, NEW c \in ICpus, RecheckQueue(c)
  PROVE  IdleInv'
  <1>0. IdleTypeOK BY Zenon DEF IdleInv
  <1>1. ic[c].at = "check" /\ UNCHANGED <<rq, rtRuns, its, ipis, lost>>
    BY Zenon DEF RecheckQueue
  <1>2. \A d \in ICpus : Claimed(d) => Claimed(d)'
    BY <1>0, <1>1, Zenon DEF RecheckQueue, Go, Claimed, IdleTypeOK
  <1>3. CASE RunnableOn(c) # {}
    <2>1. ic' = [ic EXCEPT ![c].at = "look"] /\ idle' = idle \ {c}
      BY <1>3, Zenon DEF RecheckQueue, Go
    <2>2. Reached(c)' BY <1>0, <2>1 DEF Reached, Awake, IdleTypeOK
    <2> QED BY <1>0, <1>1, <1>2, <2>1, <2>2, QuietMove, Zenon DEF Places, IdleTypeOK
  <1>4. CASE RunnableOn(c) = {}
    <2>1. ic' = [ic EXCEPT ![c].at = "enable"] /\ idle' = idle
      BY <1>4, Zenon DEF RecheckQueue, Go
    <2>2. \A t \in ITasks : Queued(t) => c \notin its[t].aff
      BY <1>4, Zenon DEF RunnableOn, Queued
    <2>3. c \in idle \/ c \in ipis \/ Claimed(c)
      BY <1>1, Zenon DEF IdleInv, BitOrNews, MissedIt
    <2> QED BY <1>0, <1>1, <1>2, <2>1, <2>2, <2>3, QuietMove, Zenon DEF Places, IdleTypeOK
  <1> QED BY <1>3, <1>4, Zenon

LEMMA SendIpiInv ==
  ASSUME IdleInv, NEW c \in ICpus, SendIpi(c)
  PROVE  IdleInv'
  <1>0. IdleTypeOK BY DEF IdleInv
  <1>a. PICK at \in {"look", "run"} : at = Back(ic[c].task)
    BY Zenon DEF Back
  <1>1. /\ ic[c].at = "send" /\ ipis' = ipis \cup ic[c].mask
        /\ ic' = [ic EXCEPT ![c].at = at] /\ UNCHANGED <<rq, rtRuns, its, idle, lost>>
    BY <1>a, Zenon DEF SendIpi, Go
  <1>2. at = "run" => ic[c].task # NoTask
    BY <1>a, Zenon DEF Back
  <1>3. \A d \in ICpus : Claimed(d) => Claimed(d)' \/ d \in ipis'
    BY <1>0, <1>1, <1>2, Zenon DEF Claimed, IdleTypeOK
  <1>4. Reached(c)' BY <1>0, <1>1, <1>2 DEF Reached, Awake, IdleTypeOK
  <1> QED BY <1>0, <1>1, <1>2, <1>3, <1>4, QuietMove, Zenon DEF Places, IdleTypeOK

\* After notify_runnable() every CPU hears of the queue, whatever the masks are.
LEMMA NotifyAllInv ==
  ASSUME IdleInv, NEW c \in ICpus, NotifyAll(c)
  PROVE  IdleInv'
  <1>0. IdleTypeOK /\ BitOrNews BY Zenon DEF IdleInv
  <1>1. /\ ic[c].at = "notifyall" /\ ipis' = ipis \cup (idle \ {c})
        /\ ic' = [ic EXCEPT ![c] = [ic[c] EXCEPT !.at = "run"]]
        /\ UNCHANGED <<rq, rtRuns, its, idle, lost>>
    BY <1>0, Zenon DEF NotifyAll, Go, IdleTypeOK
  <1>2. IdleTypeOK' /\ OnCpu'
    <2>1. ic[c].task # NoTask BY <1>1, Zenon DEF IdleInv, OnCpu
    <2> DEFINE new == [ic[c] EXCEPT !.at = "run"]
    <2>2. new \in IcStates /\ new.task = ic[c].task /\ new.at = "run"
      BY <1>0, IcTyped, Zenon DEF Places
    <2>3. idle' \subseteq ICpus /\ ipis' \subseteq ICpus BY <1>0, <1>1, Zenon DEF IdleTypeOK
    <2> HIDE DEF new
    <2> QED BY <1>1, <2>1, <2>2, <2>3, MoveKeepsTypes, Zenon DEF new
  <1>3. ic'[c].at = "run" /\ \A d \in ICpus \ {c} : ic'[d] = ic[d]
    BY <1>0, <1>1, Elsewhere DEF IdleTypeOK
  <1>4. \A d \in ICpus : Claimed(d) => Claimed(d)'
    BY <1>1, <1>3, Zenon DEF Claimed
  <1>5. BitOrNews'
    BY <1>0, <1>1, <1>3, <1>4, BitsKept
  <1>6. \A d \in ICpus : Reached(d)'
    <2> SUFFICES ASSUME NEW d \in ICpus \ {c} PROVE Reached(d)'
      BY <1>3, Zenon DEF Reached, Awake
    <2>1. CASE ic[d].at \in {"enable", "on", "wait"}
      <3>1. d \in idle \/ d \in ipis \/ Claimed(d) \/ MissedIt(d)
        BY <1>0, <2>1, Zenon DEF BitOrNews
      <3>2. MissedIt(d) => MissedIt(d)' BY <1>1, <1>3, Zenon DEF MissedIt
      <3> QED BY <1>1, <1>4, <3>1, <3>2, Zenon DEF Reached
    <2>2. CASE ic[d].at \notin {"enable", "on", "wait"}
      BY <1>0, <1>3, <2>2 DEF Reached, Awake, IdleTypeOK
    <2> QED BY <2>1, <2>2, Zenon
  <1>7. \A t \in ITasks : its'[t].aff # {} /\ its'[t].aff \subseteq ICpus
    BY <1>2, Zenon DEF IdleTypeOK
  <1>8. QueueInSight' BY <1>6, <1>7, Zenon DEF QueueInSight, InSight
  <1> QED BY <1>2, <1>5, <1>8, Zenon DEF IdleInv

\* notify_runnable_for(): when no idle CPU of the mask is left, all of them hear
\* of the task already; otherwise the claimed one will.
LEMMA NotifyInv ==
  ASSUME IdleInv, NEW c \in ICpus, Notify(c)
  PROVE  IdleInv'
  <1>0. IdleTypeOK /\ BitOrNews /\ QueueInSight BY Zenon DEF IdleInv
  <1> DEFINE targets == idle \cap ic[c].mask
  <1>1. ic[c].at = "notify" /\ UNCHANGED <<rq, rtRuns, its, ipis, lost>>
    BY Zenon DEF Notify
  <1>2. CASE targets = {}
    <2>a. PICK at \in {"look", "run"} : at = Back(ic[c].task)
      BY DEF Back
    <2> DEFINE new == [ic[c] EXCEPT !.at = at]
    <2>1. ic' = [ic EXCEPT ![c] = new] /\ idle' = idle
      BY <1>0, <1>2, <2>a, Zenon DEF Notify, Go, IdleTypeOK
    <2>2. at = "run" => ic[c].task # NoTask
      BY <2>a DEF Back
    <2>3. new \in IcStates /\ new.task = ic[c].task /\ new.at = at /\ new.at \in {"look", "run"}
      <3>1. at \in Places BY Zenon DEF Places
      <3> QED BY <1>0, <3>1, IcTyped, Zenon
    <2> HIDE DEF new
    <2>4. IdleTypeOK' /\ OnCpu'
      BY <1>0, <1>1, <2>1, <2>2, <2>3, MoveKeepsTypes, Zenon DEF IdleTypeOK
    <2>5. ic'[c] = new /\ \A d \in ICpus \ {c} : ic'[d] = ic[d]
      BY <1>0, <2>1, Elsewhere, Zenon
    <2>6. \A d \in ICpus : Claimed(d) => Claimed(d)'
      BY <1>1, <2>5, Zenon DEF Claimed
    <2>7. BitOrNews'
      BY <1>0, <1>1, <2>1, <2>3, <2>5, <2>6, BitsKept
    <2>8. /\ Reached(c)'
          /\ \A d \in ICpus : Reached(d) => Reached(d)'
      BY <1>1, <2>3, <2>5, <2>6, Zenon DEF Reached, Awake, MissedIt
    <2>9. ASSUME NEW d \in ICpus, d \notin idle PROVE Reached(d)'
      <3>1. CASE ic[d].at \in {"enable", "on", "wait"}
        <4>1. d \in ipis \/ Claimed(d) \/ MissedIt(d)
          BY <1>0, <2>9, <3>1, Zenon DEF BitOrNews
        <4> QED BY <2>8, <4>1, Zenon DEF Reached
      <3>2. CASE ic[d].at \notin {"enable", "on", "wait"}
        <4>1. Awake(d) BY <1>0, <3>2, Zenon DEF Awake, IdleTypeOK
        <4> QED BY <2>8, <4>1, Zenon DEF Reached
      <3> QED BY <3>1, <3>2, Zenon
    <2>10. QueueInSight'
      <3> SUFFICES ASSUME NEW t \in ITasks, Queued(t)' PROVE InSight(t)'
        BY Zenon DEF QueueInSight
      <3>1. InSight(t) BY <1>0, <1>1, Zenon DEF QueueInSight, Queued
      <3>2. its[t].aff \subseteq ICpus /\ its[t].aff # {} /\ its' = its
        BY <1>0, <1>1, Zenon DEF IdleTypeOK
      <3>3. CASE \E d \in its[t].aff : Reached(d)
        BY <2>8, <3>2, <3>3, Zenon DEF InSight
      <3>4. CASE \E d \in ICpus : ic[d].at = "notifyall"
        BY <1>1, <2>5, <3>4, Zenon DEF InSight
      <3>5. CASE \E d \in ICpus : ic[d].at = "notify" /\ ic[d].mask = its[t].aff \ {d}
        <4>1. PICK d \in ICpus : ic[d].at = "notify" /\ ic[d].mask = its[t].aff \ {d}
          BY <3>5, Zenon
        <4>2. CASE d # c BY <2>5, <3>2, <4>1, <4>2, Zenon DEF InSight
        <4>3. CASE d = c
          <5>1. PICK e \in its[t].aff : TRUE BY <3>2, Zenon
          <5>2. e = c \/ e \notin idle BY <1>2, <4>1, <4>3, <5>1, Zenon
          <5>3. Reached(e)' BY <2>8, <2>9, <3>2, <5>1, <5>2
          <5> QED BY <3>2, <5>1, <5>3, Zenon DEF InSight
        <4> QED BY <4>2, <4>3, Zenon
      <3> QED BY <3>1, <3>3, <3>4, <3>5, Zenon DEF InSight
    <2> QED BY <2>4, <2>7, <2>10, Zenon DEF IdleInv
  <1>3. CASE targets # {}
    <2>a. targets \subseteq Nat /\ targets \subseteq ICpus
      BY <1>0, IdleAssumption, Zenon DEF IdleTypeOK
    <2>b. PICK x \in targets : x = Lowest(targets)
      <3> HIDE DEF targets
      <3> QED BY <1>3, <2>a, LowestIn, Zenon
    <2> DEFINE new == [ic[c] EXCEPT !.at = "send", !.mask = {x}]
    <2>1. ic' = [ic EXCEPT ![c] = new] /\ idle' = idle \ {x}
      BY <1>0, <1>3, <2>b, Zenon DEF Notify, IdleTypeOK
    <2>2. x \in idle /\ x \in ic[c].mask /\ x \in ICpus
      BY <2>a, Zenon
    <2>3. new \in IcStates /\ new.task = ic[c].task /\ new.at = "send" /\ new.mask = {x}
      <3>1. ic[c] \in IcStates BY <1>0, IcTyped, Zenon DEF Places
      <3> QED BY <2>2, <3>1, Zenon DEF IcStates, Places
    <2> HIDE DEF new
    <2>4. IdleTypeOK' /\ OnCpu'
      BY <1>0, <1>1, <2>1, <2>3, MoveKeepsTypes, ZenonT(30) DEF IdleTypeOK
    <2>5. ic'[c] = new /\ \A d \in ICpus \ {c} : ic'[d] = ic[d]
      BY <1>0, <2>1, Elsewhere, Zenon
    <2>6. Claimed(x)' /\ \A d \in ICpus : Claimed(d) => Claimed(d)'
      BY <1>1, <2>3, <2>5, Zenon DEF Claimed
    <2>7. BitOrNews'
      BY <1>0, <1>1, <2>1, <2>3, <2>5, <2>6, BitsKept
    <2>8. \A d \in ICpus : Reached(d) => Reached(d)'
      BY <1>1, <2>3, <2>5, <2>6, Zenon DEF Reached, Awake, MissedIt
    <2>9. Reached(x)' BY <2>6, Zenon DEF Reached
    <2>10. QueueInSight'
      <3> SUFFICES ASSUME NEW t \in ITasks, Queued(t)' PROVE InSight(t)'
        BY Zenon DEF QueueInSight
      <3>1. InSight(t) BY <1>0, <1>1, Zenon DEF QueueInSight, Queued
      <3>2. its[t].aff \subseteq ICpus /\ its' = its
        BY <1>0, <1>1, Zenon DEF IdleTypeOK
      <3>3. CASE \E d \in its[t].aff : Reached(d)
        BY <2>8, <3>2, <3>3, Zenon DEF InSight
      <3>4. CASE \E d \in ICpus : ic[d].at = "notifyall"
        BY <1>1, <2>5, <3>4, Zenon DEF InSight
      <3>5. CASE \E d \in ICpus : ic[d].at = "notify" /\ ic[d].mask = its[t].aff \ {d}
        <4>1. PICK d \in ICpus : ic[d].at = "notify" /\ ic[d].mask = its[t].aff \ {d}
          BY <3>5, Zenon
        <4>2. CASE d # c BY <2>5, <3>2, <4>1, <4>2 DEF InSight
        <4>3. CASE d = c
          <5>1. x \in its[t].aff BY <2>2, <4>1, <4>3, Zenon
          <5> QED BY <2>9, <3>2, <5>1, Zenon DEF InSight
        <4> QED BY <4>2, <4>3, Zenon
      <3> QED BY <3>1, <3>3, <3>4, <3>5, Zenon DEF InSight
    <2> QED BY <2>4, <2>7, <2>10 DEF IdleInv
  <1> QED BY <1>2, <1>3, Zenon

\* The choice of fetch_from_queue() leaves the queue to this very CPU: it runs,
\* and will look again.
LEMMA FetchNextInv ==
  ASSUME IdleInv, NEW c \in ICpus, FetchNext(c)
  PROVE  IdleInv'
  <1>0. IdleTypeOK /\ OnCpu /\ BitOrNews /\ QueueInSight BY Zenon DEF IdleInv
  <1>1. ic[c].at = "look" /\ UNCHANGED <<idle, ipis, lost>>
    BY Zenon DEF FetchNext
  <1>2. CASE RunnableOn(c) = {}
    <2>1. ic' = [ic EXCEPT ![c].at = "prepare"] /\ UNCHANGED <<rq, rtRuns, its>>
      BY <1>2, Zenon DEF FetchNext, Go
    <2>2. Reached(c)' BY <1>0, <2>1 DEF Reached, Awake, IdleTypeOK
    <2>3. \A d \in ICpus : Claimed(d) => Claimed(d)'
      BY <1>0, <1>1, <2>1, Zenon DEF Claimed, IdleTypeOK
    <2> QED BY <1>0, <1>1, <2>1, <2>2, <2>3, QuietMove, Zenon DEF Places, IdleTypeOK
  <1>3. CASE RunnableOn(c) # {}
    <2>1. PICK i \in 1..Len(rq) : i = Chosen(c)
      BY <1>0, <1>3, ChosenRunnable, Zenon DEF RunnableOn
    <2>2. PICK t \in ITasks : t = rq[i]
      BY <1>0 DEF IdleTypeOK
    <2>3. /\ rq' = Removed(i)
          /\ rtRuns' \in {0, rtRuns} \/ (rtRuns < RtBudget /\ rtRuns' = rtRuns + 1)
          /\ its' = [its EXCEPT ![t].st = "running"]
          /\ ic' = [ic EXCEPT ![c].at = "run", ![c].task = t]
      BY <1>3, <2>1, <2>2, Zenon DEF FetchNext
    <2>4. its[t].st = "ready" BY <1>0, <2>2, Zenon DEF IdleTypeOK
    <2>5. \A u \in ITasks : Queued(u)' => Queued(u) /\ u # t
      <3>1. \A j \in 1..Len(rq) : rq[j] = t => j = i
        BY <1>0, <2>2 DEF IdleTypeOK, IsInjective
      <3> SUFFICES ASSUME NEW j \in 1..Len(rq'), rq'[j] \in ITasks
                   PROVE  (\E k \in 1..Len(rq) : rq[k] = rq'[j]) /\ rq'[j] # t
        BY Zenon DEF Queued
      <3>2. PICK k \in 1..Len(rq) : k # i /\ rq'[j] = rq[k]
        BY <1>0, <2>3, RemovedProps, Zenon
      <3> QED BY <3>1, <3>2, Zenon
    <2>6. \A d \in ICpus \ {c} : ic'[d] = ic[d]
      BY <1>0, <2>3, Zenon DEF IdleTypeOK
    <2>7. ic'[c].at = "run" /\ ic'[c].task = t /\ ic' \in [ICpus -> IcStates]
      <3>1. ic \in [ICpus -> IcStates] BY <1>0, Zenon DEF IdleTypeOK, IcStates, Places
      <3>2. ic[c] \in IcStates /\ "run" \in Places BY <3>1, Zenon DEF Places
      <3>3. ic' = [ic EXCEPT ![c] = [ic[c] EXCEPT !.at = "run", !.task = t]]
        BY <2>3, <3>1, Zenon
      <3>4. [ic[c] EXCEPT !.at = "run", !.task = t] \in IcStates
        BY <3>2, Zenon DEF IcStates
      <3> QED BY <3>1, <3>2, <3>3, <3>4, Zenon DEF IcStates
    <2>8. \A u \in ITasks : /\ its'[u].aff = its[u].aff
                            /\ u # t => its'[u] = its[u]
                            /\ u = t => its'[u].st = "running"
      BY <1>0, <2>3 DEF IdleTypeOK
    <2>9. IdleTypeOK'
      <3>1. rq' \in Seq(ITasks) /\ IsInjective(rq')
        BY <1>0, <2>3, RemovedProps, Zenon
      <3>2. ASSUME NEW j \in 1..Len(rq') PROVE its'[rq'[j]].st = "ready"
        <4>1. PICK u \in ITasks : u = rq'[j] BY <3>1
        <4>2. Queued(u)' BY <4>1, Zenon DEF Queued
        <4>3. Queued(u) /\ u # t BY <2>5, <4>2, Zenon
        <4>4. its[u].st = "ready" BY <1>0, <4>3, Zenon DEF Queued, IdleTypeOK
        <4>5. its'[u].st = "ready" BY <2>8, <4>3, <4>4, Zenon
        <4> QED BY <4>1, <4>5, Zenon
      <3>4. rtRuns' \in 0..RtBudget
        <4>1. rtRuns \in Nat /\ rtRuns <= RtBudget /\ RtBudget \in Nat
          BY <1>0, IdleAssumption DEF IdleTypeOK
        <4> QED BY <2>3, <4>1
      <3>5. its' \in [ITasks -> [st : {"ready", "running", "blocked"}, aff : (SUBSET ICpus) \ {{}},
                                 prio : 0..MaxRtPrio]]
        <4>1. its \in [ITasks -> [st : {"ready", "running", "blocked"}, aff : (SUBSET ICpus) \ {{}},
                                  prio : 0..MaxRtPrio]]
          BY <1>0, Zenon DEF IdleTypeOK
        <4> HIDE DEF MaxRtPrio
        <4> QED BY <2>3, <4>1, Zenon
      <3>6. ic' \in [ICpus -> [at : {"look", "run", "prepare", "check", "enable", "on", "wait",
                                     "notify", "send", "notifyall"},
                               task : ITasks \cup {NoTask}, mask : SUBSET ICpus]]
        BY <2>7, Zenon DEF IcStates, Places
      <3> QED BY <1>0, <1>1, <3>1, <3>2, <3>4, <3>5, <3>6, Zenon DEF IdleTypeOK
    <2>10. OnCpu'
      <3>1. \A d \in ICpus : ic[d].task # t
        BY <1>0, <2>4, IdleAssumption, Zenon DEF OnCpu
      <3>2. ASSUME NEW d \in ICpus
            PROVE  /\ ic'[d].at \in {"run", "notifyall"} => ic'[d].task # NoTask
                   /\ ic'[d].task # NoTask => its'[ic'[d].task].st = "running"
        <4>1. CASE d = c BY <2>7, <2>8, <4>1, IdleAssumption, Zenon
        <4>2. CASE d # c
          <5>1. ic[d].task \in ITasks \cup {NoTask} BY <1>0, Zenon DEF IdleTypeOK
          <5> QED BY <1>0, <2>6, <2>8, <3>1, <4>2, <5>1 DEF OnCpu
        <4> QED BY <4>1, <4>2, Zenon
      <3>3. \A d, e \in ICpus : ic'[d].task = ic'[e].task /\ ic'[d].task # NoTask => d = e
        BY <1>0, <2>6, <2>7, <3>1 DEF OnCpu
      <3> QED BY <3>2, <3>3, Zenon DEF OnCpu
    <2>11. \A d \in ICpus : Claimed(d) => Claimed(d)'
      BY <1>1, <2>6, Zenon DEF Claimed
    <2>12. BitOrNews' BY <1>0, <1>1, <2>6, <2>7, <2>11, BitsKept, Zenon
    <2>13. \A d \in ICpus : Reached(d) => Reached(d)'
      BY <1>1, <2>6, <2>7, <2>11, Zenon DEF Reached, Awake, MissedIt
    <2>14. QueueInSight'
      BY <1>0, <1>1, <2>5, <2>6, <2>8, <2>13, SightKept
    <2> QED BY <2>9, <2>10, <2>12, <2>14, Zenon DEF IdleInv
  <1> QED BY <1>2, <1>3, Zenon

TaskStates ==
    [st : {"ready", "running", "blocked"}, aff : (SUBSET ICpus) \ {{}}, prio : 0..MaxRtPrio]

LEMMA ItsTyped ==
  ASSUME IdleTypeOK, NEW t \in ITasks, NEW st \in {"ready", "running", "blocked"},
         its' = [its EXCEPT ![t].st = st]
  PROVE  /\ its' \in [ITasks -> TaskStates] /\ its'[t].st = st
         /\ \A u \in ITasks : its'[u].aff = its[u].aff /\ (u # t => its'[u] = its[u])
  <1>1. its \in [ITasks -> TaskStates] BY Zenon DEF IdleTypeOK, TaskStates
  <1>2. its[t] \in TaskStates BY <1>1, Zenon
  <1>3. [its[t] EXCEPT !.st = st] \in TaskStates BY <1>2, Zenon DEF TaskStates
  <1>4. its' = [its EXCEPT ![t] = [its[t] EXCEPT !.st = st]] BY <1>1, Zenon
  <1> QED BY <1>1, <1>2, <1>3, <1>4 DEF TaskStates

\* A task that is not queued joins the end of the queue.
LEMMA AppendProps ==
  ASSUME IdleTypeOK, NEW t \in ITasks, ~Queued(t), rq' = Append(rq, t)
  PROVE  /\ rq' \in Seq(ITasks) /\ IsInjective(rq')
         /\ \A u \in ITasks : Queued(u)' <=> Queued(u) \/ u = t
  <1> DEFINE n == Len(rq)
  <1>1. rq \in Seq(ITasks) /\ n \in Nat /\ \A j, k \in 1..n : rq[j] = rq[k] => j = k
    BY DEF IdleTypeOK, IsInjective
  <1>2. /\ rq' \in Seq(ITasks) /\ Len(rq') = n + 1 /\ rq'[n + 1] = t
        /\ \A j \in 1..n : rq'[j] = rq[j]
    BY <1>1, AppendProperties
  <1>3. \A j \in 1..n : rq[j] # t BY Zenon DEF Queued
  <1> HIDE DEF n
  <1>4. \A j \in 1..(n + 1) : j \in 1..n \/ j = n + 1 BY <1>1
  <1>5. \A j, k \in 1..(n + 1) : rq'[j] = rq'[k] => j = k
    BY <1>1, <1>2, <1>3, <1>4, Zenon
  <1>6. IsInjective(rq') BY <1>2, <1>5 DEF IsInjective
  <1>7. ASSUME NEW u \in ITasks PROVE Queued(u)' <=> Queued(u) \/ u = t
    <2>1. Queued(u)' <=> \E j \in 1..(n + 1) : rq'[j] = u BY <1>2, Zenon DEF Queued
    <2>2. Queued(u) <=> \E j \in 1..n : rq[j] = u BY Zenon DEF Queued, n
    <2>3. 1..n \subseteq 1..(n + 1) /\ n + 1 \in 1..(n + 1) BY <1>1
    <2> QED BY <1>2, <1>4, <2>1, <2>2, <2>3, Zenon
  <1> QED BY <1>2, <1>6, <1>7, Zenon

\* push_task_back(): whoever queues t goes on as a CPU that may run it, or has
\* the notification of t before it.
LEMMA PushInv ==
  ASSUME IdleInv, NEW c \in ICpus, NEW t \in ITasks, NEW k \in ITasks \cup {NoTask},
         NEW notify \in BOOLEAN,
         ic[c].at = "run", its[t].st \in {"running", "blocked"},
         (t = ic[c].task /\ k = NoTask) \/ (t # ic[c].task /\ k = ic[c].task),
         its[t].st = "running" => t = ic[c].task,
         notify \/ c \in its[t].aff,
         its' = [its EXCEPT ![t].st = "ready"], Push(c, t, k, notify),
         UNCHANGED <<rtRuns, idle, ipis, lost>>
  PROVE  IdleInv'
  <1>0. IdleTypeOK /\ OnCpu /\ BitOrNews /\ QueueInSight BY Zenon DEF IdleInv
  <1>1. ~Queued(t) BY <1>0, Zenon DEF Queued, IdleTypeOK
  <1>2. ~Contains(rq, t) BY <1>1, Zenon DEF Queued, Contains
  <1>3. PICK new \in IcStates :
          /\ new.at = (IF notify THEN "notify" ELSE Back(k))
          /\ new.task = k /\ new.mask = its[t].aff \ {c}
          /\ ic' = [ic EXCEPT ![c] = new] /\ rq' = Append(rq, t)
    <2> DEFINE new == [at |-> IF notify THEN "notify" ELSE Back(k), task |-> k,
                       mask |-> its[t].aff \ {c}]
    <2>1. its[t].aff \subseteq ICpus BY <1>0, Zenon DEF IdleTypeOK
    <2>2. new \in IcStates BY <2>1, Zenon DEF IcStates, Places, Back
    <2>3. ic' = [ic EXCEPT ![c] = new] /\ rq' = Append(rq, t)
      BY <1>2, Zenon DEF Push
    <2> QED BY <2>2, <2>3, Zenon
  <1>4. new.at \in {"notify", "look", "run"} /\ (new.at = "run" => k # NoTask)
    BY <1>3, Zenon DEF Back
  <1>5. /\ ic'[c] = new /\ ic' \in [ICpus -> IcStates]
        /\ \A d \in ICpus \ {c} : ic'[d] = ic[d]
    BY <1>0, <1>3, Zenon DEF IdleTypeOK, IcStates, Places
  <1>6. /\ its' \in [ITasks -> TaskStates] /\ its'[t].st = "ready"
        /\ \A u \in ITasks : its'[u].aff = its[u].aff /\ (u # t => its'[u] = its[u])
    BY <1>0, ItsTyped, Zenon
  <1>7. /\ rq' \in Seq(ITasks) /\ IsInjective(rq')
        /\ \A u \in ITasks : Queued(u)' <=> Queued(u) \/ u = t
    BY <1>0, <1>1, <1>3, AppendProps, Zenon
  <1>8. IdleTypeOK'
    <2>1. ASSUME NEW j \in 1..Len(rq') PROVE its'[rq'[j]].st = "ready"
      <3>1. PICK u \in ITasks : u = rq'[j] BY <1>7
      <3>2. Queued(u)' BY <3>1, Zenon DEF Queued
      <3>3. Queued(u) => its[u].st = "ready" BY <1>0, Zenon DEF Queued, IdleTypeOK
      <3>4. its'[u].st = "ready" BY <1>6, <1>7, <3>2, <3>3, Zenon
      <3> QED BY <3>1, <3>4, Zenon
    <2> QED BY <1>0, <1>5, <1>6, <1>7, <2>1, Zenon DEF IdleTypeOK, IcStates, Places, TaskStates
  <1>9. OnCpu'
    <2>1. \A d \in ICpus \ {c} : ic[d].task # t
      BY <1>0, IdleAssumption, Zenon DEF OnCpu
    <2>2. k # t /\ (k # NoTask => its[k].st = "running")
      BY <1>0, IdleAssumption, Zenon DEF OnCpu
    <2>3. ASSUME NEW d \in ICpus
          PROVE  /\ ic'[d].at \in {"run", "notifyall"} => ic'[d].task # NoTask
                 /\ ic'[d].task # NoTask => its'[ic'[d].task].st = "running"
      <3>1. CASE d = c BY <1>3, <1>4, <1>5, <1>6, <2>2, <3>1
      <3>2. CASE d # c
        <4>1. ic[d].task \in ITasks \cup {NoTask} BY <1>0, Zenon DEF IdleTypeOK
        <4> QED BY <1>0, <1>5, <1>6, <2>1, <3>2, <4>1 DEF OnCpu
      <3> QED BY <3>1, <3>2, Zenon
    <2>4. \A d, e \in ICpus : ic'[d].task = ic'[e].task /\ ic'[d].task # NoTask => d = e
      BY <1>0, <1>3, <1>5 DEF OnCpu
    <2> QED BY <2>3, <2>4, Zenon DEF OnCpu
  <1>10. \A d \in ICpus : Claimed(d) => Claimed(d)'
    BY <1>5, Zenon DEF Claimed
  <1>11. BitOrNews' BY <1>0, <1>4, <1>5, <1>10, BitsKept, Zenon
  <1>12. \A d \in ICpus : Reached(d) => Reached(d)'
    BY <1>4, <1>5, <1>10, Zenon DEF Reached, Awake, MissedIt
  <1>13. InSight(t)'
    <2>1. CASE notify
      BY <1>3, <1>5, <1>6, <2>1, Zenon DEF InSight
    <2>2. CASE ~notify
      <3>1. Reached(c)' BY <1>4, <1>5, Zenon DEF Reached, Awake
      <3> QED BY <1>6, <2>2, <3>1, Zenon DEF InSight
    <2> QED BY <2>1, <2>2, Zenon
  <1>14. ASSUME NEW u \in ITasks, Queued(u) PROVE InSight(u)'
    <2>1. InSight(u) BY <1>0, <1>14, Zenon DEF QueueInSight
    <2>2. its[u].aff \subseteq ICpus /\ its'[u].aff = its[u].aff
      BY <1>0, <1>6, Zenon DEF IdleTypeOK
    <2>3. CASE \E d \in its[u].aff : Reached(d)
      BY <1>12, <2>2, <2>3, Zenon DEF InSight
    <2>4. CASE \E d \in ICpus : ic[d].at = "notifyall"
      BY <1>5, <2>4, Zenon DEF InSight
    <2>5. CASE \E d \in ICpus : ic[d].at = "notify" /\ ic[d].mask = its[u].aff \ {d}
      BY <1>5, <2>2, <2>5, Zenon DEF InSight
    <2> QED BY <2>1, <2>3, <2>4, <2>5, Zenon DEF InSight
  <1>15. QueueInSight' BY <1>7, <1>13, <1>14, Zenon DEF QueueInSight
  <1> QED BY <1>8, <1>9, <1>11, <1>15, Zenon DEF IdleInv

LEMMA QueueingSteps ==
  ASSUME IdleInv, NEW c \in ICpus
  PROVE  /\ YieldOn(c) => IdleInv'
         /\ \A t \in ITasks : WakeOther(c, t) => IdleInv'
  <1>0. IdleTypeOK /\ OnCpu BY Zenon DEF IdleInv
  <1>1. ASSUME YieldOn(c) PROVE IdleInv'
    <2>1. PICK t \in ITasks : t = ic[c].task
      BY <1>0, <1>1, Zenon DEF YieldOn, OnCpu, IdleTypeOK
    <2>2. its[t].st = "running" BY <1>0, <2>1, IdleAssumption, Zenon DEF OnCpu
    <2>3. PICK b \in BOOLEAN : b = YieldNotifies(c, t) BY Zenon DEF YieldNotifies
    <2>4. b \/ c \in its[t].aff BY <2>3, Zenon DEF YieldNotifies
    <2>5. /\ ic[c].at = "run" /\ its' = [its EXCEPT ![t].st = "ready"]
          /\ Push(c, t, NoTask, b) /\ UNCHANGED <<rtRuns, idle, ipis, lost>>
      BY <1>1, <2>1, <2>3, Zenon DEF YieldOn
    <2>6. PICK k \in ITasks \cup {NoTask} : k = NoTask BY Zenon
    <2>8. Push(c, t, k, b) BY <2>5, <2>6, Zenon
    <2>9. (t = ic[c].task /\ k = NoTask) \/ (t # ic[c].task /\ k = ic[c].task) BY <2>1, <2>6, Zenon
    <2>7. its[t].st \in {"running", "blocked"} /\ (its[t].st = "running" => t = ic[c].task)
      BY <2>1, <2>2, Zenon
    <2>10. CASE b = TRUE
      <3>1. Push(c, t, k, TRUE) BY <2>8, <2>10, Zenon
      <3> QED BY <2>5, <2>7, <2>9, <3>1, PushInv, Zenon
    <2>11. CASE b = FALSE
      <3>1. Push(c, t, k, FALSE) /\ c \in its[t].aff BY <2>4, <2>8, <2>11, Zenon
      <3> QED BY <2>5, <2>7, <2>9, <3>1, PushInv, Zenon
    <2> QED BY <2>3, <2>10, <2>11, Zenon
  <1>2. ASSUME NEW t \in ITasks, WakeOther(c, t) PROVE IdleInv'
    <2>1. PICK k \in ITasks \cup {NoTask} : k = ic[c].task
      BY <1>0, Zenon DEF IdleTypeOK
    <2>2. k # NoTask /\ its[t].st = "blocked" /\ ic[c].at = "run"
      BY <1>0, <1>2, <2>1, Zenon DEF WakeOther, OnCpu
    <2>3. t # k BY <1>0, <2>1, <2>2, Zenon DEF OnCpu
    <2>4. /\ its' = [its EXCEPT ![t].st = "ready"] /\ Push(c, t, k, TRUE)
          /\ UNCHANGED <<rtRuns, idle, ipis, lost>>
      BY <1>2, <2>1, Zenon DEF WakeOther
    <2> QED BY <2>1, <2>2, <2>3, <2>4, PushInv, Zenon
  <1> QED BY <1>1, <1>2, Zenon

LEMMA BlockOnInv ==
  ASSUME IdleInv, NEW c \in ICpus, BlockOn(c)
  PROVE  IdleInv'
  <1>0. IdleTypeOK /\ OnCpu /\ BitOrNews /\ QueueInSight BY DEF IdleInv
  <1>1. PICK t \in ITasks : t = ic[c].task
    BY <1>0, Zenon DEF BlockOn, OnCpu, IdleTypeOK
  <1>2. its[t].st = "running" BY <1>0, <1>1, IdleAssumption, Zenon DEF OnCpu
  <1>3. /\ ic[c].at = "run" /\ its' = [its EXCEPT ![t].st = "blocked"]
        /\ ic' = [ic EXCEPT ![c].at = "look", ![c].task = NoTask]
        /\ UNCHANGED <<rq, rtRuns, idle, ipis, lost>>
    BY <1>1, Zenon DEF BlockOn
  <1>4. /\ its' \in [ITasks -> TaskStates]
        /\ \A u \in ITasks : its'[u].aff = its[u].aff /\ (u # t => its'[u] = its[u])
    BY <1>0, <1>3, ItsTyped, Zenon
  <1>5. /\ ic'[c].at = "look" /\ ic'[c].task = NoTask /\ ic' \in [ICpus -> IcStates]
        /\ \A d \in ICpus \ {c} : ic'[d] = ic[d]
    <2>1. ic \in [ICpus -> IcStates] BY <1>0, Zenon DEF IdleTypeOK, IcStates, Places
    <2>2. ic[c] \in IcStates /\ "look" \in Places BY <2>1, Zenon DEF Places
    <2>3. ic' = [ic EXCEPT ![c] = [ic[c] EXCEPT !.at = "look", !.task = NoTask]]
      BY <1>3, <2>1, Zenon
    <2>4. [ic[c] EXCEPT !.at = "look", !.task = NoTask] \in IcStates
      BY <2>2, Zenon DEF IcStates
    <2> QED BY <2>1, <2>2, <2>3, <2>4, Zenon DEF IcStates
  <1>6. \A u \in ITasks : Queued(u) => u # t
    BY <1>0, <1>2, Zenon DEF Queued, IdleTypeOK
  <1>7. IdleTypeOK'
    <2>1. ASSUME NEW j \in 1..Len(rq) PROVE its'[rq[j]].st = "ready"
      <3>1. PICK u \in ITasks : u = rq[j] BY <1>0 DEF IdleTypeOK
      <3>2. Queued(u) BY <3>1, Zenon DEF Queued
      <3>3. its[u].st = "ready" BY <1>0, <3>1, Zenon DEF IdleTypeOK
      <3> QED BY <1>4, <1>6, <3>1, <3>2, <3>3, Zenon
    <2> QED BY <1>0, <1>3, <1>4, <1>5, <2>1 DEF IdleTypeOK, IcStates, Places, TaskStates
  <1>8. OnCpu'
    <2>1. \A d \in ICpus \ {c} : ic[d].task # t
      BY <1>0, <1>1, IdleAssumption, Zenon DEF OnCpu
    <2>2. \A d \in ICpus : ic[d].task \in ITasks \cup {NoTask} BY <1>0, Zenon DEF IdleTypeOK
    <2>3. ASSUME NEW d \in ICpus
          PROVE  /\ ic'[d].at \in {"run", "notifyall"} => ic'[d].task # NoTask
                 /\ ic'[d].task # NoTask => its'[ic'[d].task].st = "running"
      BY <1>0, <1>4, <1>5, <2>1, <2>2 DEF OnCpu
    <2>4. \A d, e \in ICpus : ic'[d].task = ic'[e].task /\ ic'[d].task # NoTask => d = e
      BY <1>0, <1>5 DEF OnCpu
    <2> QED BY <2>3, <2>4, Zenon DEF OnCpu
  <1>9. \A d \in ICpus : Claimed(d) => Claimed(d)'
    BY <1>3, <1>5, Zenon DEF Claimed
  <1>10. BitOrNews' BY <1>0, <1>3, <1>5, <1>9, BitsKept, Zenon
  <1>11. \A d \in ICpus : Reached(d) => Reached(d)'
    BY <1>3, <1>5, <1>9, Zenon DEF Reached, Awake, MissedIt
  <1>12. \A u \in ITasks : Queued(u)' => Queued(u) BY <1>3, Zenon DEF Queued
  <1>13. QueueInSight'
    BY <1>0, <1>3, <1>4, <1>5, <1>11, <1>12, SightKept, Zenon
  <1> QED BY <1>7, <1>8, <1>10, <1>13, Zenon DEF IdleInv

LEMMA SetAffinityInv ==
  ASSUME IdleInv, NEW c \in ICpus, NEW t \in ITasks, NEW m \in (SUBSET ICpus) \ {{}},
         SetAffinity(c, t, m)
  PROVE  IdleInv'
  <1>0. IdleTypeOK /\ OnCpu /\ BitOrNews /\ QueueInSight BY Zenon DEF IdleInv
  <1>1. /\ ic[c].at = "run" /\ its' = [its EXCEPT ![t].aff = m]
        /\ ic' = [ic EXCEPT ![c].at = "notifyall"]
        /\ UNCHANGED <<rq, rtRuns, idle, ipis, lost>>
    BY Zenon DEF SetAffinity, Go
  <1>2. its' \in [ITasks -> TaskStates] /\ \A u \in ITasks : its'[u].st = its[u].st
    <2>1. its \in [ITasks -> TaskStates] BY <1>0, Zenon DEF IdleTypeOK, TaskStates
    <2>2. its[t] \in TaskStates BY <2>1, Zenon
    <2>3. [its[t] EXCEPT !.aff = m] \in TaskStates BY <2>2, Zenon DEF TaskStates
    <2>4. its' = [its EXCEPT ![t] = [its[t] EXCEPT !.aff = m]] BY <1>1, <2>1, Zenon
    <2> QED BY <2>1, <2>2, <2>3, <2>4, Zenon DEF TaskStates
  <1>3. /\ ic'[c].at = "notifyall" /\ ic'[c].task = ic[c].task /\ ic' \in [ICpus -> IcStates]
        /\ \A d \in ICpus \ {c} : ic'[d] = ic[d]
    <2>1. ic \in [ICpus -> IcStates] BY <1>0, Zenon DEF IdleTypeOK, IcStates, Places
    <2>2. ic[c] \in IcStates /\ "notifyall" \in Places BY <2>1, Zenon DEF Places
    <2>3. ic' = [ic EXCEPT ![c] = [ic[c] EXCEPT !.at = "notifyall"]]
      BY <1>1, <2>1, Zenon
    <2> QED BY <1>0, <2>1, <2>2, <2>3, IcTyped, Zenon
  <1>4. IdleTypeOK'
    <2>1. \A j \in 1..Len(rq) : rq[j] \in ITasks /\ its[rq[j]].st = "ready"
      BY <1>0 DEF IdleTypeOK
    <2>2. \A j \in 1..Len(rq) : its'[rq[j]].st = "ready"
      BY <1>2, <2>1, Zenon
    <2> QED BY <1>0, <1>1, <1>2, <1>3, <2>2, Zenon DEF IdleTypeOK, IcStates, Places, TaskStates
  <1>5. OnCpu'
    <2>1. \A d \in ICpus : ic'[d].task = ic[d].task /\ ic[d].task \in ITasks \cup {NoTask}
      BY <1>0, <1>3, Zenon DEF IdleTypeOK
    <2>2. ASSUME NEW d \in ICpus
          PROVE  /\ ic'[d].at \in {"run", "notifyall"} => ic'[d].task # NoTask
                 /\ ic'[d].task # NoTask => its'[ic'[d].task].st = "running"
      BY <1>0, <1>1, <1>2, <1>3, <2>1 DEF OnCpu
    <2> QED BY <1>0, <2>1, <2>2 DEF OnCpu
  <1>6. \A d \in ICpus : Claimed(d) => Claimed(d)'
    BY <1>1, <1>3, Zenon DEF Claimed
  <1>7. BitOrNews' BY <1>0, <1>1, <1>3, <1>6, BitsKept, Zenon
  <1>8. QueueInSight' BY <1>3, Zenon DEF QueueInSight, InSight
  <1> QED BY <1>4, <1>5, <1>7, <1>8, Zenon DEF IdleInv

-----------------------------------------------------------------------------

LEMMA IdleInductive ==
  ASSUME IdleInv, [\E c \in ICpus : IdleStep(c) \/ IdleCall(c)]_idleVars
  PROVE  IdleInv'
  <1>1. ASSUME NEW c \in ICpus, IdleStep(c) PROVE IdleInv'
    BY <1>1, FetchNextInv, MoveSteps, RecheckQueueInv, NotifyInv, SendIpiInv, NotifyAllInv,
       QueueingSteps, BlockOnInv DEF IdleStep
  <1>2. ASSUME NEW c \in ICpus, IdleCall(c) PROVE IdleInv'
    <2>1. PICK t \in ITasks : WakeOther(c, t) \/ \E m \in (SUBSET ICpus) \ {{}} : SetAffinity(c, t, m)
      BY <1>2, Zenon DEF IdleCall
    <2>2. CASE WakeOther(c, t) BY <2>1, <2>2, QueueingSteps, Zenon
    <2>3. CASE \E m \in (SUBSET ICpus) \ {{}} : SetAffinity(c, t, m)
      <3>1. PICK m \in (SUBSET ICpus) \ {{}} : SetAffinity(c, t, m) BY <2>3, Zenon
      <3> QED BY <3>1, SetAffinityInv, Zenon
    <2> QED BY <2>1, <2>2, <2>3, Zenon
  <1>3. ASSUME UNCHANGED idleVars PROVE IdleInv'
    <2>0. /\ rq' = rq /\ rtRuns' = rtRuns /\ its' = its /\ idle' = idle /\ ipis' = ipis
          /\ lost' = lost /\ ic' = ic
      BY <1>3, Zenon DEF idleVars
    <2>1. IdleTypeOK' BY <2>0, Zenon DEF IdleInv, IdleTypeOK
    <2>2. OnCpu' BY <2>0, Zenon DEF IdleInv, OnCpu
    <2>3. BitOrNews' BY <2>0, Zenon DEF IdleInv, BitOrNews, Claimed, MissedIt
    <2>4. QueueInSight'
      BY <2>0, Zenon DEF IdleInv, QueueInSight, InSight, Reached, Awake, Claimed, MissedIt, Queued
    <2> QED BY <2>1, <2>2, <2>3, <2>4, Zenon DEF IdleInv
  <1> QED BY <1>1, <1>2, <1>3, Zenon

\* SetToSeq() enumerates a finite set.
LEMMA SetToSeqProps ==
  ASSUME NEW S, IsFiniteSet(S)
  PROVE  SetToSeq(S) \in Seq(S) /\ IsInjective(SetToSeq(S))
  <1>1. PICK n \in Nat : ExistsBijection(1..n, S) BY FS_NatBijection, Zenon
  <1>2. Cardinality(S) = n BY <1>1, FS_CountingElements, Zenon
  <1>3. PICK f \in [1..n -> S] : \A a, b \in 1..n : f[a] = f[b] => a = b
    BY <1>1, Zenon DEF ExistsBijection, Bijection, Injection, IsInjective
  <1>4. \E g \in [1..n -> S] : IsInjective(g) BY <1>3, Zenon DEF IsInjective
  <1>5. SetToSeq(S) \in [1..n -> S] /\ IsInjective(SetToSeq(S))
    BY <1>2, <1>4, Zenon DEF SetToSeq
  <1> QED BY <1>5, SeqDef

LEMMA IdleInitially ==
  ASSUME NEW prio \in [ITasks -> 0..MaxRtPrio], IdleInit(prio)
  PROVE  IdleInv
  <1>0. /\ rq = SetToSeq(ITasks) /\ rtRuns = 0 /\ idle = {} /\ ipis = {} /\ lost = {}
        /\ its = [t \in ITasks |-> [st |-> "ready", aff |-> ICpus, prio |-> prio[t]]]
        /\ ic = [c \in ICpus |-> [at |-> "look", task |-> NoTask, mask |-> {}]]
    BY Zenon DEF IdleInit
  <1>1. rq \in Seq(ITasks) /\ IsInjective(rq) BY <1>0, SetToSeqProps, IdleAssumption, Zenon
  <1>2. \A i \in 1..Len(rq) : rq[i] \in ITasks BY <1>1
  <1>3. IdleTypeOK
    <2>1. \A i \in 1..Len(rq) : its[rq[i]].st = "ready" BY <1>0, <1>2, Zenon
    <2>2. rtRuns \in 0..RtBudget BY <1>0, IdleAssumption
    <2>3. its \in [ITasks -> [st : {"ready", "running", "blocked"}, aff : (SUBSET ICpus) \ {{}},
                              prio : 0..MaxRtPrio]]
      BY <1>0, IdleAssumption, Zenon
    <2>4. ic \in [ICpus -> IcStates] BY <1>0, Zenon DEF IcStates, Places
    <2> QED BY <1>0, <1>1, <2>1, <2>2, <2>3, <2>4, Zenon DEF IdleTypeOK, IcStates, Places
  <1>4. OnCpu BY <1>0, Zenon DEF OnCpu
  <1>5. BitOrNews BY <1>0, Zenon DEF BitOrNews
  <1>6. QueueInSight
    <2>1. PICK c \in ICpus : TRUE BY IdleAssumption, Zenon
    <2>2. Reached(c) BY <1>0, Zenon DEF Reached, Awake
    <2>3. \A t \in ITasks : its[t].aff = ICpus BY <1>0, Zenon
    <2> QED BY <2>2, <2>3, Zenon DEF QueueInSight, InSight
  <1> QED BY <1>3, <1>4, <1>5, <1>6, Zenon DEF IdleInv

LEMMA InSightIsAttended ==
  ASSUME IdleInv
  PROVE  OnlyIrqWindowStrands
  <1> SUFFICES ASSUME NEW i \in 1..Len(rq)
               PROVE  Attended(rq[i]) \/ \E c \in its[rq[i]].aff : c \in lost
    BY Zenon DEF OnlyIrqWindowStrands
  <1>1. PICK t \in ITasks : t = rq[i] BY DEF IdleInv, IdleTypeOK
  <1>2. Queued(t) BY <1>1, Zenon DEF Queued
  <1>3. InSight(t) BY <1>2, Zenon DEF IdleInv, QueueInSight
  <1>4. its[t].aff \subseteq ICpus BY Zenon DEF IdleInv, IdleTypeOK
  <1>5. Attended(t) \/ \E c \in its[t].aff : c \in lost
    <2>1. CASE \E c \in its[t].aff : Reached(c)
      BY <1>4, <2>1, Zenon DEF Reached, Awake, Claimed, MissedIt, Attended
    <2>2. CASE \E d \in ICpus : ic[d].at \in {"notify", "notifyall"}
      BY <2>2, Zenon DEF Attended
    <2> QED BY <1>3, <2>1, <2>2, Zenon DEF InSight
  <1> QED BY <1>1, <1>5, Zenon

\* A queued task is never left to CPUs that all wait for an interrupt nobody has
\* sent, but for the window between enabling interrupts and the wait instruction
\* (wait_for_interrupt(), notify_runnable_for()): for any number of CPUs and tasks,
\* any affinities and any number of wake-ups, yields, blocks and affinity changes.
THEOREM QueueAttended == IdleSpec => [](IdleTypeOK /\ OnlyIrqWindowStrands)
  <1>1. (\E prio \in [ITasks -> 0..MaxRtPrio] : IdleInit(prio)) => IdleInv BY IdleInitially, Zenon
  <1>2. IdleInv /\ [\E c \in ICpus : IdleStep(c) \/ IdleCall(c)]_idleVars => IdleInv'
    BY IdleInductive, Zenon
  <1>3. IdleInv => IdleTypeOK /\ OnlyIrqWindowStrands BY InSightIsAttended, Zenon DEF IdleInv
  <1> QED BY <1>1, <1>2, <1>3, PTL DEF IdleSpec
=============================================================================
