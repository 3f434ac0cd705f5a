------------------------------ MODULE HeapCache ------------------------------
(***************************************************************************)
(* The kernel heap (os/src/mm/heap_allocator.rs): a central buddy          *)
(* allocator behind one lock and, per CPU, a stack of free blocks for each *)
(* small size class.  A miss refills the cache in a batch, a full cache    *)
(* gives a batch back, and an allocation that finds the centre empty       *)
(* drains the caches of every CPU, class by class.  The cache lock and the *)
(* central lock are never held together, so blocks are in flight, in the   *)
(* hands of one CPU, between the steps.                                    *)
(*                                                                         *)
(* The heap is HeapSpan units.  Size class k has blocks of 2^(k-1) units,  *)
(* aligned to their size; classes above SmallClasses are not cached.       *)
(***************************************************************************)
EXTENDS Integers, Sequences, FiniteSets, SequencesExt, FiniteSetsExt

CONSTANTS
    HCpus,         \* CPUs
    HeapSpan,      \* units of memory
    SmallClasses,  \* number of cached size classes
    CacheCap,      \* CACHE_CAPACITY
    RefillBatch,   \* REFILL_BATCH
    FlushBatch     \* FLUSH_BATCH

VARIABLES
    centre,        \* units free in the buddy allocator
    caches,        \* per CPU and small class: the stack of free blocks
    held,          \* blocks given to callers: [at, class]
    hc             \* per CPU: control point, class and blocks in flight

heapVars == <<centre, caches, held, hc>>

Classes == 1..(SmallClasses + 1)
Small == 1..SmallClasses
HIdle == [at |-> "idle", class |-> 1, got |-> <<>>, back |-> <<>>, todo |-> <<>>,
          tried |-> FALSE]

Size(k) == 2 ^ (k - 1)
Units(b, k) == b..(b + Size(k) - 1)
UnitsOf(s, k) == UNION {Units(s[i], k) : i \in 1..Len(s)}
HGo(c, r) == hc' = [hc EXCEPT ![c] = r]

\* Heap::alloc(): the block the buddy allocator finds; which one is its choice,
\* here the lowest.  central_alloc_batch(): up to n blocks under one lock.
Fits(free, k) == {b \in 0..(HeapSpan - 1) : b % Size(k) = 0 /\ Units(b, k) \subseteq free}
FirstFit(free, k) == CHOOSE b \in Fits(free, k) : \A d \in Fits(free, k) : b <= d
Batch(free, k, n) ==
    LET One(a, i) == IF Fits(a.free, k) = {} THEN a
                     ELSE LET b == FirstFit(a.free, k)
                          IN [free |-> a.free \ Units(b, k), got |-> Append(a.got, b)]
    IN FoldLeft(One, [free |-> free, got |-> <<>>], [i \in 1..n |-> i]).got

-----------------------------------------------------------------------------
(* Allocation *)

\* alloc_small(): the top of the CPU's own stack ...
AllocHit(c, k) ==
    /\ hc[c].at = "idle" /\ k \in Small /\ caches[c][k] # <<>>
    /\ caches' = [caches EXCEPT ![c][k] = Front(@)]
    /\ held' = held \cup {[at |-> Last(caches[c][k]), class |-> k]}
    /\ UNCHANGED <<centre, hc>>

\* ... or a miss: the centre is asked for a batch (one block if not cached).
AllocMiss(c, k) ==
    /\ hc[c].at = "idle" /\ (k \in Small => caches[c][k] = <<>>)
    /\ HGo(c, [HIdle EXCEPT !.at = "batch", !.class = k])
    /\ UNCHANGED <<centre, caches, held>>

Wanted(k) == IF k \in Small THEN RefillBatch ELSE 1

\* Nothing: the first time drain_all_caches(), the second time a null pointer.
AllocBatch(c) ==
    /\ hc[c].at = "batch"
    /\ LET k == hc[c].class
           got == Batch(centre, k, Wanted(k)) IN
       /\ centre' = centre \ UnitsOf(got, k)
       /\ IF got # <<>>
          THEN HGo(c, [hc[c] EXCEPT !.at = "refill", !.got = got])
          ELSE IF hc[c].tried
               THEN HGo(c, HIdle)
               ELSE HGo(c, [hc[c] EXCEPT !.at = "drain", !.tried = TRUE,
                              !.todo = SetToSeq(HCpus \X Small)])
    /\ UNCHANGED <<caches, held>>

\* The first block is the caller's; the others are pushed while there is room
\* (another allocation of this CPU cannot run, but a drain by another CPU can).
Room(s, new) == IF Len(new) < CacheCap - Len(s) THEN Len(new) ELSE CacheCap - Len(s)
Pushed(s, new) == s \o SubSeq(new, 1, Room(s, new))
TurnedAway(s, new) == SubSeq(new, Room(s, new) + 1, Len(new))

AllocRefill(c) ==
    /\ hc[c].at = "refill"
    /\ LET k == hc[c].class  got == hc[c].got IN
       /\ held' = held \cup {[at |-> Head(got), class |-> k]}
       /\ IF k \in Small
          THEN /\ caches' = [caches EXCEPT ![c][k] = Pushed(@, Tail(got))]
               /\ LET back == TurnedAway(caches[c][k], Tail(got)) IN
                  HGo(c, [HIdle EXCEPT !.at = IF back = <<>> THEN "idle" ELSE "return",
                                       !.class = k, !.back = back])
          ELSE caches' = caches /\ HGo(c, HIdle)
    /\ UNCHANGED centre

\* central_dealloc_batch(), at the end of a free, a refill or one drained class.
Return(c) ==
    /\ hc[c].at = "return"
    /\ centre' = centre \cup UnitsOf(hc[c].back, hc[c].class)
    /\ HGo(c, HIdle)
    /\ UNCHANGED <<caches, held>>

Emptied_KeepsOne(s) == IF s = <<>> THEN s ELSE <<Head(s)>>
Emptied(s) == <<>>

\* drain_all_caches(): one class of one CPU under that cache's lock, then its
\* blocks under the central lock.
DrainTake(c) ==
    /\ hc[c].at = "drain"
    /\ IF hc[c].todo = <<>>
       THEN HGo(c, [hc[c] EXCEPT !.at = "batch"]) /\ UNCHANGED caches
       ELSE LET d == Head(hc[c].todo)[1]  k == Head(hc[c].todo)[2] IN
            /\ caches' = [caches EXCEPT ![d][k] = Emptied(@)]
            /\ HGo(c, [hc[c] EXCEPT !.at = "drained", !.back = caches[d][k]])
    /\ UNCHANGED <<centre, held>>

DrainReturn(c) ==
    /\ hc[c].at = "drained"
    /\ centre' = centre \cup UnitsOf(hc[c].back, Head(hc[c].todo)[2])
    /\ HGo(c, [hc[c] EXCEPT !.at = "drain", !.back = <<>>, !.todo = Tail(@)])
    /\ UNCHANGED <<caches, held>>

-----------------------------------------------------------------------------
(* Release *)

\* dealloc_small(): push; a full stack first gives up a batch from its top.
Freed(s, b) ==
    IF Len(s) < CacheCap
    THEN [stack |-> Append(s, b), flushed |-> <<>>]
    ELSE LET n == IF FlushBatch < Len(s) THEN FlushBatch ELSE Len(s) IN
         [stack |-> Append(SubSeq(s, 1, Len(s) - n), b),
          flushed |-> SubSeq(s, Len(s) - n + 1, Len(s))]

Dealloc(c, h) ==
    /\ hc[c].at = "idle" /\ h \in held
    /\ held' = held \ {h}
    /\ IF h.class \in Small
       THEN LET f == Freed(caches[c][h.class], h.at) IN
            /\ caches' = [caches EXCEPT ![c][h.class] = f.stack]
            /\ HGo(c, [HIdle EXCEPT !.at = IF f.flushed = <<>> THEN "idle" ELSE "return",
                                    !.class = h.class, !.back = f.flushed])
       ELSE /\ caches' = caches
            /\ HGo(c, [HIdle EXCEPT !.at = "return", !.class = h.class, !.back = <<h.at>>])
    /\ UNCHANGED centre

-----------------------------------------------------------------------------

HeapInit ==
    /\ centre = 0..(HeapSpan - 1)
    /\ caches = [c \in HCpus |-> [k \in Small |-> <<>>]]
    /\ held = {}
    /\ hc = [c \in HCpus |-> HIdle]

HeapStep(c) ==
    \/ AllocBatch(c) \/ AllocRefill(c) \/ Return(c) \/ DrainTake(c) \/ DrainReturn(c)

HeapCall(c) ==
    \/ \E k \in Classes : AllocHit(c, k) \/ AllocMiss(c, k)
    \/ \E h \in held : Dealloc(c, h)

-----------------------------------------------------------------------------
(* Properties *)

\* The types; no cache holds more than its capacity and a block lies on a
\* multiple of its size (CACHE_CAPACITY, the buddy allocator's classes).
HeapTypeOK ==
    /\ centre \subseteq 0..(HeapSpan - 1)
    /\ \A c \in HCpus : \A k \in Small : Len(caches[c][k]) <= CacheCap
    /\ \A h \in held : h.class \in Classes /\ h.at % Size(h.class) = 0

\* The blocks in CPU c's hands, as <<block, class>>.
InFlight(c) ==
    {<<hc[c].got[i], hc[c].class>> : i \in 1..Len(hc[c].got)}
      \cup {<<hc[c].back[i], IF hc[c].at = "drained" THEN Head(hc[c].todo)[2]
                             ELSE hc[c].class>> : i \in 1..Len(hc[c].back)}

Cached(c, k) == {<<caches[c][k][i], k>> : i \in 1..Len(caches[c][k])}
Held == {<<h.at, h.class>> : h \in held}

Covered(B) == UNION {Units(b[1], b[2]) : b \in B}
Weight(B) == MapThenSumSet(LAMBDA b : Size(b[2]), B)

\* Every unit of the heap is in exactly one place: free in the centre, in one
\* CPU's cache, with one caller, or in the hands of the one CPU that moves it,
\* also while other CPUs drain the cache being refilled (drain_all_caches()).
HeapPartition ==
    /\ centre \cup Covered(Held) \cup UNION {Covered(InFlight(c)) : c \in HCpus}
         \cup UNION {Covered(Cached(c, k)) : c \in HCpus, k \in Small} = 0..(HeapSpan - 1)
    /\ Cardinality(centre) + Weight(Held)
         + MapThenSumSet(LAMBDA c : Weight(InFlight(c)), HCpus)
         + MapThenSumSet(LAMBDA p : Weight(Cached(p[1], p[2])), HCpus \X Small) = HeapSpan
    /\ \A c \in HCpus : \A k \in Small : IsInjective(caches[c][k])

\* Together with the shape of the caches: no block is lost or given out twice.
HeapSafe == HeapTypeOK /\ HeapPartition

=============================================================================
