--------------------------- MODULE FrameAllocator ---------------------------
(***************************************************************************)
(* Physical frames (os/src/mm/frame_allocator.rs): the shared buddy        *)
(* allocator, one cache of single frames per CPU, reference counts of      *)
(* FrameTrackers, frames handed to page tables, contiguous runs for DMA    *)
(* and kernel stacks, and the counter of free frames.                      *)
(*                                                                         *)
(* Every lock is taken for one step, so the CPUs' calls interleave between *)
(* the caches, the buddy allocator and the counters.  A cache is a stack   *)
(* in the code; which of its frames comes out is left open here.           *)
(***************************************************************************)
EXTENDS Integers, FiniteSets, FiniteSetsExt

CONSTANTS
    Frames,    \* the managed physical page numbers
    MaxCpus,
    Handles,   \* FrameTrackers that may exist at a time
    Capacity,  \* FRAME_CACHE_CAPACITY
    Refill,    \* FRAME_CACHE_REFILL
    Flush,     \* FRAME_CACHE_FLUSH
    RunSizes,  \* lengths of the contiguous runs that drivers ask for
    Word,      \* 2^64, the width of the counters
    None

Cpus == 0..MaxCpus - 1

\* Bound: the sizes of blocks (the code has 32 orders).
Powers == {1, 2, 4, 8, 16, 32, 64}

ASSUME FramesAssumption == Frames \subseteq Nat /\ IsFiniteSet(Frames)
ASSUME MaxCpusAssumption == MaxCpus \in Nat \ {0}
ASSUME SizesAssumption ==
    /\ Capacity \in Nat /\ Flush \in 1..Capacity /\ Refill \in 1..Capacity
    /\ RunSizes \subseteq Nat \ {0}
    /\ \A n \in RunSizes : \E p \in Powers : n <= p
ASSUME WordAssumption == Word \in Nat /\ 2 * Cardinality(Frames) < Word
ASSUME HandlesAssumption == IsFiniteSet(Handles)
ASSUME FrameNoneAssumption == None \notin Frames

VARIABLES
    central, \* FRAME_ALLOCATOR: the frames in its free lists
    cache,   \* FRAME_CACHES
    refs,    \* FRAME_REF_REGIONS: owners of each frame
    holds,   \* the frame of each live FrameTracker
    raw,     \* frames that were turned into page tables
    dma,     \* contiguous runs handed out, with the length asked for
    free,    \* FREE_MANAGED_FRAMES
    at,      \* per CPU, its next step in the allocator
    hand,    \* per CPU, the frames its call has taken or must put away
    batch,   \* per CPU, the frames on their way to the buddy allocator
    want,    \* per CPU, the length of the run in work, 0 for one frame
    visit    \* per CPU, the next cache to drain

ownerVars == <<refs, holds, raw, dma>>
callVars == <<at, hand, batch, want, visit>>
vars == <<central, cache, ownerVars, free, callVars>>

Pcs == {"idle", "refill", "retry", "store", "give", "count", "new", "credit",
        "push", "run", "runRetry", "runCount", "runCredit", "drain",
        "drained"}

Goto(c, p) == at' = [at EXCEPT ![c] = p]

\* Bound: a tracker is left for every call under way.
TrackerRoom ==
    Cardinality({d \in Cpus : at[d] # "idle"})
      < Cardinality({h \in Handles : holds[h] = None})

\* f with the value of c replaced.
At(f, c, v) == [f EXCEPT ![c] = v]

-----------------------------------------------------------------------------
(* The buddy allocator *)

\* count.next_power_of_two()
BlockSize(n) == Min({p \in Powers : n <= p})

\* The free naturally aligned blocks of p frames.  Buddies are merged when
\* they are freed, so these are what the free lists can yield.
Blocks(p) ==
    {b \in {f..f + p - 1 : f \in {g \in central : g % p = 0}} :
        b \subseteq central}

\* central_alloc_run(): the longest run up to max frames.
BestRuns(max) ==
    LET sizes == {p \in Powers : p <= max /\ Blocks(p) # {}}
    IN IF sizes = {} THEN {} ELSE Blocks(Max(sizes))

-----------------------------------------------------------------------------
(* alloc_frame() *)

\* alloc_cached_frame() pops a frame of this CPU's cache, if there is one.
AllocFrame(c) ==
    /\ at[c] = "idle"
    /\ TrackerRoom
    /\ \/ \E f \in cache[c] :
             /\ cache' = At(cache, c, cache[c] \ {f})
             /\ hand' = At(hand, c, {f})
             /\ Goto(c, "count")
       \/ cache[c] = {} /\ Goto(c, "refill") /\ UNCHANGED <<cache, hand>>
    /\ want' = At(want, c, 0)
    /\ UNCHANGED <<central, ownerVars, free, batch, visit>>

\* Otherwise it takes a run from the buddy allocator.  When there is none all
\* caches are drained and it tries once more.
TakeRun(c) ==
    /\ at[c] \in {"refill", "retry"}
    /\ \/ \E b \in BestRuns(Refill) :
             /\ central' = central \ b
             /\ hand' = At(hand, c, b)
             /\ Goto(c, "store")
       \/ /\ BestRuns(Refill) = {}
          /\ Goto(c, IF at[c] = "refill" THEN "drain" ELSE "idle")
          /\ UNCHANGED <<central, hand>>
    /\ visit' = At(visit, c, 0)
    /\ UNCHANGED <<cache, ownerVars, free, batch, want>>

\* The first frame of the run is for the caller, the others go into the
\* cache as far as they fit.
StoreRun(c) ==
    /\ at[c] = "store"
    /\ \E first \in hand[c], kept \in SUBSET hand[c] :
          /\ \A f \in hand[c] : first <= f
          /\ first \notin kept
          /\ \A f \in kept, g \in hand[c] \ kept : g = first \/ f < g
          /\ Cardinality(cache[c] \cup kept) <= Capacity
          /\ \/ kept = hand[c] \ {first}
             \/ Cardinality(cache[c] \cup kept) = Capacity
          /\ cache' = At(cache, c, cache[c] \cup kept)
          /\ batch' = At(batch, c, hand[c] \ (kept \cup {first}))
          /\ hand' = At(hand, c, {first})
    /\ Goto(c, "give")
    /\ UNCHANGED <<central, ownerVars, free, want, visit>>

\* central_dealloc_pages()
Give(c) ==
    /\ at[c] = "give"
    /\ central' = central \cup batch[c]
    /\ batch' = At(batch, c, {})
    /\ Goto(c, IF hand[c] = {} THEN "idle" ELSE "count")
    /\ UNCHANGED <<cache, ownerVars, free, hand, want, visit>>

\* Mutant: the drained cache keeps its frames.
Drain_CacheKept(c) ==
    /\ at[c] = "drain"
    /\ batch' = At(batch, c, cache[visit[c]])
    /\ Goto(c, "drained")
    /\ UNCHANGED <<central, cache, ownerVars, free, hand, want, visit>>

\* drain_all_frame_caches() empties one cache after the other.
Drain(c) ==
    /\ at[c] = "drain"
    /\ batch' = At(batch, c, cache[visit[c]])
    /\ cache' = At(cache, visit[c], {})
    /\ Goto(c, "drained")
    /\ UNCHANGED <<central, ownerVars, free, hand, want, visit>>

Drained(c) ==
    /\ at[c] = "drained"
    /\ central' = central \cup batch[c]
    /\ batch' = At(batch, c, {})
    /\ IF visit[c] + 1 \in Cpus
       THEN visit' = At(visit, c, visit[c] + 1) /\ Goto(c, "drain")
       ELSE /\ Goto(c, IF want[c] = 0 THEN "retry" ELSE "runRetry")
            /\ visit' = At(visit, c, 0)
    /\ UNCHANGED <<cache, ownerVars, free, hand, want>>

Count(c) ==
    /\ at[c] = "count"
    /\ free' = (free - 1) % Word
    /\ Goto(c, "new")
    /\ UNCHANGED <<central, cache, ownerVars, hand, batch, want, visit>>

\* FrameTracker::new()
NewTracker(c, h) ==
    /\ at[c] = "new"
    /\ holds[h] = None
    /\ \E f \in hand[c] :
          /\ refs' = [refs EXCEPT ![f] = @ + 1]
          /\ holds' = [holds EXCEPT ![h] = f]
    /\ hand' = At(hand, c, {})
    /\ Goto(c, "idle")
    /\ UNCHANGED <<central, cache, raw, dma, free, batch, want, visit>>

-----------------------------------------------------------------------------
(* FrameTracker *)

\* Mutant: a clone is not counted.
CloneTracker_NoCount(c, h, k) ==
    /\ at[c] = "idle"
    /\ holds[h] # None /\ holds[k] = None
    /\ TrackerRoom
    /\ holds' = [holds EXCEPT ![k] = holds[h]]
    /\ UNCHANGED <<central, cache, refs, raw, dma, free, callVars>>

\* FrameTracker::clone()
CloneTracker(c, h, k) ==
    /\ at[c] = "idle"
    /\ holds[h] # None /\ holds[k] = None
    /\ TrackerRoom
    /\ refs' = [refs EXCEPT ![holds[h]] = @ + 1]
    /\ holds' = [holds EXCEPT ![k] = holds[h]]
    /\ UNCHANGED <<central, cache, raw, dma, free, callVars>>

\* The last owner gives the frame back.
DropTracker(c, h) ==
    /\ at[c] = "idle"
    /\ holds[h] # None
    /\ refs' = [refs EXCEPT ![holds[h]] = @ - 1]
    /\ holds' = [holds EXCEPT ![h] = None]
    /\ IF refs[holds[h]] = 1
       THEN hand' = At(hand, c, {holds[h]}) /\ Goto(c, "credit")
       ELSE UNCHANGED <<hand, at>>
    /\ UNCHANGED <<central, cache, raw, dma, free, batch, want, visit>>

\* into_raw_ppn(): a frame nobody shares becomes a page table.
IntoRaw(c, h) ==
    /\ at[c] = "idle"
    /\ holds[h] # None /\ refs[holds[h]] = 1
    /\ refs' = [refs EXCEPT ![holds[h]] = @ - 1]
    /\ raw' = raw \cup {holds[h]}
    /\ holds' = [holds EXCEPT ![h] = None]
    /\ UNCHANGED <<central, cache, dma, free, callVars>>

-----------------------------------------------------------------------------
(* dealloc_frame() *)

FreeRaw(c, f) ==
    /\ at[c] = "idle"
    /\ f \in raw
    /\ raw' = raw \ {f}
    /\ hand' = At(hand, c, {f})
    /\ Goto(c, "credit")
    /\ UNCHANGED <<central, cache, refs, holds, dma, free, batch, want, visit>>

Credit(c) ==
    /\ at[c] = "credit"
    /\ free' = (free + 1) % Word
    /\ Goto(c, "push")
    /\ UNCHANGED <<central, cache, ownerVars, hand, batch, want, visit>>

\* Mutant: the flushed frames are forgotten.
PushFrame_FlushLost(c) ==
    /\ at[c] = "push"
    /\ \E out \in SUBSET cache[c] :
          /\ Cardinality(out) =
                IF Cardinality(cache[c]) < Capacity THEN 0 ELSE Flush
          /\ cache' = At(cache, c, (cache[c] \ out) \cup hand[c])
    /\ hand' = At(hand, c, {})
    /\ Goto(c, "give")
    /\ UNCHANGED <<central, ownerVars, free, batch, want, visit>>

\* cache_deallocated_frame(): a full cache first gives some frames up.
PushFrame(c) ==
    /\ at[c] = "push"
    /\ \E out \in SUBSET cache[c] :
          /\ Cardinality(out) =
                IF Cardinality(cache[c]) < Capacity THEN 0 ELSE Flush
          /\ cache' = At(cache, c, (cache[c] \ out) \cup hand[c])
          /\ batch' = At(batch, c, out)
    /\ hand' = At(hand, c, {})
    /\ Goto(c, "give")
    /\ UNCHANGED <<central, ownerVars, free, want, visit>>

-----------------------------------------------------------------------------
(* alloc_contiguous_frames() and dealloc_contiguous_frames() *)

AllocRun(c, n) ==
    /\ at[c] = "idle"
    /\ want' = At(want, c, n)
    /\ Goto(c, "run")
    /\ UNCHANGED <<central, cache, ownerVars, free, hand, batch, visit>>

TakeBlock(c) ==
    LET blocks == Blocks(BlockSize(want[c])) IN
    /\ at[c] \in {"run", "runRetry"}
    /\ \/ \E b \in blocks :
             /\ central' = central \ b
             /\ hand' = At(hand, c, b)
             /\ Goto(c, "runCount")
       \/ /\ blocks = {}
          /\ Goto(c, IF at[c] = "run" THEN "drain" ELSE "idle")
          /\ UNCHANGED <<central, hand>>
    /\ visit' = At(visit, c, 0)
    /\ UNCHANGED <<cache, ownerVars, free, batch, want>>

RunCount(c) ==
    /\ at[c] = "runCount"
    /\ free' = (free - want[c]) % Word
    /\ dma' = dma \cup {[block |-> hand[c], pages |-> want[c]]}
    /\ hand' = At(hand, c, {})
    /\ Goto(c, "idle")
    /\ UNCHANGED <<central, cache, refs, holds, raw, batch, want, visit>>

\* The block is returned first and counted afterwards.
FreeRun(c, r) ==
    /\ at[c] = "idle"
    /\ r \in dma
    /\ dma' = dma \ {r}
    /\ central' = central \cup r.block
    /\ want' = At(want, c, r.pages)
    /\ Goto(c, "runCredit")
    /\ UNCHANGED <<cache, refs, holds, raw, free, hand, batch, visit>>

\* Mutant: the size of the block is counted, not the length asked for.
RunCredit_WholeBlock(c) ==
    /\ at[c] = "runCredit"
    /\ free' = (free + BlockSize(want[c])) % Word
    /\ Goto(c, "idle")
    /\ UNCHANGED <<central, cache, ownerVars, hand, batch, want, visit>>

RunCredit(c) ==
    /\ at[c] = "runCredit"
    /\ free' = (free + want[c]) % Word
    /\ Goto(c, "idle")
    /\ UNCHANGED <<central, cache, ownerVars, hand, batch, want, visit>>

-----------------------------------------------------------------------------
\* add_frames_range() and finalize_frame_refcounts() at boot.
Init ==
    /\ central = Frames
    /\ cache = [c \in Cpus |-> {}]
    /\ refs = [f \in Frames |-> 0]
    /\ holds = [h \in Handles |-> None]
    /\ raw = {}
    /\ dma = {}
    /\ free = Cardinality(Frames)
    /\ at = [c \in Cpus |-> "idle"]
    /\ hand = [c \in Cpus |-> {}]
    /\ batch = [c \in Cpus |-> {}]
    /\ want = [c \in Cpus |-> 0]
    /\ visit = [c \in Cpus |-> 0]

Calls(c) ==
    \/ AllocFrame(c)
    \/ \E h, k \in Handles : CloneTracker(c, h, k)
    \/ \E h \in Handles : DropTracker(c, h) \/ IntoRaw(c, h)
    \/ \E f \in raw : FreeRaw(c, f)
    \/ \E n \in RunSizes : AllocRun(c, n)
    \/ \E r \in dma : FreeRun(c, r)

Steps(c) ==
    \/ TakeRun(c) \/ StoreRun(c) \/ Give(c) \/ Drain(c) \/ Drained(c)
    \/ Count(c) \/ (\E h \in Handles : NewTracker(c, h))
    \/ Credit(c) \/ PushFrame(c)
    \/ TakeBlock(c) \/ RunCount(c) \/ RunCredit(c)

Next == \E c \in Cpus : Calls(c) \/ Steps(c)

Spec == Init /\ [][Next]_vars

-----------------------------------------------------------------------------
(* Properties *)

\* The types; no cache holds more than FRAME_CACHE_CAPACITY frames.
TypeOK ==
    /\ central \subseteq Frames
    /\ cache \in [Cpus -> SUBSET Frames]
    /\ refs \in [Frames -> Nat]
    /\ holds \in [Handles -> Frames \cup {None}]
    /\ raw \subseteq Frames
    /\ dma \subseteq [block : SUBSET Frames, pages : RunSizes]
    /\ free \in 0..Word - 1
    /\ at \in [Cpus -> Pcs]
    /\ hand \in [Cpus -> SUBSET Frames]
    /\ batch \in [Cpus -> SUBSET Frames]
    /\ want \in [Cpus -> RunSizes \cup {0}]
    /\ visit \in [Cpus -> Cpus]
    /\ \A c \in Cpus : Cardinality(cache[c]) <= Capacity

Apart(S, T) == \A f \in S : f \notin T

Live == {f \in Frames : refs[f] > 0}

\* A frame is in one place only: free in the buddy allocator, in one CPU's
\* cache, in the hands of one call, or owned by trackers, a page table or one
\* contiguous run.  Two owners would write over each other's memory.
OneOwner ==
    /\ \A c, d \in Cpus :
          /\ c # d => /\ Apart(cache[c], cache[d])
                      /\ Apart(hand[c], hand[d])
                      /\ Apart(batch[c], batch[d])
          /\ Apart(cache[c], hand[d])
          /\ Apart(cache[c], batch[d])
          /\ Apart(hand[c], batch[d])
    /\ \A c \in Cpus :
          Apart(cache[c] \cup hand[c] \cup batch[c], central \cup Live \cup raw)
    /\ Apart(central, Live \cup raw)
    /\ Apart(Live, raw)
    /\ \A r \in dma :
          /\ Apart(r.block, central \cup Live \cup raw)
          /\ \A c \in Cpus : Apart(r.block, cache[c] \cup hand[c] \cup batch[c])
          /\ \A s \in dma : r # s => Apart(r.block, s.block)

\* No frame is lost: each is in one of these places, also while a cache is
\* drained by another CPU or a refill overflows.
NoFrameLost ==
    \A f \in Frames :
        \/ f \in central \cup Live \cup raw
        \/ \E c \in Cpus : f \in cache[c] \cup hand[c] \cup batch[c]
        \/ \E r \in dma : f \in r.block

\* The count in FRAME_REF_REGIONS is the number of FrameTrackers, so the last
\* drop, and no other, frees the frame and no assertion of FrameTracker fails.
RefsExact ==
    \A f \in Frames : refs[f] = Cardinality({h \in Handles : holds[h] = f})

\* What FREE_MANAGED_FRAMES does not count: frames with owners, the pages of
\* runs, and what a call has subtracted already or has still to add.
RunPages == UNION {{r} \X (1..r.pages) : r \in dma}
InCall == {c \in Cpus : at[c] \in {"new", "credit"}}
Uncredited == UNION {{c} \X (1..want[c]) : c \in {d \in Cpus : at[d] = "runCredit"}}
NotCounted ==
    Cardinality(Live) + Cardinality(raw) + Cardinality(RunPages)
      + Cardinality(InCall) + Cardinality(Uncredited)

\* remaining_frames() is exact up to the calls under way: the counter never
\* drifts, whatever order the CPUs take, refill, drain and free in.
FreeExact == (free + NotCounted) % Word = Cardinality(Frames)

\* The counter wraps below zero only while dealloc_contiguous_frames() has
\* returned a block that it has not counted yet.
WrapsOnlyInFreeRun ==
    free > Cardinality(Frames) => \E c \in Cpus : at[c] = "runCredit"

\* Together: the number of free frames is exact, so that an allocation fails and
\* succeeds by what there is, and what is freed counts once.
FreeCounted == FreeExact /\ WrapsOnlyInFreeRun

=============================================================================
