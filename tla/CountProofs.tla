---------------------------- MODULE CountProofs ----------------------------
(***************************************************************************)
(* Counters that the kernel keeps beside what they count.  First physical  *)
(* frames (FrameAllocator), for any number of frames, CPUs and trackers    *)
(* and any sizes of the caches: the owner counts are exact, every frame is *)
(* in one place and in one only, and the counter of free frames is exact.  *)
(* What is not counted is the size of disjoint sets of frames, of CPUs and *)
(* of numbered pages, and each step moves some of them.  Then the table of *)
(* descriptors (FdTable): no free slot lies below next_fd_hint, and        *)
(* cloexec_count is the number of marked slots.                            *)
(***************************************************************************)
EXTENDS FrameAllocator, FdTable, FiniteSetTheorems, TLAPS

-----------------------------------------------------------------------------
(* What the other proofs rest on: the sets and functions of the state,     *)
(* what a call holds at each step, and the counts of the FrameTrackers.    *)

\* The sets and functions of the state.
Types ==
    /\ central \subseteq Frames
    /\ cache \in [Cpus -> SUBSET Frames]
    /\ refs \in [Frames -> Nat]
    /\ holds \in [Handles -> Frames \cup {None}]
    /\ raw \subseteq Frames
    /\ \A r \in dma : r.block \subseteq Frames
    /\ at \in [Cpus -> Pcs]
    /\ hand \in [Cpus -> SUBSET Frames]
    /\ batch \in [Cpus -> SUBSET Frames]
    /\ visit \in [Cpus -> Cpus]

\* What a call has in its hands at each step.
Shape ==
    \A c \in Cpus :
        /\ at[c] \in {"idle", "refill", "retry", "run", "runRetry",
                      "runCredit", "drain", "drained"} => hand[c] = {}
        /\ at[c] \in {"count", "new", "credit", "push"} =>
              \E f \in Frames : hand[c] = {f}
        /\ at[c] = "give" => hand[c] = {} \/ \E f \in Frames : hand[c] = {f}
        /\ at[c] \notin {"give", "drained"} => batch[c] = {}

LEMMA BlocksFree ==
    ASSUME NEW p, NEW b \in Blocks(p)
    PROVE  b \subseteq central
BY Zenon DEF Blocks

LEMMA RunsFree ==
    ASSUME NEW max, NEW b \in BestRuns(max)
    PROVE  b \subseteq central
<1> DEFINE sizes == {p \in Powers : p <= max /\ Blocks(p) # {}}
<1>1. CASE sizes = {}
  BY <1>1, Zenon DEF BestRuns
<1>2. CASE sizes # {}
  <2>1. b \in Blocks(Max(sizes))
    BY <1>2, Zenon DEF BestRuns
  <2> QED  BY <2>1, BlocksFree, Zenon
<1> QED  BY <1>1, <1>2, Zenon

\* A frame that a tracker holds has a count.
LEMMA HeldIsLive ==
    ASSUME Types, RefsExact, NEW h \in Handles, holds[h] # None
    PROVE  holds[h] \in Frames /\ refs[holds[h]] \in Nat \ {0}
<1> DEFINE S == {k \in Handles : holds[k] = holds[h]}
<1>1. holds[h] \in Frames /\ refs[holds[h]] \in Nat
  BY Zenon DEF Types
<1>2. refs[holds[h]] = Cardinality(S)
  BY <1>1, Zenon DEF RefsExact
<1>3. IsFiniteSet(S)
  BY HandlesAssumption, FS_Subset, Zenon
<1>4. Cardinality(S) # 0
  BY <1>3, FS_EmptySet, Zenon
<1> QED  BY <1>1, <1>2, <1>4, Zenon

LEMMA TypesStep ==
    ASSUME Types, Shape, RefsExact, [Next]_vars
    PROVE  Types'
<1> USE DEF Types, At, Goto, Pcs
<1>1. CASE UNCHANGED vars
  BY <1>1, Zenon DEF vars, ownerVars, callVars
<1>2. ASSUME NEW c \in Cpus, AllocFrame(c) PROVE Types'
  BY <1>2 DEF AllocFrame, ownerVars
<1>3. ASSUME NEW c \in Cpus, TakeRun(c) PROVE Types'
  <2>1. visit' = [visit EXCEPT ![c] = 0] /\ 0 \in Cpus
    BY <1>3, MaxCpusAssumption DEF TakeRun, Cpus
  <2>2. CASE \E b \in BestRuns(Refill) : /\ central' = central \ b
                                         /\ hand' = At(hand, c, b)
                                         /\ Goto(c, "store")
    BY <1>3, <2>1, <2>2, RunsFree DEF TakeRun, ownerVars
  <2>3. CASE UNCHANGED <<central, hand>>
    BY <1>3, <2>1, <2>3 DEF TakeRun, ownerVars
  <2> QED  BY <1>3, <2>2, <2>3, Zenon DEF TakeRun
<1>4. ASSUME NEW c \in Cpus, StoreRun(c) PROVE Types'
  BY <1>4 DEF StoreRun, ownerVars
<1>5. ASSUME NEW c \in Cpus, Give(c) PROVE Types'
  BY <1>5, Zenon DEF Give, ownerVars
<1>6. ASSUME NEW c \in Cpus, Drain(c) PROVE Types'
  BY <1>6, Zenon DEF Drain, ownerVars
<1>7. ASSUME NEW c \in Cpus, Drained(c) PROVE Types'
  <2>1. 0 \in Cpus
    BY MaxCpusAssumption DEF Cpus
  <2> QED  BY <1>7, <2>1 DEF Drained, ownerVars
<1>8. ASSUME NEW c \in Cpus, Count(c) PROVE Types'
  BY <1>8, Zenon DEF Count, ownerVars
<1>9. ASSUME NEW c \in Cpus, NEW h \in Handles, NewTracker(c, h) PROVE Types'
  BY <1>9 DEF NewTracker
<1>10. ASSUME NEW c \in Cpus, NEW h \in Handles, NEW k \in Handles,
              CloneTracker(c, h, k)
       PROVE  Types'
  BY <1>10 DEF CloneTracker, callVars
<1>11. ASSUME NEW c \in Cpus, NEW h \in Handles, DropTracker(c, h)
       PROVE  Types'
  <2>1. holds[h] \in Frames /\ refs[holds[h]] - 1 \in Nat
    BY <1>11, HeldIsLive DEF DropTracker
  <2> QED  BY <1>11, <2>1 DEF DropTracker
<1>12. ASSUME NEW c \in Cpus, NEW h \in Handles, IntoRaw(c, h) PROVE Types'
  <2>1. holds[h] \in Frames /\ refs[holds[h]] - 1 \in Nat
    BY <1>12, HeldIsLive DEF IntoRaw
  <2> QED  BY <1>12, <2>1, Zenon DEF IntoRaw, callVars
<1>13. ASSUME NEW c \in Cpus, NEW f \in raw, FreeRaw(c, f) PROVE Types'
  BY <1>13, Zenon DEF FreeRaw
<1>14. ASSUME NEW c \in Cpus, Credit(c) PROVE Types'
  BY <1>14, Zenon DEF Credit, ownerVars
<1>15. ASSUME NEW c \in Cpus, PushFrame(c) PROVE Types'
  BY <1>15 DEF PushFrame, ownerVars
<1>16. ASSUME NEW c \in Cpus, NEW n \in RunSizes, AllocRun(c, n) PROVE Types'
  BY <1>16, Zenon DEF AllocRun, ownerVars
<1>17. ASSUME NEW c \in Cpus, TakeBlock(c) PROVE Types'
  <2> DEFINE blocks == Blocks(BlockSize(want[c]))
  <2>1. visit' = [visit EXCEPT ![c] = 0] /\ 0 \in Cpus
    BY <1>17, MaxCpusAssumption DEF TakeBlock, Cpus
  <2>2. CASE \E b \in blocks : /\ central' = central \ b
                               /\ hand' = At(hand, c, b)
                               /\ Goto(c, "runCount")
    BY <1>17, <2>1, <2>2, BlocksFree DEF TakeBlock, ownerVars
  <2>3. CASE UNCHANGED <<central, hand>>
    BY <1>17, <2>1, <2>3 DEF TakeBlock, ownerVars
  <2> QED  BY <1>17, <2>2, <2>3, Zenon DEF TakeBlock
<1>18. ASSUME NEW c \in Cpus, RunCount(c) PROVE Types'
  BY <1>18 DEF RunCount
<1>19. ASSUME NEW c \in Cpus, NEW r \in dma, FreeRun(c, r) PROVE Types'
  BY <1>19, Zenon DEF FreeRun
<1>20. ASSUME NEW c \in Cpus, RunCredit(c) PROVE Types'
  BY <1>20, Zenon DEF RunCredit, ownerVars
<1> QED
  BY <1>1, <1>2, <1>3, <1>4, <1>5, <1>6, <1>7, <1>8, <1>9, <1>10, <1>11, <1>12,
     <1>13, <1>14, <1>15, <1>16, <1>17, <1>18, <1>19, <1>20, Zenon
  DEF Next, Calls, Steps


LEMMA ShapeStep ==
    ASSUME Types, Shape, [Next]_vars
    PROVE  Shape'
<1> USE DEF Types, Shape, At, Goto, Pcs
<1>1. CASE UNCHANGED vars
  BY <1>1, Zenon DEF vars, ownerVars, callVars
<1>2. ASSUME NEW c \in Cpus, AllocFrame(c) PROVE Shape'
  BY <1>2 DEF AllocFrame, ownerVars
<1>3. ASSUME NEW c \in Cpus, TakeRun(c) PROVE Shape'
  BY <1>3 DEF TakeRun, ownerVars
<1>4. ASSUME NEW c \in Cpus, StoreRun(c) PROVE Shape'
  BY <1>4 DEF StoreRun, ownerVars
<1>5. ASSUME NEW c \in Cpus, Give(c) PROVE Shape'
  BY <1>5, Zenon DEF Give, ownerVars
<1>6. ASSUME NEW c \in Cpus, Drain(c) PROVE Shape'
  BY <1>6, Zenon DEF Drain, ownerVars
<1>7. ASSUME NEW c \in Cpus, Drained(c) PROVE Shape'
  BY <1>7 DEF Drained, ownerVars
<1>8. ASSUME NEW c \in Cpus, Count(c) PROVE Shape'
  BY <1>8, Zenon DEF Count, ownerVars
<1>9. ASSUME NEW c \in Cpus, NEW h \in Handles, NewTracker(c, h) PROVE Shape'
  BY <1>9 DEF NewTracker
<1>10. ASSUME NEW c \in Cpus, NEW h \in Handles, NEW k \in Handles,
              CloneTracker(c, h, k)
       PROVE  Shape'
  BY <1>10, Zenon DEF CloneTracker, callVars
<1>11. ASSUME NEW c \in Cpus, NEW h \in Handles, DropTracker(c, h) PROVE Shape'
  <2>1. holds[h] \in Frames
    BY <1>11, Zenon DEF DropTracker
  <2> QED  BY <1>11, <2>1 DEF DropTracker
<1>12. ASSUME NEW c \in Cpus, NEW h \in Handles, IntoRaw(c, h) PROVE Shape'
  BY <1>12, Zenon DEF IntoRaw, callVars
<1>13. ASSUME NEW c \in Cpus, NEW f \in raw, FreeRaw(c, f) PROVE Shape'
  BY <1>13, Zenon DEF FreeRaw
<1>14. ASSUME NEW c \in Cpus, Credit(c) PROVE Shape'
  BY <1>14, Zenon DEF Credit, ownerVars
<1>15. ASSUME NEW c \in Cpus, PushFrame(c) PROVE Shape'
  BY <1>15 DEF PushFrame, ownerVars
<1>16. ASSUME NEW c \in Cpus, NEW n \in RunSizes, AllocRun(c, n) PROVE Shape'
  BY <1>16, Zenon DEF AllocRun, ownerVars
<1>17. ASSUME NEW c \in Cpus, TakeBlock(c) PROVE Shape'
  BY <1>17 DEF TakeBlock, ownerVars
<1>18. ASSUME NEW c \in Cpus, RunCount(c) PROVE Shape'
  BY <1>18, Zenon DEF RunCount
<1>19. ASSUME NEW c \in Cpus, NEW r \in dma, FreeRun(c, r) PROVE Shape'
  BY <1>19, Zenon DEF FreeRun
<1>20. ASSUME NEW c \in Cpus, RunCredit(c) PROVE Shape'
  BY <1>20, Zenon DEF RunCredit, ownerVars
<1> QED
  BY <1>1, <1>2, <1>3, <1>4, <1>5, <1>6, <1>7, <1>8, <1>9, <1>10, <1>11, <1>12,
     <1>13, <1>14, <1>15, <1>16, <1>17, <1>18, <1>19, <1>20, Zenon
  DEF Next, Calls, Steps

\* One tracker more, or one less, of a frame.
LEMMA OneMore ==
    ASSUME Types, RefsExact, NEW h \in Handles, NEW f \in Frames,
           holds[h] = None,
           refs' = [refs EXCEPT ![f] = @ + 1],
           holds' = [holds EXCEPT ![h] = f]
    PROVE  RefsExact'
<1> SUFFICES ASSUME NEW g \in Frames
             PROVE  refs'[g] = Cardinality({k \in Handles : holds'[k] = g})
  BY Zenon DEF RefsExact
<1> DEFINE S == {k \in Handles : holds[k] = g}
<1>1. refs[g] = Cardinality(S) /\ IsFiniteSet(S) /\ h \notin S /\ refs[g] \in Nat
  BY HandlesAssumption, FS_Subset, FrameNoneAssumption, Zenon DEF RefsExact, Types
<1>2. CASE g = f
  <2>1. {k \in Handles : holds'[k] = g} = S \cup {h}
    BY <1>2, Zenon DEF Types
  <2>2. Cardinality(S \cup {h}) = Cardinality(S) + 1
    BY <1>1, FS_AddElement, Zenon
  <2>3. refs'[g] = refs[g] + 1
    BY <1>2, Zenon DEF Types
  <2> QED  BY <1>1, <2>1, <2>2, <2>3, Zenon
<1>3. CASE g # f
  <2>1. {k \in Handles : holds'[k] = g} = S
    BY <1>1, <1>3, Zenon DEF Types
  <2>2. refs'[g] = refs[g]
    BY <1>3, Zenon DEF Types
  <2> QED  BY <1>1, <2>1, <2>2, Zenon
<1> QED  BY <1>2, <1>3, Zenon

LEMMA OneLess ==
    ASSUME Types, RefsExact, NEW h \in Handles, holds[h] # None,
           refs' = [refs EXCEPT ![holds[h]] = @ - 1],
           holds' = [holds EXCEPT ![h] = None]
    PROVE  RefsExact'
<1> SUFFICES ASSUME NEW g \in Frames
             PROVE  refs'[g] = Cardinality({k \in Handles : holds'[k] = g})
  BY Zenon DEF RefsExact
<1> DEFINE S == {k \in Handles : holds[k] = g}
<1>1. refs[g] = Cardinality(S) /\ IsFiniteSet(S) /\ refs[g] \in Nat
  BY HandlesAssumption, FS_Subset, Zenon DEF RefsExact, Types
<1>2. CASE g = holds[h]
  <2>1. {k \in Handles : holds'[k] = g} = S \ {h} /\ h \in S
    BY <1>2, FrameNoneAssumption, Zenon DEF Types
  <2>2. Cardinality(S \ {h}) = Cardinality(S) - 1
    BY <1>1, <2>1, FS_RemoveElement, Zenon
  <2>3. refs'[g] = refs[g] - 1
    BY <1>2, Zenon DEF Types
  <2> QED  BY <1>1, <2>1, <2>2, <2>3, Zenon
<1>3. CASE g # holds[h]
  <2>1. {k \in Handles : holds'[k] = g} = S
    BY <1>3, FrameNoneAssumption, Zenon DEF Types
  <2>2. refs'[g] = refs[g]
    BY <1>3, Zenon DEF Types
  <2> QED  BY <1>1, <2>1, <2>2, Zenon
<1> QED  BY <1>2, <1>3, Zenon

LEMMA RefsStep ==
    ASSUME Types, RefsExact, [Next]_vars
    PROVE  RefsExact'
<1>1. CASE UNCHANGED <<refs, holds>>
  BY <1>1, Zenon DEF RefsExact
<1>2. ASSUME NEW c \in Cpus, NEW h \in Handles, NewTracker(c, h)
      PROVE  RefsExact'
  <2>1. PICK f \in hand[c] : /\ refs' = [refs EXCEPT ![f] = @ + 1]
                             /\ holds' = [holds EXCEPT ![h] = f]
    BY <1>2, Zenon DEF NewTracker
  <2>2. f \in Frames /\ holds[h] = None
    BY <1>2, Zenon DEF NewTracker, Types
  <2> QED  BY <2>1, <2>2, OneMore, Zenon
<1>3. ASSUME NEW c \in Cpus, NEW h \in Handles, NEW k \in Handles,
             CloneTracker(c, h, k)
      PROVE  RefsExact'
  <2>1. holds[h] \in Frames
    BY <1>3, Zenon DEF CloneTracker, Types
  <2> QED  BY <1>3, <2>1, OneMore, Zenon DEF CloneTracker
<1>4. ASSUME NEW c \in Cpus, NEW h \in Handles, DropTracker(c, h)
      PROVE  RefsExact'
  BY <1>4, OneLess, Zenon DEF DropTracker
<1>5. ASSUME NEW c \in Cpus, NEW h \in Handles, IntoRaw(c, h)
      PROVE  RefsExact'
  BY <1>5, OneLess, Zenon DEF IntoRaw
<1>6. CASE UNCHANGED vars
  BY <1>1, <1>6, Zenon DEF vars, ownerVars
<1>7. ASSUME NEW c \in Cpus, Steps(c) PROVE RefsExact'
  BY <1>1, <1>2, <1>7, Zenon DEF Steps, TakeRun, StoreRun, Give, Drain, Drained,
     Count, Credit, PushFrame, TakeBlock, RunCount, RunCredit, ownerVars
<1>8. ASSUME NEW c \in Cpus, Calls(c) PROVE RefsExact'
  BY <1>1, <1>3, <1>4, <1>5, <1>8, Zenon DEF Calls, AllocFrame, FreeRaw, AllocRun,
     FreeRun, ownerVars
<1> QED  BY <1>6, <1>7, <1>8, Zenon DEF Next

\* The last drop takes the frame from the live ones.
LEMMA LiveAfterDrop ==
    ASSUME Types, NEW f \in Frames, refs[f] \in Nat \ {0},
           refs' = [refs EXCEPT ![f] = @ - 1]
    PROVE  /\ f \in Live
           /\ refs[f] = 1 => Live' = Live \ {f}
           /\ refs[f] # 1 => Live' = Live
<1>1. \A g \in Frames : refs'[g] = IF g = f THEN refs[f] - 1 ELSE refs[g]
  BY Zenon DEF Types
<1>2. f \in Live
  BY DEF Live
<1>3. CASE refs[f] = 1
  BY <1>1, <1>2, <1>3 DEF Live
<1>4. CASE refs[f] # 1
  BY <1>1, <1>2, <1>4 DEF Live
<1> QED  BY <1>2, <1>3, <1>4, Zenon

OwnersCounted == Types /\ Shape /\ RefsExact

LEMMA CountedInit == Init => OwnersCounted
<1> SUFFICES ASSUME Init PROVE OwnersCounted
  BY Zenon
<1>1. 0 \in Cpus
  BY MaxCpusAssumption DEF Cpus
<1>2. Types /\ Shape
  BY <1>1, Zenon DEF Init, Types, Shape, Pcs
<1>3. ASSUME NEW f \in Frames PROVE {h \in Handles : holds[h] = f} = {}
  BY FrameNoneAssumption, Zenon DEF Init
<1>4. RefsExact
  BY <1>3, FS_EmptySet, Zenon DEF Init, RefsExact
<1> QED  BY <1>2, <1>4, Zenon DEF OwnersCounted

LEMMA CountedStep == OwnersCounted /\ [Next]_vars => OwnersCounted'
BY TypesStep, ShapeStep, RefsStep, Zenon DEF OwnersCounted

\* The owner counts are the numbers of FrameTrackers (RefsExact), so the
\* assertions in FrameTracker::new, clone and drop cannot fail.
THEOREM CountsExact == Spec => []RefsExact
<1>1. OwnersCounted => RefsExact
  BY Zenon DEF OwnersCounted
<1> QED  BY <1>1, CountedInit, CountedStep, PTL DEF Spec

-----------------------------------------------------------------------------
(* Every frame is in one place and in one only, for any number of frames,  *)
(* CPUs and trackers and any sizes of the caches.  Each step is first       *)
(* described by what it moves from where to where; the two halves of        *)
(* Partition follow from that description alone.                            *)

Partition == OneOwner /\ NoFrameLost

\* A new tracker makes its frame live.
LEMMA LiveAfterNew ==
    ASSUME Types, NEW f \in Frames, refs' = [refs EXCEPT ![f] = @ + 1]
    PROVE  Live' = Live \cup {f}
<1>1. \A g \in Frames : refs'[g] = IF g = f THEN refs[f] + 1 ELSE refs[g]
  BY Zenon DEF Types
<1>2. \A g \in Frames : refs[g] \in Nat
  BY Zenon DEF Types
<1> QED  BY <1>1, <1>2 DEF Live

LEMMA PartitionInit ==
    ASSUME Init
    PROVE  Partition
<1>1. /\ Live = {} /\ raw = {} /\ dma = {} /\ central = Frames
      /\ \A c \in Cpus : cache[c] = {} /\ hand[c] = {} /\ batch[c] = {}
  BY DEF Init, Live
<1>2. OneOwner
  BY <1>1, Zenon DEF OneOwner, Apart
<1>3. NoFrameLost
  BY <1>1, Zenon DEF NoFrameLost
<1> QED  BY <1>2, <1>3, Zenon DEF Partition

\* Nothing moves.
LEMMA NothingMoves ==
    ASSUME Partition,
           UNCHANGED <<central, cache, hand, batch, raw, dma>>, Live' = Live
    PROVE  Partition'
<1>1. OneOwner'
  BY Zenon DEF Partition, OneOwner, Apart
<1>2. NoFrameLost'
  BY Zenon DEF Partition, NoFrameLost
<1> QED  BY <1>1, <1>2, Zenon DEF Partition

\* A call takes free frames from the buddy allocator.
LEMMA RunMoves ==
    ASSUME Partition, NEW c \in Cpus, NEW b, b \subseteq central,
           central' = central \ b,
           \A d \in Cpus : hand'[d] = IF d = c THEN b ELSE hand[d],
           hand[c] = {},
           UNCHANGED <<cache, raw, dma, batch>>, Live' = Live
    PROVE  Partition'
<1>1. OneOwner'
  BY DEF Partition, OneOwner, Apart
<1>2. NoFrameLost'
  BY Zenon DEF Partition, NoFrameLost
<1> QED  BY <1>1, <1>2, Zenon DEF Partition

\* central_dealloc_pages(): the batch of a call becomes free.
LEMMA BatchMoves ==
    ASSUME Partition, NEW c \in Cpus,
           central' = central \cup batch[c],
           \A d \in Cpus : batch'[d] = IF d = c THEN {} ELSE batch[d],
           UNCHANGED <<cache, hand, raw, dma>>, Live' = Live
    PROVE  Partition'
<1>1. OneOwner'
  BY DEF Partition, OneOwner, Apart
<1>2. NoFrameLost'
  BY Zenon DEF Partition, NoFrameLost
<1> QED  BY <1>1, <1>2, Zenon DEF Partition

\* A call moves frames between the cache of its CPU, its hands and its batch.
LEMMA OwnMoves ==
    ASSUME Partition, NEW c \in Cpus,
           \A d \in Cpus \ {c} : /\ cache'[d] = cache[d]
                                 /\ hand'[d] = hand[d]
                                 /\ batch'[d] = batch[d],
           Apart(cache'[c], hand'[c]), Apart(cache'[c], batch'[c]),
           Apart(hand'[c], batch'[c]),
           cache'[c] \cup hand'[c] \cup batch'[c] = cache[c] \cup hand[c] \cup batch[c],
           UNCHANGED <<central, raw, dma>>, Live' = Live
    PROVE  Partition'
<1> DEFINE own(d) == cache[d] \cup hand[d] \cup batch[d]
<1>1. \A d \in Cpus : \A f :
         f \in cache'[d] \/ f \in hand'[d] \/ f \in batch'[d] <=> f \in own(d)
  BY Zenon
<1>2. OneOwner'
  <2>1. \A d \in Cpus : /\ Apart(cache'[d], hand'[d]) /\ Apart(cache'[d], batch'[d])
                        /\ Apart(hand'[d], batch'[d])
    BY Zenon DEF Partition, OneOwner
  <2>2. \A d, e \in Cpus : d # e => \A f \in own(d) : f \notin own(e)
    BY Zenon DEF Partition, OneOwner, Apart
  <2>3. \A d, e \in Cpus : d # e =>
           \A f : f \in cache'[d] \/ f \in hand'[d] \/ f \in batch'[d] =>
                  f \notin cache'[e] /\ f \notin hand'[e] /\ f \notin batch'[e]
    BY <1>1, <2>2, Zenon
  <2>4. \A d \in Cpus : \A f \in own(d) : f \notin central \cup Live \cup raw
    BY Zenon DEF Partition, OneOwner, Apart
  <2>5. \A r \in dma, d \in Cpus : \A f \in r.block : f \notin own(d)
    BY Zenon DEF Partition, OneOwner, Apart
  <2>6. /\ Apart(central, Live \cup raw) /\ Apart(Live, raw)
        /\ \A r \in dma : /\ Apart(r.block, central \cup Live \cup raw)
                          /\ \A s \in dma : r # s => Apart(r.block, s.block)
    BY Zenon DEF Partition, OneOwner
  <2> HIDE DEF own
  <2>7. \A d, e \in Cpus : /\ Apart(cache'[d], hand'[e]) /\ Apart(cache'[d], batch'[e])
                           /\ Apart(hand'[d], batch'[e])
    BY <2>1, <2>3, Zenon DEF Apart
  <2>8. \A d, e \in Cpus : d # e => /\ Apart(cache'[d], cache'[e]) /\ Apart(hand'[d], hand'[e])
                                    /\ Apart(batch'[d], batch'[e])
    BY <2>3, Zenon DEF Apart
  <2>9. \A d \in Cpus : Apart(cache'[d] \cup hand'[d] \cup batch'[d], central' \cup Live' \cup raw')
    BY <1>1, <2>4, Zenon DEF Apart
  <2>10. \A r \in dma', d \in Cpus : Apart(r.block, cache'[d] \cup hand'[d] \cup batch'[d])
    BY <1>1, <2>5, Zenon DEF Apart
  <2> QED  BY <2>6, <2>7, <2>8, <2>9, <2>10, Zenon DEF OneOwner
<1>3. NoFrameLost'
  BY <1>1, Zenon DEF Partition, NoFrameLost
<1> QED  BY <1>2, <1>3, Zenon DEF Partition

\* The cache, the hands and the batch of a CPU share nothing.
LEMMA OwnApart ==
    ASSUME Partition, NEW c \in Cpus
    PROVE  /\ Apart(cache[c], hand[c]) /\ Apart(cache[c], batch[c])
           /\ Apart(hand[c], batch[c])
BY Zenon DEF Partition, OneOwner

\* A frame that a tracker or a page table owned comes into the hands of the
\* call that frees it.
LEMMA FreedMoves ==
    ASSUME Partition, NEW c \in Cpus, NEW f \in Live \cup raw,
           \A d \in Cpus : hand'[d] = IF d = c THEN {f} ELSE hand[d],
           hand[c] = {},
           UNCHANGED <<central, cache, batch, dma>>,
           Live' = Live \ {f}, raw' = raw \ {f}
    PROVE  Partition'
<1>1. OneOwner'
  BY DEF Partition, OneOwner, Apart
<1>2. NoFrameLost'
  BY Zenon DEF Partition, NoFrameLost
<1> QED  BY <1>1, <1>2, Zenon DEF Partition

\* drain_all_frame_caches(): a cache becomes the batch of the call.
LEMMA DrainMoves ==
    ASSUME Partition, NEW c \in Cpus, NEW v \in Cpus,
           \A d \in Cpus : /\ cache'[d] = IF d = v THEN {} ELSE cache[d]
                           /\ batch'[d] = IF d = c THEN cache[v] ELSE batch[d],
           batch[c] = {},
           UNCHANGED <<central, hand, raw, dma>>, Live' = Live
    PROVE  Partition'
<1>1. OneOwner'
  BY DEF Partition, OneOwner, Apart
<1>2. NoFrameLost'
  BY DEF Partition, NoFrameLost
<1> QED  BY <1>1, <1>2, Zenon DEF Partition

\* The frame of a call becomes a tracker's.
LEMMA NewMoves ==
    ASSUME Partition, NEW c \in Cpus, NEW f, hand[c] = {f}, Live' = Live \cup {f},
           \A d \in Cpus : hand'[d] = IF d = c THEN {} ELSE hand[d],
           UNCHANGED <<central, cache, raw, dma, batch>>
    PROVE  Partition'
<1>1. OneOwner'
  BY DEF Partition, OneOwner, Apart
<1>2. NoFrameLost'
  BY Zenon DEF Partition, NoFrameLost
<1> QED  BY <1>1, <1>2, Zenon DEF Partition

\* A tracker's frame becomes a page table.
LEMMA RawMoves ==
    ASSUME Partition, NEW f \in Live, Live' = Live \ {f}, raw' = raw \cup {f},
           UNCHANGED <<central, cache, hand, batch, dma>>
    PROVE  Partition'
<1>1. OneOwner'
  BY DEF Partition, OneOwner, Apart
<1>2. NoFrameLost'
  BY Zenon DEF Partition, NoFrameLost
<1> QED  BY <1>1, <1>2, Zenon DEF Partition

\* The frames of a call become a run.
LEMMA RunGoesOut ==
    ASSUME Partition, NEW c \in Cpus, NEW run, run.block = hand[c], dma' = dma \cup {run},
           \A d \in Cpus : hand'[d] = IF d = c THEN {} ELSE hand[d],
           UNCHANGED <<central, cache, raw, batch>>, Live' = Live
    PROVE  Partition'
<1>1. OneOwner'
  BY DEF Partition, OneOwner, Apart
<1>2. NoFrameLost'
  BY Zenon DEF Partition, NoFrameLost
<1> QED  BY <1>1, <1>2, Zenon DEF Partition

\* A run becomes free.
LEMMA RunComesBack ==
    ASSUME Partition, NEW r \in dma, dma' = dma \ {r}, central' = central \cup r.block,
           UNCHANGED <<cache, hand, raw, batch>>, Live' = Live
    PROVE  Partition'
<1>1. OneOwner'
  BY DEF Partition, OneOwner, Apart
<1>2. NoFrameLost'
  BY Zenon DEF Partition, NoFrameLost
<1> QED  BY <1>1, <1>2, Zenon DEF Partition

LEMMA PartitionStep ==
    ASSUME Types, Shape, RefsExact, Partition, [Next]_vars
    PROVE  Partition'
<1>1. CASE UNCHANGED vars
  <2>1. UNCHANGED <<central, cache, hand, batch, raw, dma>> /\ Live' = Live
    BY <1>1, Zenon DEF vars, ownerVars, callVars, Live
  <2> QED  BY <2>1, NothingMoves, Zenon
<1>2. ASSUME NEW c \in Cpus, AllocFrame(c) PROVE Partition'
  <2>1. UNCHANGED <<central, raw, dma, batch>> /\ Live' = Live /\ hand[c] = {}
    BY <1>2, Zenon DEF AllocFrame, ownerVars, Live, Shape
  <2>2. CASE \E f \in cache[c] : /\ cache' = At(cache, c, cache[c] \ {f})
                                 /\ hand' = At(hand, c, {f})
    <3>1. PICK f \in cache[c] : /\ cache' = At(cache, c, cache[c] \ {f})
                                /\ hand' = At(hand, c, {f})
      BY <2>2, Zenon
    <3>2. \A d \in Cpus :
             /\ cache'[d] = IF d = c THEN cache[c] \ {f} ELSE cache[d]
             /\ hand'[d] = IF d = c THEN {f} ELSE hand[d]
      BY <3>1, Zenon DEF At, Types
    <3>3. /\ Apart(cache'[c], hand'[c]) /\ Apart(cache'[c], batch'[c])
          /\ Apart(hand'[c], batch'[c])
          /\ cache'[c] \cup hand'[c] \cup batch'[c] = cache[c] \cup hand[c] \cup batch[c]
      BY <2>1, <3>1, <3>2, OwnApart, Zenon DEF Apart
    <3> QED  BY <2>1, <3>2, <3>3, OwnMoves, Zenon
  <2>3. CASE UNCHANGED <<cache, hand>>
    BY <2>1, <2>3, NothingMoves, Zenon
  <2> QED  BY <1>2, <2>2, <2>3, Zenon DEF AllocFrame
<1>3. ASSUME NEW c \in Cpus, TakeRun(c) PROVE Partition'
  <2>1. UNCHANGED <<cache, raw, dma, batch>> /\ Live' = Live /\ hand[c] = {}
    BY <1>3, Zenon DEF TakeRun, ownerVars, Live, Shape
  <2>2. ASSUME NEW b \in BestRuns(Refill), central' = central \ b,
               hand' = At(hand, c, b)
        PROVE  Partition'
    <3>1. \A d \in Cpus : hand'[d] = IF d = c THEN b ELSE hand[d]
      BY <2>2, Zenon DEF At, Types
    <3> QED  BY <2>1, <2>2, <3>1, RunsFree, RunMoves, Zenon
  <2>3. CASE UNCHANGED <<central, hand>>
    BY <2>1, <2>3, NothingMoves, Zenon
  <2> QED  BY <1>3, <2>2, <2>3, Zenon DEF TakeRun
<1>4. ASSUME NEW c \in Cpus, StoreRun(c) PROVE Partition'
  <2>1. UNCHANGED <<central, raw, dma>> /\ Live' = Live /\ batch[c] = {}
    BY <1>4, Zenon DEF StoreRun, ownerVars, Live, Shape
  <2>2. PICK first \in hand[c], kept \in SUBSET hand[c] :
           /\ first \notin kept
           /\ cache' = At(cache, c, cache[c] \cup kept)
           /\ batch' = At(batch, c, hand[c] \ (kept \cup {first}))
           /\ hand' = At(hand, c, {first})
    BY <1>4, Zenon DEF StoreRun
  <2>3. \A d \in Cpus :
           /\ cache'[d] = IF d = c THEN cache[c] \cup kept ELSE cache[d]
           /\ batch'[d] = IF d = c THEN hand[c] \ (kept \cup {first}) ELSE batch[d]
           /\ hand'[d] = IF d = c THEN {first} ELSE hand[d]
    BY <2>2, Zenon DEF At, Types
  <2>4. /\ Apart(cache'[c], hand'[c]) /\ Apart(cache'[c], batch'[c])
        /\ Apart(hand'[c], batch'[c])
        /\ cache'[c] \cup hand'[c] \cup batch'[c] = cache[c] \cup hand[c] \cup batch[c]
    <3>1. /\ cache'[c] = cache[c] \cup kept /\ hand'[c] = {first}
          /\ batch'[c] = hand[c] \ (kept \cup {first})
      BY <2>3, Zenon
    <3>2. /\ batch[c] = {} /\ first \in hand[c] /\ kept \subseteq hand[c] /\ first \notin kept
          /\ \A f \in cache[c] : f \notin hand[c]
      BY <2>1, <2>2, OwnApart, Zenon DEF Apart
    <3> QED  BY <3>1, <3>2, Zenon DEF Apart
  <2> QED  BY <2>1, <2>3, <2>4, OwnMoves, Zenon
<1>5. ASSUME NEW c \in Cpus, Give(c) PROVE Partition'
  <2>1. /\ central' = central \cup batch[c]
        /\ \A d \in Cpus : batch'[d] = IF d = c THEN {} ELSE batch[d]
        /\ UNCHANGED <<cache, hand, raw, dma>> /\ Live' = Live
    BY <1>5, Zenon DEF Give, ownerVars, Live, At, Types
  <2> QED  BY <2>1, BatchMoves, Zenon
<1>6. ASSUME NEW c \in Cpus, Drain(c) PROVE Partition'
  <2>1. UNCHANGED <<central, hand, raw, dma>> /\ Live' = Live /\ batch[c] = {}
    BY <1>6, Zenon DEF Drain, ownerVars, Live, Shape
  <2>2. PICK v \in Cpus : v = visit[c]
    BY Zenon DEF Types
  <2>3. \A d \in Cpus :
           /\ cache'[d] = IF d = v THEN {} ELSE cache[d]
           /\ batch'[d] = IF d = c THEN cache[v] ELSE batch[d]
    BY <1>6, <2>2, Zenon DEF Drain, At, Types
  <2> QED  BY <2>1, <2>3, DrainMoves, Zenon
<1>7. ASSUME NEW c \in Cpus, Drained(c) PROVE Partition'
  <2>1. /\ central' = central \cup batch[c]
        /\ \A d \in Cpus : batch'[d] = IF d = c THEN {} ELSE batch[d]
        /\ UNCHANGED <<cache, hand, raw, dma>> /\ Live' = Live
    BY <1>7, Zenon DEF Drained, ownerVars, Live, At, Types
  <2> QED  BY <2>1, BatchMoves
<1>8. ASSUME NEW c \in Cpus, Count(c) PROVE Partition'
  <2>1. UNCHANGED <<central, cache, hand, batch, raw, dma>> /\ Live' = Live
    BY <1>8, Zenon DEF Count, ownerVars, Live
  <2> QED  BY <2>1, NothingMoves, Zenon
<1>9. ASSUME NEW c \in Cpus, NEW h \in Handles, NewTracker(c, h)
      PROVE  Partition'
  <2>1. PICK f \in hand[c] : refs' = [refs EXCEPT ![f] = @ + 1]
    BY <1>9, Zenon DEF NewTracker
  <2>2. f \in Frames /\ hand[c] = {f}
    BY <1>9 DEF NewTracker, Shape, Types
  <2>3. Live' = Live \cup {f}
    BY <2>1, <2>2, LiveAfterNew, Zenon
  <2>4. /\ \A d \in Cpus : hand'[d] = IF d = c THEN {} ELSE hand[d]
        /\ UNCHANGED <<central, cache, raw, dma, batch>>
    BY <1>9, Zenon DEF NewTracker, At, Types
  <2> QED  BY <2>2, <2>3, <2>4, NewMoves, Zenon
<1>10. ASSUME NEW c \in Cpus, NEW h \in Handles, NEW k \in Handles,
              CloneTracker(c, h, k)
       PROVE  Partition'
  <2>1. holds[h] \in Frames /\ refs[holds[h]] \in Nat \ {0}
    BY <1>10, HeldIsLive, Zenon DEF CloneTracker
  <2>2. Live' = Live \cup {holds[h]}
    BY <1>10, <2>1, LiveAfterNew, Zenon DEF CloneTracker
  <2>3. holds[h] \in Live
    BY <2>1 DEF Live
  <2>4. UNCHANGED <<central, cache, hand, batch, raw, dma>>
    BY <1>10, Zenon DEF CloneTracker, callVars
  <2> QED  BY <2>2, <2>3, <2>4, NothingMoves, Zenon
<1>11. ASSUME NEW c \in Cpus, NEW h \in Handles, DropTracker(c, h)
       PROVE  Partition'
  <2>1. PICK f \in Frames : f = holds[h] /\ refs[f] \in Nat \ {0}
    BY <1>11, HeldIsLive, Zenon DEF DropTracker
  <2>2. refs' = [refs EXCEPT ![f] = @ - 1]
    BY <1>11, <2>1, Zenon DEF DropTracker
  <2>3. UNCHANGED <<central, cache, raw, dma, batch>> /\ hand[c] = {}
    BY <1>11, Zenon DEF DropTracker, Shape
  <2>4. CASE refs[f] = 1
    <3>1. f \in Live /\ Live' = Live \ {f}
      BY <2>1, <2>2, <2>4, LiveAfterDrop, Zenon
    <3>2. \A d \in Cpus : hand'[d] = IF d = c THEN {f} ELSE hand[d]
      BY <1>11, <2>1, <2>4, Zenon DEF DropTracker, At, Types
    <3>3. f \notin raw
      BY <3>1, Zenon DEF Partition, OneOwner, Apart
    <3> QED  BY <2>3, <3>1, <3>2, <3>3, FreedMoves
  <2>5. CASE refs[f] # 1
    <3>1. Live' = Live
      BY <2>1, <2>2, <2>5, LiveAfterDrop, Zenon
    <3>2. UNCHANGED hand
      BY <1>11, <2>1, <2>5, Zenon DEF DropTracker
    <3> QED  BY <2>3, <3>1, <3>2, NothingMoves, Zenon
  <2> QED  BY <2>4, <2>5, Zenon
<1>12. ASSUME NEW c \in Cpus, NEW h \in Handles, IntoRaw(c, h)
       PROVE  Partition'
  <2>1. PICK f \in Frames : f = holds[h] /\ refs[f] \in Nat \ {0}
    BY <1>12, HeldIsLive, Zenon DEF IntoRaw
  <2>2. refs' = [refs EXCEPT ![f] = @ - 1] /\ refs[f] = 1
    BY <1>12, <2>1, Zenon DEF IntoRaw
  <2>3. f \in Live /\ Live' = Live \ {f}
    BY <2>1, <2>2, LiveAfterDrop, Zenon
  <2>4. raw' = raw \cup {f} /\ UNCHANGED <<central, cache, hand, batch, dma>>
    BY <1>12, <2>1, Zenon DEF IntoRaw, callVars
  <2> QED  BY <2>3, <2>4, RawMoves, Zenon
<1>13. ASSUME NEW c \in Cpus, NEW f \in raw, FreeRaw(c, f) PROVE Partition'
  <2>1. /\ \A d \in Cpus : hand'[d] = IF d = c THEN {f} ELSE hand[d]
        /\ raw' = raw \ {f} /\ hand[c] = {} /\ Live' = Live
        /\ UNCHANGED <<central, cache, batch, dma>>
    BY <1>13, Zenon DEF FreeRaw, At, Types, Shape, Live
  <2>2. f \notin Live
    BY <1>13, Zenon DEF Partition, OneOwner, Apart
  <2> QED  BY <2>1, <2>2, FreedMoves
<1>14. ASSUME NEW c \in Cpus, Credit(c) PROVE Partition'
  <2>1. UNCHANGED <<central, cache, hand, batch, raw, dma>> /\ Live' = Live
    BY <1>14, Zenon DEF Credit, ownerVars, Live
  <2> QED  BY <2>1, NothingMoves
<1>15. ASSUME NEW c \in Cpus, PushFrame(c) PROVE Partition'
  <2>1. UNCHANGED <<central, raw, dma>> /\ Live' = Live /\ batch[c] = {}
    BY <1>15, Zenon DEF PushFrame, ownerVars, Live, Shape
  <2>2. PICK out \in SUBSET cache[c] :
           /\ cache' = At(cache, c, (cache[c] \ out) \cup hand[c])
           /\ batch' = At(batch, c, out)
    BY <1>15, Zenon DEF PushFrame
  <2>3. \A d \in Cpus :
           /\ cache'[d] = IF d = c THEN (cache[c] \ out) \cup hand[c] ELSE cache[d]
           /\ batch'[d] = IF d = c THEN out ELSE batch[d]
           /\ hand'[d] = IF d = c THEN {} ELSE hand[d]
    BY <1>15, <2>2, Zenon DEF PushFrame, At, Types
  <2>4. /\ Apart(cache'[c], hand'[c]) /\ Apart(cache'[c], batch'[c])
        /\ Apart(hand'[c], batch'[c])
        /\ cache'[c] \cup hand'[c] \cup batch'[c] = cache[c] \cup hand[c] \cup batch[c]
    BY <2>1, <2>2, <2>3, OwnApart, Zenon DEF Apart
  <2> QED  BY <2>1, <2>3, <2>4, OwnMoves, Zenon
<1>16. ASSUME NEW c \in Cpus, NEW n \in RunSizes, AllocRun(c, n)
       PROVE  Partition'
  <2>1. UNCHANGED <<central, cache, hand, batch, raw, dma>> /\ Live' = Live
    BY <1>16, Zenon DEF AllocRun, ownerVars, Live
  <2> QED  BY <2>1, NothingMoves, Zenon
<1>17. ASSUME NEW c \in Cpus, TakeBlock(c) PROVE Partition'
  <2>1. UNCHANGED <<cache, raw, dma, batch>> /\ Live' = Live /\ hand[c] = {}
    BY <1>17, Zenon DEF TakeBlock, ownerVars, Live, Shape
  <2>2. ASSUME NEW b \in Blocks(BlockSize(want[c])), central' = central \ b,
               hand' = At(hand, c, b)
        PROVE  Partition'
    <3>1. \A d \in Cpus : hand'[d] = IF d = c THEN b ELSE hand[d]
      BY <2>2, Zenon DEF At, Types
    <3> QED  BY <2>1, <2>2, <3>1, BlocksFree, RunMoves, Zenon
  <2>3. CASE UNCHANGED <<central, hand>>
    BY <2>1, <2>3, NothingMoves
  <2> QED  BY <1>17, <2>2, <2>3, Zenon DEF TakeBlock
<1>18. ASSUME NEW c \in Cpus, RunCount(c) PROVE Partition'
  <2>1. PICK run : run = [block |-> hand[c], pages |-> want[c]]
    BY Zenon
  <2>2. /\ dma' = dma \cup {run} /\ run.block = hand[c]
        /\ \A d \in Cpus : hand'[d] = IF d = c THEN {} ELSE hand[d]
        /\ UNCHANGED <<central, cache, raw, batch>> /\ Live' = Live
    BY <1>18, <2>1, Zenon DEF RunCount, At, Types, Live
  <2> QED  BY <2>2, RunGoesOut, Zenon
<1>19. ASSUME NEW c \in Cpus, NEW r \in dma, FreeRun(c, r) PROVE Partition'
  <2>1. /\ dma' = dma \ {r} /\ central' = central \cup r.block
        /\ UNCHANGED <<cache, hand, raw, batch>> /\ Live' = Live
    BY <1>19, Zenon DEF FreeRun, Live
  <2> QED  BY <1>19, <2>1, RunComesBack, Zenon
<1>20. ASSUME NEW c \in Cpus, RunCredit(c) PROVE Partition'
  <2>1. UNCHANGED <<central, cache, hand, batch, raw, dma>> /\ Live' = Live
    BY <1>20, Zenon DEF RunCredit, ownerVars, Live
  <2> QED  BY <2>1, NothingMoves
<1> QED
  BY <1>1, <1>2, <1>3, <1>4, <1>5, <1>6, <1>7, <1>8, <1>9, <1>10, <1>11, <1>12,
     <1>13, <1>14, <1>15, <1>16, <1>17, <1>18, <1>19, <1>20, Zenon
  DEF Next, Calls, Steps

LEMMA PartitionHolds == Spec => []Partition
<1>1. Init => OwnersCounted /\ Partition
  BY CountedInit, PartitionInit, Zenon
<1>2. OwnersCounted /\ Partition /\ [Next]_vars => (OwnersCounted /\ Partition)'
  BY CountedStep, PartitionStep, Zenon DEF OwnersCounted
<1> QED  BY <1>1, <1>2, PTL DEF Spec

\* No frame ever has two owners (OneOwner): the caches, the buddy allocator,
\* calls in progress, trackers, page tables and DMA runs never share a frame.
THEOREM NoDoubleOwner == Spec => []OneOwner
<1>1. Partition => OneOwner
  BY Zenon DEF Partition
<1> QED  BY <1>1, PartitionHolds, PTL

\* No frame is ever lost (NoFrameLost), also when one CPU drains the cache of
\* another or a full cache is flushed.
THEOREM NothingLost == Spec => []NoFrameLost
<1>1. Partition => NoFrameLost
  BY Zenon DEF Partition
<1> QED  BY <1>1, PartitionHolds, PTL

-----------------------------------------------------------------------------
(* Counting *)

LEMMA Residue ==
    ASSUME NEW W \in Nat, NEW n \in Nat, n < W, NEW k \in Int
    PROVE  (n + k * W) % W = n
OBVIOUS

LEMMA Wraps ==
    ASSUME NEW W \in Nat, W > 0, NEW x \in Int
    PROVE  \E q \in Int : x = (q * W) + (x % W) /\ x % W \in 0..W - 1
<1>1. x = (x \div W) * W + (x % W) /\ x % W \in 0..W - 1 /\ x \div W \in Int
  OBVIOUS
<1> QED  BY <1>1, Zenon

\* Disjoint sets add up.
LEMMA Adds ==
    ASSUME NEW S, NEW T, IsFiniteSet(S), IsFiniteSet(T), \A x \in T : x \notin S
    PROVE  /\ IsFiniteSet(S \cup T)
           /\ Cardinality(S \cup T) = Cardinality(S) + Cardinality(T)
<1>1. S \cap T = {}
  BY Zenon
<1>2. Cardinality(S) \in Nat /\ Cardinality(T) \in Nat /\ Cardinality(S \cap T) = 0
  BY <1>1, FS_CardinalityType, FS_EmptySet, Zenon
<1>3. /\ IsFiniteSet(S \cup T)
      /\ Cardinality(S \cup T) = Cardinality(S) + Cardinality(T) - Cardinality(S \cap T)
  BY FS_Union, Zenon
<1> QED  BY <1>2, <1>3

\* A part taken away.
LEMMA Takes ==
    ASSUME NEW S, NEW T, IsFiniteSet(S), T \subseteq S
    PROVE  /\ IsFiniteSet(S \ T) /\ IsFiniteSet(T)
           /\ Cardinality(S \ T) = Cardinality(S) - Cardinality(T)
<1>1. S \cap T = T
  BY Zenon
<1>2. IsFiniteSet(S \ T) /\ Cardinality(S \ T) = Cardinality(S) - Cardinality(S \cap T)
  BY FS_Difference, Zenon
<1>3. IsFiniteSet(T)
  BY FS_Subset, Zenon
<1> QED  BY <1>1, <1>2, <1>3, Zenon

\* n numbered units of one thing.
LEMMA Units ==
    ASSUME NEW x, NEW n \in Nat
    PROVE  IsFiniteSet({x} \X (1..n)) /\ Cardinality({x} \X (1..n)) = n
<1>1. IsFiniteSet({x}) /\ Cardinality({x}) = 1
  BY FS_Singleton, Zenon
<1>2. IsFiniteSet(1..n) /\ Cardinality(1..n) = n
  BY FS_Interval
<1>3. /\ IsFiniteSet({x} \X (1..n))
      /\ Cardinality({x} \X (1..n)) = Cardinality({x}) * Cardinality(1..n)
  BY <1>1, <1>2, FS_Product, Zenon
<1> QED  BY <1>1, <1>2, <1>3

\* next_power_of_two(): a block is as long as what was asked for, or longer.
LEMMA BlockFits ==
    ASSUME NEW n \in RunSizes
    PROVE  BlockSize(n) \in Nat /\ n <= BlockSize(n)
<1> DEFINE S == {p \in Powers : n <= p}
<1>1. n \in Nat /\ \E p \in Powers : n <= p
  BY SizesAssumption, Zenon
<1>2. \E x \in S : \A y \in S : x <= y
  BY <1>1 DEF Powers
<1>3. Min(S) \in S
  BY <1>2, Zenon DEF Min
<1> QED  BY <1>3 DEF BlockSize, Powers

LEMMA BlockLength ==
    ASSUME NEW p \in Nat, NEW b \in Blocks(p), central \subseteq Frames
    PROVE  IsFiniteSet(b) /\ Cardinality(b) = p
<1>1. PICK f \in central : b = f..f + p - 1
  BY Zenon DEF Blocks
<1>2. f \in Int /\ f + p - 1 \in Int
  BY <1>1, FramesAssumption
<1> QED  BY <1>1, <1>2, FS_Interval

-----------------------------------------------------------------------------
(* What a step does to the sets that NotCounted counts *)

\* Only the call of c moves.
Only(c) == \A d \in Cpus \ {c} : at'[d] = at[d] /\ want'[d] = want[d]

LEMMA InCallAfter ==
    ASSUME NEW c \in Cpus, Only(c)
    PROVE  InCall' = IF at'[c] \in {"new", "credit"} THEN InCall \cup {c} ELSE InCall \ {c}
BY Zenon DEF InCall, Only, Cpus

LEMMA UncreditedIs ==
    \A x : x \in Uncredited <=>
             \E d \in Cpus : at[d] = "runCredit" /\ \E i \in 1..want[d] : x = <<d, i>>
BY DEF Uncredited

LEMMA UncreditedIsNext ==
    \A x : x \in Uncredited' <=>
             \E d \in Cpus : at'[d] = "runCredit" /\ \E i \in 1..want'[d] : x = <<d, i>>
BY DEF Uncredited, Cpus

LEMMA CreditSame ==
    ASSUME NEW c \in Cpus, Only(c), at[c] # "runCredit", at'[c] # "runCredit"
    PROVE  Uncredited' = Uncredited
<1>1. \A x : x \in Uncredited' <=> x \in Uncredited
  BY UncreditedIs, UncreditedIsNext DEF Only
<1> QED  BY <1>1, Zenon

LEMMA CreditEnters ==
    ASSUME NEW c \in Cpus, Only(c), at[c] # "runCredit", at'[c] = "runCredit", want'[c] \in Nat,
           IsFiniteSet(Uncredited)
    PROVE  /\ IsFiniteSet(Uncredited')
           /\ Cardinality(Uncredited') = Cardinality(Uncredited) + want'[c]
<1> DEFINE U == {c} \X (1..want'[c])
<1>1. \A x : x \in Uncredited' <=> x \in Uncredited \cup U
  BY UncreditedIs, UncreditedIsNext DEF Only
<1>2. \A x \in U : x \notin Uncredited
  BY UncreditedIs
<1>3. Uncredited' = Uncredited \cup U
  BY <1>1, Zenon
<1>4. IsFiniteSet(U) /\ Cardinality(U) = want'[c]
  BY Units, Zenon
<1> HIDE DEF U
<1> QED  BY <1>2, <1>3, <1>4, Adds, Zenon

LEMMA CreditLeaves ==
    ASSUME NEW c \in Cpus, Only(c), at[c] = "runCredit", at'[c] # "runCredit", want[c] \in Nat,
           IsFiniteSet(Uncredited)
    PROVE  /\ IsFiniteSet(Uncredited')
           /\ Cardinality(Uncredited') = Cardinality(Uncredited) - want[c]
<1> DEFINE U == {c} \X (1..want[c])
<1>1. \A x : x \in Uncredited' <=> x \in Uncredited \ U
  BY UncreditedIs, UncreditedIsNext DEF Only
<1>2. U \subseteq Uncredited
  BY UncreditedIs
<1>3. Uncredited' = Uncredited \ U
  BY <1>1, Zenon
<1>4. Cardinality(U) = want[c]
  BY Units, Zenon
<1> HIDE DEF U
<1> QED  BY <1>2, <1>3, <1>4, Takes, Zenon

\* The units a set of runs has been given, counted by pages and by frames.
RunUnits == UNION {{r} \X (1..Cardinality(r.block)) : r \in dma}
RunFrames == UNION {r.block : r \in dma}

LEMMA PagesAdded ==
    ASSUME NEW r, r \notin dma, dma' = dma \cup {r}, r.pages \in Nat, IsFiniteSet(RunPages)
    PROVE  /\ IsFiniteSet(RunPages')
           /\ Cardinality(RunPages') = Cardinality(RunPages) + r.pages
<1> DEFINE U == {r} \X (1..r.pages)
<1>1. RunPages' = RunPages \cup U
  BY Zenon DEF RunPages
<1>2. \A x \in U : x \notin RunPages
  BY DEF RunPages
<1>3. IsFiniteSet(U) /\ Cardinality(U) = r.pages
  BY Units, Zenon
<1> HIDE DEF U
<1> QED  BY <1>1, <1>2, <1>3, Adds, Zenon

LEMMA PagesTaken ==
    ASSUME NEW r \in dma, dma' = dma \ {r}, r.pages \in Nat, IsFiniteSet(RunPages)
    PROVE  /\ IsFiniteSet(RunPages')
           /\ Cardinality(RunPages') = Cardinality(RunPages) - r.pages
<1> DEFINE U == {r} \X (1..r.pages)
<1>1. RunPages' = RunPages \ U
  BY DEF RunPages
<1>2. U \subseteq RunPages
  BY Zenon DEF RunPages
<1>3. Cardinality(U) = r.pages
  BY Units, Zenon
<1> HIDE DEF U
<1> QED  BY <1>1, <1>2, <1>3, Takes, Zenon

LEMMA UnitsAdded ==
    ASSUME NEW r, r \notin dma, dma' = dma \cup {r}, Cardinality(r.block) \in Nat, IsFiniteSet(RunUnits)
    PROVE  /\ IsFiniteSet(RunUnits')
           /\ Cardinality(RunUnits') = Cardinality(RunUnits) + Cardinality(r.block)
<1> DEFINE U == {r} \X (1..Cardinality(r.block))
<1>1. RunUnits' = RunUnits \cup U
  BY Zenon DEF RunUnits
<1>2. \A x \in U : x \notin RunUnits
  BY DEF RunUnits
<1>3. IsFiniteSet(U) /\ Cardinality(U) = Cardinality(r.block)
  BY Units, Zenon
<1> HIDE DEF U
<1> QED  BY <1>1, <1>2, <1>3, Adds, Zenon

LEMMA UnitsTaken ==
    ASSUME NEW r \in dma, dma' = dma \ {r}, Cardinality(r.block) \in Nat, IsFiniteSet(RunUnits)
    PROVE  /\ IsFiniteSet(RunUnits')
           /\ Cardinality(RunUnits') = Cardinality(RunUnits) - Cardinality(r.block)
<1> DEFINE U == {r} \X (1..Cardinality(r.block))
<1>1. RunUnits' = RunUnits \ U
  BY DEF RunUnits
<1>2. U \subseteq RunUnits
  BY Zenon DEF RunUnits
<1>3. Cardinality(U) = Cardinality(r.block)
  BY Units, Zenon
<1> HIDE DEF U
<1> QED  BY <1>1, <1>2, <1>3, Takes, Zenon

-----------------------------------------------------------------------------
(* The free counter *)

\* A run in work has a length, and its block is long enough.
Lengths ==
    /\ want \in [Cpus -> RunSizes \cup {0}]
    /\ \A c \in Cpus : at[c] \in {"run", "runRetry", "runCount"} => want[c] \in RunSizes
    /\ \A c \in Cpus : at[c] = "runCount" => want[c] <= Cardinality(hand[c])
    /\ \A r \in dma : r.pages \in RunSizes /\ r.pages <= Cardinality(r.block)

\* The units are finite, and the runs have as many as frames.
Stocks ==
    /\ IsFiniteSet(RunPages) /\ IsFiniteSet(Uncredited) /\ IsFiniteSet(RunUnits)
    /\ Cardinality(RunUnits) = Cardinality(RunFrames)

\* What is counted and what is not make up the frames, but for wraps.
Balanced ==
    /\ free \in 0..Word - 1
    /\ \E k \in Int : free + NotCounted = Cardinality(Frames) + k * Word

FreeInv == Lengths /\ Stocks /\ Balanced

LEMMA FrameSets ==
    ASSUME NEW S \in SUBSET Frames
    PROVE  IsFiniteSet(S) /\ Cardinality(S) \in Nat /\ Cardinality(S) <= Cardinality(Frames)
BY FramesAssumption, FS_Subset, FS_CardinalityType, Zenon

LEMMA CpuSets ==
    ASSUME NEW S \in SUBSET Cpus
    PROVE  IsFiniteSet(S) /\ Cardinality(S) \in Nat
<1>1. IsFiniteSet(Cpus)
  BY MaxCpusAssumption, FS_Interval DEF Cpus
<1> QED  BY <1>1, FS_Subset, FS_CardinalityType, Zenon

LEMMA NotCountedType ==
    ASSUME Types, Stocks
    PROVE  /\ Cardinality(Live) \in Nat /\ Cardinality(raw) \in Nat /\ Cardinality(RunPages) \in Nat
           /\ Cardinality(InCall) \in Nat /\ Cardinality(Uncredited) \in Nat /\ NotCounted \in Nat
<1>1. Cardinality(Live) \in Nat /\ Cardinality(raw) \in Nat
  BY FrameSets, Zenon DEF Live, Types
<1>2. Cardinality(InCall) \in Nat
  BY CpuSets, Zenon DEF InCall
<1>3. Cardinality(RunPages) \in Nat /\ Cardinality(Uncredited) \in Nat
  BY FS_CardinalityType, Zenon DEF Stocks
<1> QED  BY <1>1, <1>2, <1>3 DEF NotCounted

LEMMA BalancedBy ==
    ASSUME Balanced, NotCounted \in Int, NEW m \in Int,
           free' = (free + m) % Word, NotCounted' = NotCounted - m
    PROVE  Balanced'
<1>1. Word \in Nat /\ Word > 0
  <2>1. Cardinality(Frames) \in Nat
    BY FrameSets, Zenon
  <2> QED  BY <2>1, WordAssumption
<1>2. free \in Int
  BY DEF Balanced
<1>3. PICK q \in Int : free + m = q * Word + free' /\ free' \in 0..Word - 1
  BY <1>1, <1>2, Wraps
<1>4. PICK k \in Int : free + NotCounted = Cardinality(Frames) + k * Word
  BY Zenon DEF Balanced
<1>5. Cardinality(Frames) \in Nat
  BY FrameSets, Zenon
<1>6. free' + NotCounted' = Cardinality(Frames) + (k - q) * Word
  <2>1. (k - q) * Word = k * Word - q * Word
    BY <1>1
  <2> QED  BY <1>1, <1>2, <1>3, <1>4, <1>5, <2>1
<1> QED  BY <1>3, <1>6 DEF Balanced

LEMMA BalancedSame ==
    ASSUME Balanced, free' = free, NotCounted' = NotCounted
    PROVE  Balanced'
BY Zenon DEF Balanced

\* The counter says at most how many frames there are, except while a run is
\* being returned.
LEMMA NotCountedBound ==
    ASSUME Types, Shape, OneOwner, Lengths, Stocks, \A c \in Cpus : at[c] # "runCredit"
    PROVE  NotCounted <= Cardinality(Frames)
<1> DEFINE Held == UNION {hand[c] : c \in InCall}
<1>1. Uncredited = {}
  BY UncreditedIs, Zenon
<1>2. Cardinality(InCall) <= Cardinality(Held) /\ Held \subseteq Frames
  <2>1. \A c \in InCall : c \in Cpus /\ \E f \in Frames : hand[c] = {f}
    BY Zenon DEF InCall, Shape
  <2>2. Held \subseteq Frames
    BY <2>1
  <2> DEFINE f == [c \in InCall |-> CHOOSE x \in Held : x \in hand[c]]
  <2>3. \A c \in InCall : f[c] \in Held /\ f[c] \in hand[c]
    BY <2>1, Zenon
  <2>4. \A c, d \in InCall : f[c] = f[d] => c = d
    BY <2>1, <2>3, Zenon DEF OneOwner, Apart
  <2>5. f \in Injection(InCall, Held)
    BY <2>3, <2>4, Zenon DEF Injection, IsInjective
  <2>6. IsFiniteSet(Held)
    BY <2>2, FrameSets, Zenon
  <2> HIDE DEF f, Held
  <2> QED  BY <2>2, <2>5, <2>6, FS_Injection, Zenon
<1>3. Cardinality(RunPages) <= Cardinality(RunFrames)
  <2>1. \A r \in dma : 1..r.pages \subseteq 1..Cardinality(r.block)
    <3>1. \A r \in dma : r.pages \in Nat /\ r.pages <= Cardinality(r.block) /\ Cardinality(r.block) \in Nat
      BY FrameSets, SizesAssumption, Zenon DEF Lengths, Types
    <3> QED  BY <3>1
  <2>2. RunPages \subseteq RunUnits
    BY <2>1 DEF RunPages, RunUnits
  <2> QED  BY <2>2, FS_Subset, Zenon DEF Stocks
<1>4. /\ Live \subseteq Frames /\ raw \subseteq Frames /\ RunFrames \subseteq Frames
      /\ \A x \in raw : x \notin Live
      /\ \A x \in RunFrames : x \notin Live /\ x \notin raw
      /\ \A x \in Held : x \notin Live /\ x \notin raw /\ x \notin RunFrames
  BY DEF Live, RunFrames, Types, OneOwner, Apart, InCall
<1> HIDE DEF Held
<1>5. Cardinality(Live \cup raw) = Cardinality(Live) + Cardinality(raw)
  BY <1>4, FrameSets, Adds, Zenon
<1>6. Cardinality((Live \cup raw) \cup RunFrames) = Cardinality(Live \cup raw) + Cardinality(RunFrames)
  <2>1. Live \cup raw \subseteq Frames /\ \A x \in RunFrames : x \notin Live \cup raw
    BY <1>4, Zenon
  <2> QED  BY <1>4, <2>1, FrameSets, Adds, Zenon
<1>7. Cardinality(((Live \cup raw) \cup RunFrames) \cup Held)
        = Cardinality((Live \cup raw) \cup RunFrames) + Cardinality(Held)
  <2>1. /\ (Live \cup raw) \cup RunFrames \subseteq Frames
        /\ \A x \in Held : x \notin (Live \cup raw) \cup RunFrames
    BY <1>4, Zenon
  <2> QED  BY <1>2, <2>1, FrameSets, Adds, Zenon
<1>8. Cardinality(((Live \cup raw) \cup RunFrames) \cup Held) <= Cardinality(Frames)
  BY <1>2, <1>4, FrameSets, Zenon
<1>9. /\ Cardinality(Live) \in Nat /\ Cardinality(raw) \in Nat /\ Cardinality(RunFrames) \in Nat
      /\ Cardinality(Held) \in Nat /\ Cardinality(Frames) \in Nat
  BY <1>2, <1>4, FrameSets, Zenon
<1>10. Cardinality(Uncredited) = 0
  BY <1>1, FS_EmptySet, Zenon
<1>11. /\ Cardinality(InCall) \in Nat /\ Cardinality(RunPages) \in Nat
  BY NotCountedType, Zenon
<1>12. Cardinality(Live) + Cardinality(raw) + Cardinality(RunFrames) + Cardinality(Held) <= Cardinality(Frames)
  BY <1>5, <1>6, <1>7, <1>8, <1>9, Zenon
<1> QED  BY <1>2, <1>3, <1>9, <1>10, <1>11, <1>12 DEF NotCounted

LEMMA FreeIsCounted ==
    ASSUME Types, Shape, OneOwner, FreeInv
    PROVE  FreeCounted
<1>1. /\ Word \in Nat /\ Cardinality(Frames) \in Nat /\ 2 * Cardinality(Frames) < Word
      /\ free \in 0..Word - 1 /\ NotCounted \in Nat
  BY FrameSets, WordAssumption, NotCountedType, Zenon DEF FreeInv, Balanced
<1>2. PICK k \in Int : free + NotCounted = Cardinality(Frames) + k * Word
  BY Zenon DEF FreeInv, Balanced
<1>3. FreeExact
  <2>1. Cardinality(Frames) < Word
    BY <1>1
  <2> QED  BY <1>1, <1>2, <2>1, Residue, Zenon DEF FreeExact
<1>4. WrapsOnlyInFreeRun
  <2> SUFFICES ASSUME \A c \in Cpus : at[c] # "runCredit" PROVE free <= Cardinality(Frames)
    BY <1>1 DEF WrapsOnlyInFreeRun
  <2>1. NotCounted <= Cardinality(Frames)
    BY NotCountedBound, Zenon DEF FreeInv
  <2>2. k * Word \in Int /\ k * Word < Word
    BY <1>1, <1>2, <2>1
  <2>3. k <= 0
    BY <1>1, <2>2
  <2>4. k * Word <= 0
    BY <1>1, <2>3
  <2> QED  BY <1>1, <1>2, <2>1, <2>2, <2>4
<1> QED  BY <1>3, <1>4, Zenon DEF FreeCounted

-----------------------------------------------------------------------------
(* Each step *)

Moves(c) == Only(c) /\ \A d \in Cpus \ {c} : hand'[d] = hand[d]

LEMMA StepMoves ==
    ASSUME Types, Lengths, NEW c \in Cpus, Calls(c) \/ Steps(c)
    PROVE  Moves(c) /\ want' \in [Cpus -> RunSizes \cup {0}]
<1> USE DEF Moves, Only, Goto, At, Types, Lengths
<1>1. CASE AllocFrame(c)
  BY <1>1 DEF AllocFrame
<1>2. CASE TakeRun(c) \/ Give(c)
  BY <1>2 DEF TakeRun, Give
<1>12. CASE StoreRun(c)
  <2>1. UNCHANGED want /\ at' = [at EXCEPT ![c] = "give"] /\ \E first : hand' = At(hand, c, {first})
    BY <1>12, Zenon DEF StoreRun
  <2> QED  BY <2>1
<1>3. CASE Drain(c) \/ Drained(c)
  BY <1>3 DEF Drain, Drained
<1>4. CASE Count(c) \/ \E h \in Handles : NewTracker(c, h)
  BY <1>4 DEF Count, NewTracker
<1>5. CASE \E h, k \in Handles : CloneTracker(c, h, k)
  BY <1>5, Zenon DEF CloneTracker, callVars
<1>6. CASE \E h \in Handles : DropTracker(c, h) \/ IntoRaw(c, h)
  BY <1>6 DEF DropTracker, IntoRaw, callVars
<1>7. CASE \E f \in raw : FreeRaw(c, f)
  BY <1>7, Zenon DEF FreeRaw
<1>8. CASE Credit(c) \/ PushFrame(c)
  BY <1>8 DEF Credit, PushFrame
<1>9. CASE \E n \in RunSizes : AllocRun(c, n)
  BY <1>9 DEF AllocRun
<1>10. CASE TakeBlock(c) \/ RunCount(c) \/ RunCredit(c)
  BY <1>10 DEF TakeBlock, RunCount, RunCredit
<1>11. CASE \E r \in dma : FreeRun(c, r)
  BY <1>11 DEF FreeRun
<1> QED
  BY <1>1, <1>2, <1>3, <1>4, <1>5, <1>6, <1>7, <1>8, <1>9, <1>10, <1>11, <1>12, Zenon DEF Calls, Steps

LEMMA LengthsKept ==
    ASSUME Lengths, NEW c \in Cpus, Moves(c), want' \in [Cpus -> RunSizes \cup {0}],
           at'[c] \notin {"run", "runRetry", "runCount"}, dma' \subseteq dma
    PROVE  Lengths'
BY Zenon DEF Lengths, Moves, Only

\* A step that neither counts nor hands anything out.
LEMMA Quiet ==
    ASSUME Stocks, Balanced, NEW c \in Cpus, Only(c),
           at[c] \notin {"new", "credit", "runCredit"},
           at'[c] \notin {"new", "credit", "runCredit"},
           Live' = Live, UNCHANGED <<raw, dma, free>>
    PROVE  Stocks' /\ Balanced'
<1>1. Uncredited' = Uncredited
  BY CreditSame, Zenon
<1>2. InCall' = InCall
  BY InCallAfter, Zenon DEF InCall
<1>3. RunPages' = RunPages /\ RunUnits' = RunUnits /\ RunFrames' = RunFrames
  BY Zenon DEF RunPages, RunUnits, RunFrames
<1>4. NotCounted' = NotCounted
  BY <1>1, <1>2, <1>3, Zenon DEF NotCounted
<1>5. Stocks'
  BY <1>1, <1>3, Zenon DEF Stocks
<1> QED  BY <1>4, <1>5, BalancedSame, Zenon

LEMMA QuietCalls ==
    ASSUME Types, RefsExact, FreeInv, NEW c \in Cpus, Moves(c),
           want' \in [Cpus -> RunSizes \cup {0}],
           \/ AllocFrame(c) \/ TakeRun(c) \/ StoreRun(c) \/ Give(c)
           \/ Drain(c) \/ PushFrame(c)
           \/ \E h, k \in Handles : CloneTracker(c, h, k)
    PROVE  FreeInv'
<1>1. /\ at[c] \in {"idle", "refill", "retry", "store", "give", "drain", "push"}
      /\ at'[c] \in {"idle", "refill", "store", "give", "count", "drain", "drained"}
  <2>1. CASE StoreRun(c) \/ PushFrame(c)
    <3>1. at[c] \in {"store", "push"} /\ Goto(c, "give")
      BY <2>1, Zenon DEF StoreRun, PushFrame
    <3> QED  BY <3>1, Zenon DEF Goto, Types
  <2>2. CASE AllocFrame(c) \/ TakeRun(c)
    <3>1. CASE AllocFrame(c)  BY <3>1, Zenon DEF AllocFrame, Goto, Types
    <3>2. CASE TakeRun(c)  BY <3>2, Zenon DEF TakeRun, Goto, Types
    <3> QED  BY <2>2, <3>1, <3>2, Zenon
  <2>3. CASE Give(c) \/ Drain(c)
    BY <2>3, Zenon DEF Give, Drain, Goto, Types
  <2>4. CASE \E h, k \in Handles : CloneTracker(c, h, k)
    BY <2>4, Zenon DEF CloneTracker, callVars
  <2> QED  BY <2>1, <2>2, <2>3, <2>4, Zenon
<1>2. UNCHANGED <<raw, dma, free>>
  BY Zenon DEF AllocFrame, TakeRun, StoreRun, Give, Drain, PushFrame, CloneTracker, ownerVars
<1>3. Live' = Live
  <2>1. CASE \E h, k \in Handles : CloneTracker(c, h, k)
    <3>1. PICK h \in Handles, k \in Handles : CloneTracker(c, h, k)
      BY <2>1, Zenon
    <3>2. holds[h] \in Frames /\ refs[holds[h]] \in Nat \ {0}
      BY <3>1, HeldIsLive, Zenon DEF CloneTracker
    <3>3. Live' = Live \cup {holds[h]}
      BY <3>1, <3>2, LiveAfterNew, Zenon DEF CloneTracker
    <3> QED  BY <3>2, <3>3 DEF Live
  <2>2. CASE ~\E h, k \in Handles : CloneTracker(c, h, k)
    BY <2>2, Zenon DEF AllocFrame, TakeRun, StoreRun, Give, Drain, PushFrame, ownerVars, Live
  <2> QED  BY <2>1, <2>2, Zenon
<1>4. Lengths'
  BY <1>1, <1>2, LengthsKept, Zenon DEF FreeInv
<1>5. Stocks' /\ Balanced'
  BY <1>1, <1>2, <1>3, Quiet, Zenon DEF FreeInv, Moves
<1> QED  BY <1>4, <1>5, Zenon DEF FreeInv

\* The steps on the way to a run.
LEMMA RunCalls ==
    ASSUME Types, Shape, FreeInv, NEW c \in Cpus, Moves(c),
           want' \in [Cpus -> RunSizes \cup {0}],
           Drained(c) \/ TakeBlock(c) \/ \E n \in RunSizes : AllocRun(c, n)
    PROVE  FreeInv'
<1>1. UNCHANGED <<raw, dma, free>> /\ Live' = Live
  BY Zenon DEF Drained, TakeBlock, AllocRun, ownerVars, Live
<1>2. CASE Drained(c)
  <2>1. /\ at[c] = "drained" /\ want'[c] = want[c] /\ hand'[c] = hand[c]
        /\ at'[c] = "drain" \/ at'[c] = "retry" \/ (at'[c] = "runRetry" /\ want[c] # 0)
    BY <1>2, Zenon DEF Drained, Goto, Types
  <2>2. Lengths'
    BY <1>1, <2>1, Zenon DEF FreeInv, Lengths, Moves, Only
  <2>3. Stocks' /\ Balanced'
    BY <1>1, <2>1, Quiet, Zenon DEF FreeInv, Moves
  <2> QED  BY <2>2, <2>3, Zenon DEF FreeInv
<1>3. CASE TakeBlock(c)
  <2>1. /\ at[c] \in {"run", "runRetry"} /\ want'[c] = want[c] /\ want[c] \in RunSizes
        /\ at'[c] \in {"drain", "idle", "runCount"}
    BY <1>3 DEF TakeBlock, Goto, Types, FreeInv, Lengths
  <2>2. at'[c] = "runCount" => want[c] <= Cardinality(hand'[c])
    <3> SUFFICES ASSUME at'[c] = "runCount" PROVE want[c] <= Cardinality(hand'[c])
      BY Zenon
    <3>1. PICK b \in Blocks(BlockSize(want[c])) : hand' = At(hand, c, b)
      BY <1>3, Zenon DEF TakeBlock, Goto, Types
    <3>2. hand'[c] = b
      BY <3>1, Zenon DEF At, Types
    <3>3. BlockSize(want[c]) \in Nat /\ want[c] <= BlockSize(want[c])
      BY <2>1, BlockFits, Zenon
    <3>4. Cardinality(b) = BlockSize(want[c])
      BY <3>1, <3>3, BlockLength, Zenon DEF Types
    <3> QED  BY <3>2, <3>3, <3>4, Zenon
  <2>3. Lengths'
    BY <1>1, <2>1, <2>2, Zenon DEF FreeInv, Lengths, Moves, Only
  <2>4. Stocks' /\ Balanced'
    BY <1>1, <2>1, Quiet, Zenon DEF FreeInv, Moves
  <2> QED  BY <2>3, <2>4 DEF FreeInv
<1>4. CASE \E n \in RunSizes : AllocRun(c, n)
  <2>1. at[c] = "idle" /\ at'[c] = "run" /\ want'[c] \in RunSizes
    BY <1>4, Zenon DEF AllocRun, Goto, At, Types, FreeInv, Lengths
  <2>2. Lengths'
    BY <1>1, <2>1, Zenon DEF FreeInv, Lengths, Moves, Only
  <2>3. Stocks' /\ Balanced'
    BY <1>1, <2>1, Quiet, Zenon DEF FreeInv, Moves
  <2> QED  BY <2>2, <2>3 DEF FreeInv
<1> QED  BY <1>2, <1>3, <1>4, Zenon

LEMMA AddOne ==
    ASSUME NEW S, IsFiniteSet(S), NEW x, x \notin S
    PROVE  Cardinality(S \cup {x}) = Cardinality(S) + 1
BY FS_AddElement, Zenon

LEMMA TakeOne ==
    ASSUME NEW S, IsFiniteSet(S), NEW x \in S
    PROVE  Cardinality(S \ {x}) = Cardinality(S) - 1
BY FS_RemoveElement, Zenon

\* The sets that a step leaves alone.
LEMMA RunsSame ==
    ASSUME UNCHANGED dma
    PROVE  RunPages' = RunPages /\ RunUnits' = RunUnits /\ RunFrames' = RunFrames
BY Zenon DEF RunPages, RunUnits, RunFrames

\* A call takes its frame out of the count, or puts it back.
LEMMA CountCalls ==
    ASSUME Types, FreeInv, NEW c \in Cpus, Moves(c), want' \in [Cpus -> RunSizes \cup {0}],
           Count(c) \/ Credit(c)
    PROVE  FreeInv'
<1>1. /\ UNCHANGED <<raw, dma>> /\ Live' = Live
  BY Zenon DEF Count, Credit, ownerVars, Live
<1>2. at[c] \in {"count", "credit"} /\ at'[c] \in {"new", "push"}
  BY Zenon DEF Count, Credit, Goto, Types
<1>3. Lengths'
  BY <1>1, <1>2, LengthsKept, Zenon DEF FreeInv
<1>4. Uncredited' = Uncredited
  BY <1>2, CreditSame, Zenon DEF Moves
<1>5. Stocks'
  BY <1>1, <1>4, RunsSame, Zenon DEF Stocks, FreeInv
<1>6. IsFiniteSet(InCall)
  BY CpuSets, Zenon DEF InCall
<1>7. CASE Count(c)
  <2>1. at[c] = "count" /\ at'[c] = "new" /\ free' = (free - 1) % Word
    BY <1>7, Zenon DEF Count, Goto, Types
  <2>2. InCall' = InCall \cup {c} /\ c \notin InCall
    BY <2>1, InCallAfter, Zenon DEF Moves, InCall
  <2>3. Cardinality(InCall') = Cardinality(InCall) + 1
    BY <1>6, <2>2, AddOne, Zenon
  <2>4. NotCounted' = NotCounted - (-1)
    BY <1>1, <1>4, <2>3, RunsSame, NotCountedType DEF NotCounted, FreeInv
  <2>5. free' = (free + (-1)) % Word
    BY <2>1, Zenon DEF FreeInv, Balanced
  <2>6. Balanced'
    BY <2>4, <2>5, NotCountedType, BalancedBy DEF FreeInv
  <2> QED  BY <1>3, <1>5, <2>6, Zenon DEF FreeInv
<1>8. CASE Credit(c)
  <2>1. at[c] = "credit" /\ at'[c] = "push" /\ free' = (free + 1) % Word
    BY <1>8, Zenon DEF Credit, Goto, Types
  <2>2. InCall' = InCall \ {c} /\ c \in InCall
    BY <2>1, InCallAfter, Zenon DEF Moves, InCall
  <2>3. Cardinality(InCall') = Cardinality(InCall) - 1
    BY <1>6, <2>2, TakeOne, Zenon
  <2>4. NotCounted' = NotCounted - 1
    BY <1>1, <1>4, <2>3, RunsSame, NotCountedType DEF NotCounted, FreeInv
  <2>5. Balanced'
    BY <2>1, <2>4, NotCountedType, BalancedBy DEF FreeInv
  <2> QED  BY <1>3, <1>5, <2>5 DEF FreeInv
<1> QED  BY <1>7, <1>8, Zenon

\* A frame passes between a call, the trackers and the page tables, uncounted
\* all the time.
Single == Cardinality(Live) + Cardinality(raw) + Cardinality(InCall)

LEMMA SingleType ==
    ASSUME Types
    PROVE  /\ IsFiniteSet(InCall) /\ IsFiniteSet(Live) /\ IsFiniteSet(raw)
           /\ Cardinality(Live) \in Nat /\ Cardinality(raw) \in Nat /\ Cardinality(InCall) \in Nat
BY CpuSets, FrameSets, Zenon DEF InCall, Live, Types

LEMMA Passes ==
    ASSUME Types, Types', FreeInv, NEW c \in Cpus, Moves(c),
           want' \in [Cpus -> RunSizes \cup {0}], UNCHANGED <<free, dma>>, at[c] \in {"idle", "new"}, at'[c] \in {"idle", "credit"},
           Single' = Single
    PROVE  FreeInv'
<1>1. Lengths'
  BY LengthsKept, Zenon DEF FreeInv
<1>2. Uncredited' = Uncredited
  BY CreditSame, Zenon DEF Moves
<1>3. Stocks'
  BY <1>2, RunsSame, Zenon DEF Stocks, FreeInv
<1>4. NotCounted = Single + Cardinality(RunPages) + Cardinality(Uncredited)
  BY NotCountedType DEF NotCounted, FreeInv, Single
<1>5. NotCounted' = Single' + Cardinality(RunPages') + Cardinality(Uncredited')
  <2>1. Live' \in SUBSET Frames /\ raw' \in SUBSET Frames /\ InCall' \in SUBSET Cpus
    BY Zenon DEF Types, Live, InCall, Cpus
  <2>2. Cardinality(Live') \in Nat /\ Cardinality(raw') \in Nat /\ Cardinality(InCall') \in Nat
    BY <2>1, FrameSets, CpuSets, Zenon
  <2>3. Cardinality(RunPages') \in Nat /\ Cardinality(Uncredited') \in Nat
    BY <1>3, FS_CardinalityType, Zenon DEF Stocks
  <2> QED  BY <2>2, <2>3 DEF NotCounted, Single
<1>6. Balanced'
  BY <1>2, <1>4, <1>5, RunsSame, BalancedSame, Zenon DEF FreeInv
<1> QED  BY <1>1, <1>3, <1>6, Zenon DEF FreeInv

LEMMA NewPasses ==
    ASSUME Types, OneOwner, NEW c \in Cpus, Only(c), NEW h \in Handles, NewTracker(c, h)
    PROVE  /\ UNCHANGED <<free, dma>> /\ at[c] = "new" /\ at'[c] = "idle"
           /\ Single' = Single
<1>1. PICK f \in hand[c] : refs' = [refs EXCEPT ![f] = @ + 1]
  BY Zenon DEF NewTracker
<1>2. /\ UNCHANGED <<free, dma, raw>> /\ at[c] = "new" /\ at'[c] = "idle"
      /\ f \in Frames
  BY Zenon DEF NewTracker, Goto, Types
<1>3. Live' = Live \cup {f} /\ f \notin Live
  BY <1>1, <1>2, LiveAfterNew, Zenon DEF OneOwner, Apart
<1>4. InCall' = InCall \ {c} /\ c \in InCall
  BY <1>2, InCallAfter, Zenon DEF InCall
<1>5. Cardinality(Live') = Cardinality(Live) + 1
  BY <1>3, SingleType, AddOne, Zenon
<1>6. Cardinality(InCall') = Cardinality(InCall) - 1
  BY <1>4, SingleType, TakeOne, Zenon
<1>7. Single' = Single
  BY <1>2, <1>5, <1>6, SingleType DEF Single
<1> QED  BY <1>2, <1>7, Zenon

LEMMA DropPasses ==
    ASSUME Types, RefsExact, NEW c \in Cpus, Only(c), NEW h \in Handles, DropTracker(c, h)
    PROVE  /\ UNCHANGED <<free, dma>> /\ at[c] = "idle" /\ at'[c] \in {"idle", "credit"}
           /\ Single' = Single
<1>1. PICK f \in Frames : f = holds[h] /\ refs[f] \in Nat \ {0}
  BY HeldIsLive, Zenon DEF DropTracker
<1>2. refs' = [refs EXCEPT ![f] = @ - 1] /\ UNCHANGED <<free, dma, raw>> /\ at[c] = "idle"
  BY <1>1, Zenon DEF DropTracker
<1>3. CASE refs[f] = 1
  <2>1. f \in Live /\ Live' = Live \ {f}
    BY <1>1, <1>2, <1>3, LiveAfterDrop, Zenon
  <2>2. at'[c] = "credit"
    BY <1>1, <1>3, Zenon DEF DropTracker, Goto, Types
  <2>3. InCall' = InCall \cup {c} /\ c \notin InCall
    BY <1>2, <2>2, InCallAfter, Zenon DEF InCall
  <2>4. Cardinality(Live') = Cardinality(Live) - 1
    BY <2>1, SingleType, TakeOne, Zenon
  <2>5. Cardinality(InCall') = Cardinality(InCall) + 1
    BY <2>3, SingleType, AddOne, Zenon
  <2>6. Single' = Single
    BY <1>2, <2>4, <2>5, SingleType DEF Single
  <2> QED  BY <1>2, <2>2, <2>6, Zenon
<1>4. CASE refs[f] # 1
  <2>1. Live' = Live
    BY <1>1, <1>2, <1>4, LiveAfterDrop, Zenon
  <2>2. at'[c] = "idle"
    BY <1>1, <1>2, <1>4, Zenon DEF DropTracker
  <2>3. InCall' = InCall
    BY <1>2, <2>2, InCallAfter, Zenon DEF InCall
  <2>4. Single' = Single
    BY <1>2, <2>1, <2>3, Zenon DEF Single
  <2> QED  BY <1>2, <2>2, <2>4, Zenon
<1> QED  BY <1>3, <1>4, Zenon

LEMMA RawPasses ==
    ASSUME Types, RefsExact, OneOwner, NEW c \in Cpus, Only(c), NEW h \in Handles, IntoRaw(c, h)
    PROVE  /\ UNCHANGED <<free, dma>> /\ at[c] = "idle" /\ at'[c] = "idle"
           /\ Single' = Single
<1>1. PICK f \in Frames : f = holds[h] /\ refs[f] \in Nat \ {0}
  BY HeldIsLive, Zenon DEF IntoRaw
<1>2. /\ refs' = [refs EXCEPT ![f] = @ - 1] /\ refs[f] = 1 /\ raw' = raw \cup {f}
      /\ UNCHANGED <<free, dma>> /\ at[c] = "idle" /\ at'[c] = "idle"
  BY <1>1, Zenon DEF IntoRaw, callVars
<1>3. f \in Live /\ Live' = Live \ {f}
  BY <1>1, <1>2, LiveAfterDrop, Zenon
<1>4. f \notin raw
  BY <1>3, Zenon DEF OneOwner, Apart
<1>5. InCall' = InCall
  BY <1>2, InCallAfter, Zenon DEF InCall
<1>6. Cardinality(Live') = Cardinality(Live) - 1
  BY <1>3, SingleType, TakeOne, Zenon
<1>7. Cardinality(raw') = Cardinality(raw) + 1
  BY <1>2, <1>4, SingleType, AddOne, Zenon
<1>8. Single' = Single
  BY <1>5, <1>6, <1>7, SingleType DEF Single
<1> QED  BY <1>2, <1>8, Zenon

LEMMA FreePasses ==
    ASSUME Types, NEW c \in Cpus, Only(c), NEW f \in raw, FreeRaw(c, f)
    PROVE  /\ UNCHANGED <<free, dma>> /\ at[c] = "idle" /\ at'[c] = "credit"
           /\ Single' = Single
<1>1. /\ raw' = raw \ {f} /\ Live' = Live /\ UNCHANGED <<free, dma>>
      /\ at[c] = "idle" /\ at'[c] = "credit"
  BY Zenon DEF FreeRaw, Live, Goto, Types
<1>2. InCall' = InCall \cup {c} /\ c \notin InCall
  BY <1>1, InCallAfter, Zenon DEF InCall
<1>3. Cardinality(raw') = Cardinality(raw) - 1
  BY <1>1, SingleType, TakeOne, Zenon
<1>4. Cardinality(InCall') = Cardinality(InCall) + 1
  BY <1>2, SingleType, AddOne, Zenon
<1>5. Single' = Single
  BY <1>1, <1>3, <1>4, SingleType DEF Single
<1> QED  BY <1>1, <1>5, Zenon

LEMMA PassCalls ==
    ASSUME Types, Types', RefsExact, OneOwner, FreeInv, NEW c \in Cpus, Moves(c),
           want' \in [Cpus -> RunSizes \cup {0}],
           \/ \E h \in Handles : NewTracker(c, h) \/ DropTracker(c, h) \/ IntoRaw(c, h)
           \/ \E f \in raw : FreeRaw(c, f)
    PROVE  FreeInv'
<1>1. Only(c)
  BY Zenon DEF Moves
<1>2. /\ UNCHANGED <<free, dma>> /\ at[c] \in {"idle", "new"} /\ at'[c] \in {"idle", "credit"}
      /\ Single' = Single
  BY <1>1, NewPasses, DropPasses, RawPasses, FreePasses, Zenon
<1> QED  BY <1>2, Passes, Zenon

\* A run is handed out.
LEMMA RunCounted ==
    ASSUME Types, Shape, OneOwner, FreeInv, NEW c \in Cpus, Moves(c),
           want' \in [Cpus -> RunSizes \cup {0}], RunCount(c)
    PROVE  FreeInv'
<1>1. PICK run : run = [block |-> hand[c], pages |-> want[c]]
  BY Zenon
<1>2. /\ run.block = hand[c] /\ run.pages = want[c] /\ dma' = dma \cup {run}
      /\ free' = (free - want[c]) % Word /\ raw' = raw /\ Live' = Live
      /\ at[c] = "runCount" /\ at'[c] = "idle"
  BY <1>1, Zenon DEF RunCount, Goto, Types, Live
<1>3. /\ want[c] \in RunSizes /\ want[c] \in Nat \ {0} /\ want[c] <= Cardinality(hand[c])
      /\ hand[c] \subseteq Frames /\ IsFiniteSet(hand[c]) /\ Cardinality(hand[c]) \in Nat
  BY <1>2, SizesAssumption, FrameSets, Zenon DEF FreeInv, Lengths, Types
<1>4. hand[c] # {}
  BY <1>3, FS_EmptySet
<1>5. run \notin dma /\ \A x \in hand[c] : x \notin RunFrames
  BY <1>2, <1>4 DEF OneOwner, Apart, RunFrames
<1>6. Lengths'
  BY <1>2, <1>3, Zenon DEF FreeInv, Lengths, Moves, Only
<1>7. Uncredited' = Uncredited
  BY <1>2, CreditSame, Zenon DEF Moves
<1>8. InCall' = InCall
  BY <1>2, InCallAfter, Zenon DEF Moves, InCall
<1>9. IsFiniteSet(RunPages') /\ Cardinality(RunPages') = Cardinality(RunPages) + want[c]
  BY <1>2, <1>3, <1>5, PagesAdded, Zenon DEF FreeInv, Stocks
<1>10. IsFiniteSet(RunUnits') /\ Cardinality(RunUnits') = Cardinality(RunUnits) + Cardinality(hand[c])
  BY <1>2, <1>3, <1>5, UnitsAdded, Zenon DEF FreeInv, Stocks
<1>11. Cardinality(RunFrames') = Cardinality(RunFrames) + Cardinality(hand[c])
  <2>1. RunFrames' = RunFrames \cup hand[c] /\ RunFrames \subseteq Frames
    BY <1>2 DEF RunFrames, Types
  <2> QED  BY <1>3, <1>5, <2>1, FrameSets, Adds, Zenon
<1>12. Stocks'
  BY <1>7, <1>9, <1>10, <1>11, Zenon DEF FreeInv, Stocks
<1>13. NotCounted' = NotCounted - (-want[c])
  BY <1>2, <1>3, <1>7, <1>8, <1>9, NotCountedType DEF NotCounted, FreeInv
<1>14. free' = (free + (-want[c])) % Word
  BY <1>2, <1>3, Zenon DEF FreeInv, Balanced
<1>15. Balanced'
  <2>1. -want[c] \in Int
    BY <1>3
  <2> QED  BY <1>13, <1>14, <2>1, NotCountedType, BalancedBy DEF FreeInv
<1> QED  BY <1>6, <1>12, <1>15, Zenon DEF FreeInv

\* A run goes back, but is not counted yet.
LEMMA RunFreed ==
    ASSUME Types, Shape, OneOwner, FreeInv, NEW c \in Cpus, Moves(c),
           want' \in [Cpus -> RunSizes \cup {0}], NEW r \in dma, FreeRun(c, r)
    PROVE  FreeInv'
<1>1. /\ dma' = dma \ {r} /\ want'[c] = r.pages /\ UNCHANGED <<free, raw>> /\ Live' = Live
      /\ at[c] = "idle" /\ at'[c] = "runCredit"
  BY Zenon DEF FreeRun, Goto, At, Types, Live, FreeInv, Lengths
<1>2. r.pages \in Nat /\ r.block \subseteq Frames /\ Cardinality(r.block) \in Nat
  BY SizesAssumption, FrameSets, Zenon DEF FreeInv, Lengths, Types
<1>3. Lengths'
  BY <1>1, LengthsKept, Zenon DEF FreeInv
<1>4. InCall' = InCall
  BY <1>1, InCallAfter, Zenon DEF Moves, InCall
<1>5. IsFiniteSet(Uncredited') /\ Cardinality(Uncredited') = Cardinality(Uncredited) + r.pages
  BY <1>1, <1>2, CreditEnters, Zenon DEF Moves, FreeInv, Stocks
<1>6. IsFiniteSet(RunPages') /\ Cardinality(RunPages') = Cardinality(RunPages) - r.pages
  BY <1>1, <1>2, PagesTaken, Zenon DEF FreeInv, Stocks
<1>7. IsFiniteSet(RunUnits') /\ Cardinality(RunUnits') = Cardinality(RunUnits) - Cardinality(r.block)
  BY <1>1, <1>2, UnitsTaken, Zenon DEF FreeInv, Stocks
<1>8. Cardinality(RunFrames') = Cardinality(RunFrames) - Cardinality(r.block)
  <2>1. \A s \in dma : s # r => \A x \in s.block : x \notin r.block
    BY Zenon DEF OneOwner, Apart
  <2>2. RunFrames' = RunFrames \ r.block /\ RunFrames \subseteq Frames /\ r.block \subseteq RunFrames
    BY <1>1, <2>1 DEF RunFrames, Types
  <2> QED  BY <2>2, FrameSets, Takes, Zenon
<1>9. Stocks'
  BY <1>5, <1>6, <1>7, <1>8, Zenon DEF FreeInv, Stocks
<1>10. NotCounted' = NotCounted
  BY <1>1, <1>2, <1>4, <1>5, <1>6, NotCountedType DEF NotCounted, FreeInv
<1>11. Balanced'
  BY <1>1, <1>10, BalancedSame, Zenon DEF FreeInv
<1> QED  BY <1>3, <1>9, <1>11, Zenon DEF FreeInv

LEMMA RunCredited ==
    ASSUME Types, FreeInv, NEW c \in Cpus, Moves(c),
           want' \in [Cpus -> RunSizes \cup {0}], RunCredit(c)
    PROVE  FreeInv'
<1>1. /\ UNCHANGED <<dma, raw>> /\ Live' = Live /\ at[c] = "runCredit" /\ at'[c] = "idle"
      /\ free' = (free + want[c]) % Word
  BY Zenon DEF RunCredit, ownerVars, Goto, Types, Live
<1>2. want[c] \in Nat
  <2>1. want[c] \in RunSizes \cup {0}
    BY Zenon DEF FreeInv, Lengths
  <2>2. \A n \in RunSizes : n \in Nat
    BY SizesAssumption, Zenon
  <2> QED  BY <2>1, <2>2
<1>3. Lengths'
  BY <1>1, LengthsKept, Zenon DEF FreeInv
<1>4. InCall' = InCall
  BY <1>1, InCallAfter, Zenon DEF Moves, InCall
<1>5. IsFiniteSet(Uncredited') /\ Cardinality(Uncredited') = Cardinality(Uncredited) - want[c]
  BY <1>1, <1>2, CreditLeaves, Zenon DEF Moves, FreeInv, Stocks
<1>6. Stocks'
  BY <1>1, <1>5, RunsSame, Zenon DEF FreeInv, Stocks
<1>7. NotCounted' = NotCounted - want[c]
  BY <1>1, <1>2, <1>4, <1>5, RunsSame, NotCountedType DEF NotCounted, FreeInv
<1>8. Balanced'
  BY <1>1, <1>2, <1>7, NotCountedType, BalancedBy DEF FreeInv
<1> QED  BY <1>3, <1>6, <1>8, Zenon DEF FreeInv

LEMMA FreeStep ==
    ASSUME OwnersCounted, Partition, FreeInv, [Next]_vars
    PROVE  FreeInv'
<1> USE DEF OwnersCounted, Partition
<1>1. CASE UNCHANGED vars
  BY <1>1, Zenon DEF vars, ownerVars, callVars, FreeInv, Lengths, Stocks, Balanced, NotCounted, Live,
     RunPages, RunUnits, RunFrames, InCall, Uncredited
<1>2. CASE Next
  <2>1. PICK c \in Cpus : Calls(c) \/ Steps(c)
    BY <1>2, Zenon DEF Next
  <2>2. Moves(c) /\ want' \in [Cpus -> RunSizes \cup {0}]
    BY <2>1, StepMoves, Zenon DEF FreeInv
  <2>3. Types'
    BY CountedStep, Zenon
  <2> QED
    BY <2>1, <2>2, <2>3, QuietCalls, RunCalls, CountCalls, PassCalls, RunCounted, RunFreed, RunCredited
    DEF Calls, Steps
<1> QED  BY <1>1, <1>2, Zenon

LEMMA FreeInit ==
    ASSUME Init
    PROVE  FreeInv
<1>1. Lengths
  BY Zenon DEF Init, Lengths
<1>2. /\ RunPages = {} /\ RunUnits = {} /\ RunFrames = {} /\ Uncredited = {}
      /\ InCall = {} /\ Live = {} /\ raw = {}
  <2>1. raw = {} /\ RunPages = {} /\ RunUnits = {} /\ RunFrames = {}
    BY Zenon DEF Init, RunPages, RunUnits, RunFrames
  <2>2. \A c \in Cpus : at[c] = "idle"
    BY Zenon DEF Init
  <2>3. InCall = {} /\ Uncredited = {}
    BY <2>2, Zenon DEF InCall, Uncredited
  <2>4. \A f \in Frames : refs[f] = 0
    BY Zenon DEF Init
  <2>5. Live = {}
    BY <2>4 DEF Live
  <2> QED  BY <2>1, <2>3, <2>5, Zenon
<1>3. IsFiniteSet({}) /\ Cardinality({}) = 0
  BY FS_EmptySet, Zenon
<1>4. Stocks
  BY <1>2, <1>3, Zenon DEF Stocks
<1>5. Balanced
  <2>1. Cardinality(Frames) \in Nat
    BY FrameSets, Zenon
  <2>2. NotCounted = 0
    BY <1>2, <1>3 DEF NotCounted
  <2>3. free + NotCounted = Cardinality(Frames) + 0 * Word
    BY <2>1, <2>2, WordAssumption DEF Init
  <2>4. free \in 0..Word - 1
    BY <2>1, WordAssumption DEF Init
  <2> QED  BY <2>3, <2>4 DEF Balanced
<1> QED  BY <1>1, <1>4, <1>5, Zenon DEF FreeInv

\* FREE_MANAGED_FRAMES is exact modulo 2^64 once the calls under way are
\* accounted for, and never above the number of frames except while a returned
\* run waits to be counted (FreeCounted).
THEOREM FreeIsExact == Spec => []FreeCounted
<1>1. Init => OwnersCounted /\ Partition /\ FreeInv
  BY CountedInit, PartitionInit, FreeInit, Zenon
<1>2. OwnersCounted /\ Partition /\ FreeInv /\ [Next]_vars => (OwnersCounted /\ Partition /\ FreeInv)'
  BY CountedStep, PartitionStep, FreeStep, Zenon DEF OwnersCounted
<1>3. OwnersCounted /\ Partition /\ FreeInv => FreeCounted
  BY FreeIsCounted, Zenon DEF OwnersCounted, Partition
<1> QED  BY <1>1, <1>2, <1>3, PTL DEF Spec

-----------------------------------------------------------------------------
(* The table of descriptors *)

Marked == {i \in Slots : fdFlags[i]}

FdInv == FdTypeOK /\ HintBelowFree /\ CloexecCounted

(* The set of slots is finite, and so is every set of marked ones          *)
LEMMA TableSlotsFinite ==
    /\ Slots \subseteq Int /\ IsFiniteSet(Slots)
    /\ \A S \in SUBSET Slots : IsFiniteSet(S) /\ Cardinality(S) \in Nat
  <1>1. Slots \subseteq Int BY MaxFdAssumption DEF Slots
  <1>2. IsFiniteSet(Slots)
    BY MaxFdAssumption, FS_Interval DEF Slots
  <1> QED BY <1>1, <1>2, FS_Subset, FS_CardinalityType, Zenon

(* Unmarking a slot takes it out of the count                              *)
LEMMA LessCounts ==
    ASSUME FdTypeOK, CloexecCounted, NEW i \in Slots
    PROVE  Less(cloexecCount, fdFlags[i]) = Cardinality(Marked \ {i})
  <1>1. IsFiniteSet(Marked) /\ Cardinality(Marked) \in Nat /\ cloexecCount = Cardinality(Marked)
    BY TableSlotsFinite, Zenon DEF Marked, CloexecCounted
  <1>2. CASE fdFlags[i]
    <2>1. i \in Marked BY <1>2, Zenon DEF Marked
    <2>2. Cardinality(Marked \ {i}) = Cardinality(Marked) - 1
      BY <1>1, <2>1, FS_RemoveElement, Zenon
    <2>3. Cardinality(Marked \ {i}) \in Nat
      BY TableSlotsFinite, Zenon DEF Marked
    <2>4. Less(cloexecCount, fdFlags[i]) = IF cloexecCount > 1 THEN cloexecCount - 1 ELSE 0
      BY <1>2, Zenon DEF Less, Counted
    <2> QED BY <1>1, <2>2, <2>3, <2>4
  <1>3. CASE ~fdFlags[i]
    <2>1. Marked \ {i} = Marked BY <1>3, Zenon DEF Marked
    <2>2. Less(cloexecCount, fdFlags[i]) = IF cloexecCount > 0 THEN cloexecCount - 0 ELSE 0
      BY <1>3, Zenon DEF Less, Counted
    <2> QED BY <1>1, <2>1, <2>2
  <1> QED BY <1>2, <1>3, Zenon

(* Marking a slot with a flag, or unmarking it, keeps the count exact      *)
LEMMA MarkCounts ==
    ASSUME FdTypeOK, CloexecCounted, NEW i \in Slots, NEW flag \in BOOLEAN,
           fdFlags' = [fdFlags EXCEPT ![i] = flag],
           cloexecCount' = Less(cloexecCount, fdFlags[i]) + Counted(flag)
    PROVE  CloexecCounted' /\ cloexecCount' \in Nat
  <1>1. Less(cloexecCount, fdFlags[i]) = Cardinality(Marked \ {i})
    BY LessCounts, Zenon
  <1>2. IsFiniteSet(Marked \ {i}) /\ Cardinality(Marked \ {i}) \in Nat
    BY TableSlotsFinite, Zenon DEF Marked
  <1>3. CASE flag
    <2>1. {j \in Slots : fdFlags'[j]} = (Marked \ {i}) \cup {i}
      BY <1>3, Zenon DEF Marked, FdTypeOK
    <2>2. Cardinality((Marked \ {i}) \cup {i}) = Cardinality(Marked \ {i}) + 1
      BY <1>2, FS_AddElement, Zenon
    <2>3. cloexecCount' = Cardinality(Marked \ {i}) + 1
      BY <1>1, <1>3, Zenon DEF Counted
    <2> QED BY <1>2, <2>1, <2>2, <2>3 DEF CloexecCounted, Slots
  <1>4. CASE ~flag
    <2>1. {j \in Slots : fdFlags'[j]} = Marked \ {i}
      BY <1>4, Zenon DEF Marked, FdTypeOK
    <2>2. cloexecCount' = Cardinality(Marked \ {i})
      BY <1>1, <1>2, <1>4 DEF Counted
    <2> QED BY <1>2, <2>1, <2>2, Zenon DEF CloexecCounted, Slots
  <1> QED BY <1>3, <1>4, Zenon

(* Filling a slot keeps the invariant: the hint only moves past slots in use *)
LEMMA SetSlotInv ==
    ASSUME FdInv, NEW i \in Slots, NEW d \in Descs, NEW flag \in BOOLEAN, SetSlot(i, d, flag)
    PROVE  FdInv'
  <1> USE DEF FdInv
  <1>1. CloexecCounted' /\ cloexecCount' \in Nat
    BY MarkCounts, Zenon DEF SetSlot
  <1>2. /\ i \in 0 .. MAX_FD_NUM - 1 /\ MAX_FD_NUM \in Nat /\ hint \in 0 .. MAX_FD_NUM
        /\ hint' \in 0 .. MAX_FD_NUM
    BY MaxFdAssumption DEF SetSlot, FdTypeOK, Slots, Smaller
  <1>3. fds' \in [Slots -> Descs \cup {Empty}] /\ fdFlags' \in [Slots -> BOOLEAN]
    BY Zenon DEF SetSlot, FdTypeOK
  <1>4. d # Empty BY EmptyAssumption, Zenon DEF Descs
  <1>5. \A j \in Slots : Used(j)' <=> (j = i \/ Used(j))
    BY <1>4, Zenon DEF SetSlot, FdTypeOK, Used
  <1>6. \A j \in Slots : fdFlags'[j] => Used(j)'
    BY <1>5, Zenon DEF SetSlot, FdTypeOK
  <1>7. ASSUME NEW j \in Slots, j < hint' PROVE Used(j)'
    <2>1. j < hint \/ j = i
      BY <1>2, <1>7 DEF SetSlot, Smaller, Slots
    <2> QED BY <1>5, <2>1, Zenon DEF HintBelowFree
  <1> QED BY <1>1, <1>2, <1>3, <1>6, <1>7, Zenon DEF FdTypeOK, HintBelowFree, Slots

(* Clearing a slot keeps the invariant: the hint comes down to it          *)
LEMMA ClearSlotInv ==
    ASSUME FdInv, NEW i \in Slots, ClearSlot(i)
    PROVE  FdInv'
  <1> USE DEF FdInv
  <1>0. cloexecCount' = Less(cloexecCount, fdFlags[i]) + Counted(FALSE)
    <2>1. Less(cloexecCount, fdFlags[i]) \in Nat
      BY LessCounts, TableSlotsFinite, Zenon DEF Marked
    <2> QED BY <2>1 DEF ClearSlot, Counted
  <1>1. CloexecCounted' /\ cloexecCount' \in Nat
    BY <1>0, MarkCounts, Zenon DEF ClearSlot
  <1>2. /\ i \in 0 .. MAX_FD_NUM - 1 /\ MAX_FD_NUM \in Nat /\ hint \in 0 .. MAX_FD_NUM
        /\ hint' \in 0 .. MAX_FD_NUM
    BY MaxFdAssumption DEF ClearSlot, FdTypeOK, Slots, Smaller
  <1>3. fds' \in [Slots -> Descs \cup {Empty}] /\ fdFlags' \in [Slots -> BOOLEAN]
    BY Zenon DEF ClearSlot, FdTypeOK
  <1>4. \A j \in Slots : Used(j)' <=> (j # i /\ Used(j))
    BY Zenon DEF ClearSlot, FdTypeOK, Used
  <1>5. \A j \in Slots : fdFlags'[j] => Used(j)'
    BY <1>4, Zenon DEF ClearSlot, FdTypeOK
  <1>6. ASSUME NEW j \in Slots, j < hint' PROVE Used(j)'
    <2>1. j < hint /\ j # i
      BY <1>2, <1>6 DEF ClearSlot, Smaller, Slots
    <2> QED BY <1>4, <2>1, Zenon DEF HintBelowFree
  <1> QED BY <1>1, <1>2, <1>3, <1>5, <1>6, Zenon DEF FdTypeOK, HintBelowFree, Slots

LEMMA SetFdFlagsInv ==
    ASSUME FdInv, NEW i \in Slots, NEW flag \in BOOLEAN, SetFdFlags(i, flag)
    PROVE  FdInv'
  <1> USE DEF FdInv
  <1>1. CloexecCounted' /\ cloexecCount' \in Nat
    BY MarkCounts, Zenon DEF SetFdFlags
  <1>2. fds' = fds /\ hint' = hint /\ fdFlags' \in [Slots -> BOOLEAN]
    BY Zenon DEF SetFdFlags, FdTypeOK
  <1>3. \A j \in Slots : fdFlags'[j] => Used(j)'
    BY <1>2, Zenon DEF SetFdFlags, FdTypeOK, Used
  <1> QED BY <1>1, <1>2, <1>3, Zenon DEF FdTypeOK, HintBelowFree, Slots, Used

(* dup2(): the target is cleared and filled in one operation               *)
LEMMA Dup2Inv ==
    ASSUME FdInv, NEW i \in Slots, NEW j \in Slots, Dup2(i, j)
    PROVE  FdInv'
  <1> USE DEF FdInv
  <1>0. cloexecCount' = Less(cloexecCount, fdFlags[j]) + Counted(FALSE)
    <2>1. Less(cloexecCount, fdFlags[j]) \in Nat
      BY LessCounts, TableSlotsFinite, Zenon DEF Marked
    <2> QED BY <2>1 DEF Dup2, Counted
  <1>1. CloexecCounted' /\ cloexecCount' \in Nat
    BY <1>0, MarkCounts, Zenon DEF Dup2
  <1>2. /\ j \in 0 .. MAX_FD_NUM - 1 /\ MAX_FD_NUM \in Nat /\ hint \in 0 .. MAX_FD_NUM
        /\ hint' \in 0 .. MAX_FD_NUM
    BY MaxFdAssumption DEF Dup2, Dup2Hint, FdTypeOK, Slots, Smaller
  <1>3. fds' \in [Slots -> Descs \cup {Empty}] /\ fdFlags' \in [Slots -> BOOLEAN]
    BY Zenon DEF Dup2, FdTypeOK
  <1>4. \A k \in Slots : Used(k)' <=> (k = j \/ Used(k))
    BY Zenon DEF Dup2, FdTypeOK, Used
  <1>5. \A k \in Slots : fdFlags'[k] => Used(k)'
    BY <1>4, Zenon DEF Dup2, FdTypeOK
  <1>6. ASSUME NEW k \in Slots, k < hint' PROVE Used(k)'
    <2>1. k < hint \/ k = j
      BY <1>2, <1>6 DEF Dup2, Dup2Hint, Smaller, Slots
    <2> QED BY <1>4, <2>1, Zenon DEF HintBelowFree
  <1> QED BY <1>1, <1>2, <1>3, <1>5, <1>6, Zenon DEF FdTypeOK, HintBelowFree, Slots

(* A table without a marked slot has the count zero                        *)
LEMMA NoneMarked ==
    ASSUME fdFlags' \in [Slots -> BOOLEAN], \A i \in Slots : ~fdFlags'[i], cloexecCount' = 0
    PROVE  CloexecCounted'
  <1>1. {i \in Slots : fdFlags'[i]} = {} BY Zenon
  <1> QED BY <1>1, FS_EmptySet, Zenon DEF CloexecCounted, Slots

LEMMA CloseOnExecInv ==
    ASSUME FdInv, CloseOnExec
    PROVE  FdInv'
  <1> USE DEF FdInv
  <1>1. CASE cloexecCount = 0
    BY <1>1, Zenon DEF CloseOnExec, fdVars, FdTypeOK, HintBelowFree, CloexecCounted, Used, Slots
  <1>2. CASE cloexecCount # 0
    <2>1. Closing = Marked
      BY Zenon DEF Closing, Marked, FdTypeOK
    <2>2. cloexecCount = Cardinality(Closing) /\ cloexecCount \in Nat
      BY <2>1, Zenon DEF CloexecCounted, Marked, FdTypeOK
    <2>3. /\ fds' = [i \in Slots |-> IF i \in Closing THEN Empty ELSE fds[i]]
          /\ fdFlags' = [i \in Slots |-> IF i \in Closing THEN FALSE ELSE fdFlags[i]]
          /\ hint' \in {hint} \cup Closing
          /\ hint' <= hint /\ \A i \in Closing : hint' <= i
      BY <1>2, Zenon DEF CloseOnExec
    <2>4. cloexecCount' = 0
      <3>1. cloexecCount' = IF cloexecCount > Cardinality(Closing)
                            THEN cloexecCount - Cardinality(Closing) ELSE 0
        BY <1>2, Zenon DEF CloseOnExec
      <3> QED BY <2>2, <3>1
    <2>5. \A i \in Slots : ~fdFlags'[i]
      BY <2>1, <2>3, Zenon DEF Marked, FdTypeOK
    <2>6. fds' \in [Slots -> Descs \cup {Empty}] /\ fdFlags' \in [Slots -> BOOLEAN]
      BY <2>3, Zenon DEF FdTypeOK
    <2>7. hint' \in 0 .. MAX_FD_NUM
      BY <2>3, MaxFdAssumption DEF FdTypeOK, Closing, Slots
    <2>8. CloexecCounted'
      BY <2>4, <2>5, <2>6, NoneMarked, Zenon
    <2>9. ASSUME NEW i \in Slots, i < hint' PROVE Used(i)'
      <3>1. i \notin Closing /\ i < hint
        BY <2>3, <2>7, <2>9, MaxFdAssumption DEF FdTypeOK, Slots
      <3> QED BY <2>3, <3>1, Zenon DEF HintBelowFree, Used
    <2> QED BY <2>4, <2>5, <2>6, <2>7, <2>8, <2>9, Zenon DEF FdTypeOK, HintBelowFree, Slots
  <1> QED BY <1>1, <1>2, Zenon

LEMMA CloseAllInv ==
    ASSUME FdInv, CloseAll
    PROVE  FdInv'
  <1>1. fds' \in [Slots -> Descs \cup {Empty}] /\ fdFlags' \in [Slots -> BOOLEAN]
    BY Zenon DEF CloseAll
  <1>2. \A i \in Slots : ~fdFlags'[i] BY Zenon DEF CloseAll
  <1>3. CloexecCounted' BY <1>1, <1>2, NoneMarked, Zenon DEF CloseAll
  <1>4. hint' = 0 /\ cloexecCount' = 0 BY Zenon DEF CloseAll
  <1> QED BY <1>1, <1>2, <1>3, <1>4, MaxFdAssumption
          DEF FdInv, FdTypeOK, HintBelowFree, Slots

LEMMA MovePosInv ==
    ASSUME FdInv, NEW i \in Slots, NEW p \in 0 .. MaxPos, MovePos(i, p)
    PROVE  FdInv'
  <1> USE DEF FdInv
  <1>1. fds[i] \in Descs BY Zenon DEF MovePos, Used, FdTypeOK
  <1>2. fds'[i] \in Descs /\ fds' \in [Slots -> Descs \cup {Empty}]
    BY <1>1, Zenon DEF MovePos, FdTypeOK, Descs
  <1>3. fds'[i] # Empty BY <1>2, EmptyAssumption, Zenon DEF Descs
  <1>4. \A j \in Slots : Used(j)' <=> Used(j)
    BY <1>3, Zenon DEF MovePos, Used, FdTypeOK
  <1>5. fdFlags' = fdFlags /\ hint' = hint /\ cloexecCount' = cloexecCount
    BY Zenon DEF MovePos
  <1> QED BY <1>2, <1>4, <1>5, Zenon DEF FdTypeOK, HintBelowFree, CloexecCounted, Slots

LEMMA FdInductive == FdInv /\ [FdNext]_fdVars => FdInv'
  <1> SUFFICES ASSUME FdInv, [FdNext]_fdVars PROVE FdInv'
    BY Zenon
  <1>1. ASSUME NEW start, NEW limit, NEW d \in Descs, NEW flag \in BOOLEAN,
               Alloc(start, limit, d, flag)
        PROVE FdInv'
    BY <1>1, SetSlotInv, Zenon DEF Alloc
  <1>2. ASSUME NEW d \in Descriptions PROVE [of |-> d, pos |-> 0] \in Descs
    BY MaxPosAssumption DEF Descs
  <1>3. ASSUME NEW i \in Slots, NEW limit, Dup(i, limit) PROVE FdInv'
    <2>1. fds[i] \in Descs BY <1>3, Zenon DEF Dup, Used, FdInv, FdTypeOK
    <2> QED BY <1>1, <1>3, <2>1, Zenon DEF Dup
  <1>4. CASE UNCHANGED fdVars
    BY <1>4, Zenon DEF fdVars, FdInv, FdTypeOK, HintBelowFree, CloexecCounted, Used, Slots
  <1>5. ASSUME NEW i \in Slots, Free(i) PROVE FdInv'
    BY <1>5, ClearSlotInv, Zenon DEF Free
  <1> QED
    BY <1>1, <1>2, <1>3, <1>4, <1>5, SetFdFlagsInv, Dup2Inv, MovePosInv, CloseOnExecInv,
       CloseAllInv, Zenon DEF FdNext

LEMMA FdInvInit == FdInit => FdInv
  <1> SUFFICES ASSUME FdInit PROVE FdInv
    OBVIOUS
  <1>1. {i \in Slots : fdFlags[i]} = {} BY Zenon DEF FdInit
  <1>2. CloexecCounted BY <1>1, FS_EmptySet, Zenon DEF FdInit, CloexecCounted
  <1> QED BY <1>2, MaxFdAssumption DEF FdInit, FdInv, FdTypeOK, HintBelowFree, Slots

(* What alloc_slot_from() picks is the lowest free slot, because no free   *)
(* slot is hidden below the hint                                           *)
LEMMA HintPicksLowest == FdInv => PicksLowest
  <1> SUFFICES ASSUME FdInv, NEW start \in 0 .. MAX_FD_NUM, NEW limit \in 0 .. MAX_FD_NUM,
                      NEW i \in Slots
               PROVE  Picks(i, start, limit) <=> Lowest(i, FreeIn(start, limit))
    BY Zenon DEF PicksLowest
  <1>1. /\ MAX_FD_NUM \in Nat /\ hint \in 0 .. MAX_FD_NUM /\ Slots = 0 .. MAX_FD_NUM - 1
        /\ Smaller(limit, MAX_FD_NUM) = limit
    BY MaxFdAssumption DEF FdInv, FdTypeOK, Slots, Smaller
  <1>2. \A j \in Slots : j < hint => Used(j)
    BY Zenon DEF FdInv, HintBelowFree
  <1>3. CASE start # 0
    <2>1. FreeIn(start, start) = {}
      BY <1>1 DEF FreeIn
    <2> QED BY <1>1, <1>3, <2>1 DEF Picks, ScanStart, Lowest, FreeIn
  <1>4. CASE start = 0
    <2>1. ScanStart(start, limit) = Smaller(hint, limit) /\ Smaller(hint, limit) \in 0 .. limit
      BY <1>1, <1>4 DEF ScanStart, Smaller
    <2>2. FreeIn(start, limit) = FreeIn(Smaller(hint, limit), limit)
      BY <1>1, <1>2, <1>4 DEF FreeIn, Smaller
    <2>3. FreeIn(start, Smaller(hint, limit)) = {}
      BY <1>1, <1>2, <1>4 DEF FreeIn, Smaller
    <2> QED BY <1>1, <2>1, <2>2, <2>3 DEF Picks, Lowest, FreeIn
  <1> QED BY <1>3, <1>4, Zenon

(* For tables of every size, after any sequence of FdTable operations: no  *)
(* free slot lies below next_fd_hint, cloexec_count is the number of       *)
(* marked slots, and open(), dup() and fcntl(F_DUPFD) return the lowest    *)
(* free descriptor they may                                                *)
THEOREM TableExact == FdSpec => []FdTableExact
  <1>1. FdInv => FdTableExact
    BY HintPicksLowest, Zenon DEF FdInv, FdTableExact
  <1> QED BY <1>1, FdInvInit, FdInductive, PTL DEF FdSpec

=============================================================================
