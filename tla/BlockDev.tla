------------------------------- MODULE BlockDev -------------------------------
(***************************************************************************)
(* The block device under the file system (os/src/fs/block_dev.rs): the    *)
(* partitions and which of them is the root, the cache of blocks a range   *)
(* of the disk has, the read-modify-write of partial sectors in the virtio *)
(* driver (os/src/drivers/virtio_mmio_blk.rs, virtio_pci_blk.rs), and the  *)
(* loop devices.                                                           *)
(*                                                                         *)
(* `disk' maps the addresses of the disk to bytes.  All calls go to one    *)
(* range, the root; its blocks are counted from its start.  A task is      *)
(* inside at most one call.  `seen' of a call is every content the disk    *)
(* has had since the call began; only the properties read it.              *)
(***************************************************************************)
EXTENDS Integers, Sequences, FiniteSetsExt, SequencesExt

CONSTANTS
    SectorSize, BlockSize,   \* SECTOR_SIZE, EXT4_BLOCK_SIZE
    DiskSize,                \* bytes of the disk
    CacheLimit, ReadAhead,   \* BLOCK_CACHE_LIMIT, BLOCK_CACHE_READ_AHEAD_BLOCKS
    BdTasks,
    LoopFiles, LoopCount,    \* regular files; LOOP_DEVICE_COUNT
    NoLoop

VARIABLES
    layout,  \* the partition tables and where ext4 is
    disk,
    cache,   \* blocks and their ages
    io,      \* who holds the io_lock
    bt,      \* per task: its call
    loops,   \* the file behind each loop device
    lfiles   \* per file: descriptors, references, linked, freed

bdVars == <<layout, disk, cache, io, bt, loops, lfiles>>

-----------------------------------------------------------------------------
(* Partitions.  A table is a sequence of entries; an entry that is not in  *)
(* use has kind "none".                                                    *)

Numbered(table) == [i \in DOMAIN table |-> [table[i] EXCEPT !.index = i]]

\* parse_gpt_partitions(): first and last sector, both inside.
Gpt(table) ==
    LET valid(e) == e.kind # "none" /\ e.first > 0 /\ e.last >= e.first
        parts == SelectSeq(Numbered(table), valid)
    IN [i \in DOMAIN parts |-> [index |-> parts[i].index, start |-> parts[i].first,
                                sectors |-> parts[i].last - parts[i].first + 1, ext4 |-> parts[i].ext4]]

\* parse_mbr_partitions(): a protective entry leads to the other table.
Partitions(l) ==
    LET valid(e) == e.kind # "none" /\ e.last >= e.first
        mbr == SelectSeq(Numbered(l.mbr), valid)
        parts == [i \in DOMAIN mbr |-> [index |-> mbr[i].index, start |-> mbr[i].first,
                                        sectors |-> mbr[i].last - mbr[i].first + 1, ext4 |-> mbr[i].ext4]]
    IN IF (\E i \in DOMAIN l.mbr : l.mbr[i].kind = "gpt") /\ Gpt(l.gpt) # <<>> THEN Gpt(l.gpt) ELSE parts

Whole(l) == [index |-> 0, start |-> 0, len |-> DiskSize, ext4 |-> l.ext4]
RangeOf(p) == [index |-> p.index, start |-> p.start * SectorSize, len |-> p.sectors * SectorSize,
               ext4 |-> p.ext4]

\* register_virtio_disk(): the whole disk if ext4 starts there, or the first
\* partition that holds it.
Root(l) ==
    LET found == SelectSeq(Partitions(l), LAMBDA p : p.ext4) IN
    IF l.ext4 \/ found = <<>> THEN Whole(l) ELSE RangeOf(Head(found))

-----------------------------------------------------------------------------
(* The cache: an operation takes a cache and returns one *)

NoCache == [blocks |-> <<>>, ages |-> {}, next |-> 1]
Cached(c) == DOMAIN c.blocks
Put(c, b, data) ==
    [blocks |-> [x \in Cached(c) \cup {b} |->
                    IF x = b THEN [data |-> data, used |-> c.next] ELSE c.blocks[x]],
     ages |-> (c.ages \ {a \in c.ages : b \in Cached(c) /\ a = <<c.blocks[b].used, b>>})
                 \cup {<<c.next, b>>},
     next |-> c.next + 1]
Without(c, B) ==
    [c EXCEPT !.blocks = [x \in Cached(c) \ B |-> c.blocks[x]],
              !.ages = @ \ {<<c.blocks[b].used, b>> : b \in B \cap Cached(c)}]

\* get(): a hit makes the block the youngest.
Touch(c, b) ==
    IF b \in Cached(c) THEN Put(c, b, c.blocks[b].data) ELSE [c EXCEPT !.next = @ + 1]

\* insert(): the oldest makes room.
Insert(c, b, data) ==
    LET oldest == CHOOSE a \in c.ages : \A x \in c.ages : a[1] <= x[1] IN
    IF b \notin Cached(c) /\ Cardinality(Cached(c)) >= CacheLimit
    THEN Put(Without(c, {oldest[2]}), b, data) ELSE Put(c, b, data)
InsertAll(c, B, data) ==
    FoldLeft(LAMBDA d, i : Insert(d, B[i], SubSeq(data, (i - 1) * BlockSize + 1, i * BlockSize)),
             c, [i \in DOMAIN B |-> i])

BlockOf(a) == (a \div BlockSize) * BlockSize

Invalidate_Start(c, start, len) == Without(c, {BlockOf(start)})

\* invalidate_range()
Invalidate(c, start, len) ==
    IF len = 0 THEN c
    ELSE Without(c, {b \in Cached(c) : BlockOf(start) <= b /\ b <= BlockOf(start + len - 1)})

-----------------------------------------------------------------------------
(* The disk *)

Here == Root(layout)
InRange(off, len) == off + len <= Here.len
Raw(off, len) == [i \in 1..len |-> disk[Here.start + off + i - 1]]
SectorOf(a) == (a \div SectorSize) * SectorSize
Partial_Start(a, len) == a % SectorSize # 0
Partial(a, len) == a % SectorSize # 0 \/ (a + len) % SectorSize # 0

NoBdCall == [at |-> "none", todo |-> <<>>, off |-> 0, len |-> 0, data |-> <<>>, buf |-> <<>>,
             got |-> <<>>, err |-> "none", seen |-> {}, faulty |-> FALSE]
BT(t, new) == bt' = [bt EXCEPT ![t] = new]
IoFree == io = NoLoop

\* The end of a call, with the lock given back if it was held.
EndCall(t, call, err) ==
    /\ BT(t, [call EXCEPT !.at = "done", !.err = err])
    /\ io' = IF io = t THEN NoLoop ELSE io

BlockDevInit(l) ==
    /\ layout = l
    /\ disk = [a \in 0..(DiskSize - 1) |-> a + 1]
    /\ cache = NoCache /\ io = NoLoop
    /\ bt = [t \in BdTasks |-> NoBdCall]
    /\ loops = [i \in 0..(LoopCount - 1) |-> NoLoop]
    /\ lfiles = [f \in LoopFiles |-> [fds |-> 0, refs |-> 0, linked |-> TRUE, freed |-> FALSE]]

Start(t, call) ==
    /\ bt[t].at \in {"none", "done"}
    /\ BT(t, [call EXCEPT !.seen = {disk}])
    /\ UNCHANGED <<layout, disk, cache, io, loops, lfiles>>

-----------------------------------------------------------------------------
(* read_offset(): the block at an offset, from one cached block or two.  A *)
(* block that cannot be read is returned as zeros.                         *)

ReadOffset(t, off) ==
    Start(t, [NoBdCall EXCEPT !.at = "look", !.off = off,
                !.todo = IF off % BlockSize = 0 THEN <<off>>
                         ELSE <<BlockOf(off), BlockOf(off) + BlockSize>>])

\* One read_cached_block() is over.
OneRead(t, block, fault) ==
    LET call == [bt[t] EXCEPT !.got = Append(@, block), !.todo = Tail(@), !.faulty = @ \/ fault] IN
    IF call.todo = <<>> THEN EndCall(t, call, "none")
    ELSE BT(t, [call EXCEPT !.at = "look"]) /\ io' = IF io = t THEN NoLoop ELSE io

Look(t) ==
    LET b == Head(bt[t].todo) IN
    /\ bt[t].at = "look"
    /\ cache' = Touch(cache, b)
    /\ IF b \in Cached(cache) THEN OneRead(t, cache.blocks[b].data, FALSE)
       ELSE BT(t, [bt[t] EXCEPT !.at = "lock"]) /\ UNCHANGED io
    /\ UNCHANGED <<layout, disk, loops, lfiles>>

\* The lock, and a second look under it.
LockLook(t) ==
    LET b == Head(bt[t].todo) IN
    /\ bt[t].at = "lock" /\ IoFree
    /\ cache' = Touch(cache, b)
    /\ IF b \in Cached(cache) THEN OneRead(t, cache.blocks[b].data, FALSE)
       ELSE BT(t, [bt[t] EXCEPT !.at = "fetch"]) /\ io' = t
    /\ UNCHANGED <<layout, disk, loops, lfiles>>

Ahead(b) == Min({ReadAhead, Max({1, (Here.len - b) \div BlockSize})})
Run(b, n) == [i \in 1..n |-> b + (i - 1) * BlockSize]

Fetch(t, fault) ==
    LET b == Head(bt[t].todo)
        len == Ahead(b) * BlockSize
    IN /\ bt[t].at = "fetch"
       /\ IF InRange(b, len) /\ ~fault
          THEN BT(t, [bt[t] EXCEPT !.at = "fill", !.buf = Raw(b, len)]) /\ UNCHANGED io
          ELSE OneRead(t, <<>>, fault)
       /\ UNCHANGED <<layout, disk, cache, loops, lfiles>>

FillBlocks(t) ==
    LET b == Head(bt[t].todo) IN
    /\ bt[t].at = "fill"
    /\ cache' = InsertAll(cache, Run(b, Ahead(b)), bt[t].buf)
    /\ OneRead(t, SubSeq(bt[t].buf, 1, BlockSize), FALSE)
    /\ UNCHANGED <<layout, disk, loops, lfiles>>

-----------------------------------------------------------------------------
(* read_root_blocks(): several blocks; what is missing is read in runs *)

Missing(call) == {i \in DOMAIN call.todo : call.got[i] = <<>>}
Looked(call) ==
    [i \in DOMAIN call.todo |->
        IF i \in Missing(call) /\ call.todo[i] \in Cached(cache)
        THEN cache.blocks[call.todo[i]].data ELSE call.got[i]]
TouchAll(call) ==
    FoldLeft(LAMBDA c, i : IF i \in Missing(call) THEN Touch(c, call.todo[i]) ELSE c,
             cache, [i \in DOMAIN call.todo |-> i])

ReadBlocks(t, offs) ==
    Start(t, [NoBdCall EXCEPT !.at = "lookall", !.todo = offs, !.got = [i \in DOMAIN offs |-> <<>>]])

LookAll(t) ==
    LET call == [bt[t] EXCEPT !.got = Looked(bt[t])] IN
    /\ bt[t].at = "lookall"
    /\ cache' = TouchAll(bt[t])
    /\ IF Missing(call) = {} THEN EndCall(t, call, "none")
       ELSE BT(t, [call EXCEPT !.at = "lockall"]) /\ UNCHANGED io
    /\ UNCHANGED <<layout, disk, loops, lfiles>>

LockAll(t) ==
    /\ bt[t].at = "lockall" /\ IoFree
    /\ cache' = TouchAll(bt[t])
    /\ BT(t, [bt[t] EXCEPT !.at = "run", !.got = Looked(bt[t])])
    /\ io' = t
    /\ UNCHANGED <<layout, disk, loops, lfiles>>

\* The first missing block and those behind it that are adjacent on the disk.
RunOf(call) ==
    LET first == Min(Missing(call))
        joined(i) == \A j \in (first + 1)..i : /\ j \in Missing(call)
                                               /\ call.todo[j] = call.todo[j - 1] + BlockSize
    IN first..Max({i \in first..Len(call.todo) : joined(i)})

RunFetch(t, fault) ==
    LET call == bt[t]
        run == RunOf(call)
        len == Cardinality(run) * BlockSize
    IN /\ call.at = "run"
       /\ IF Missing(call) = {} THEN EndCall(t, call, "none")
          ELSE IF InRange(call.todo[Min(run)], len) /\ ~fault
          THEN BT(t, [call EXCEPT !.at = "runfill", !.buf = Raw(call.todo[Min(run)], len)]) /\ UNCHANGED io
          ELSE EndCall(t, call, IF fault THEN "EIO" ELSE "EINVAL")
       /\ UNCHANGED <<layout, disk, cache, loops, lfiles>>

RunFill(t) ==
    LET call == bt[t]
        run == RunOf(call)
        block(i) == SubSeq(call.buf, (i - Min(run)) * BlockSize + 1, (i - Min(run) + 1) * BlockSize)
    IN /\ call.at = "runfill"
       /\ cache' = InsertAll(cache, SubSeq(call.todo, Min(run), Max(run)), call.buf)
       /\ BT(t, [call EXCEPT !.at = "run",
                   !.got = [i \in DOMAIN @ |-> IF i \in run THEN block(i) ELSE @[i]]])
       /\ UNCHANGED <<layout, disk, io, loops, lfiles>>

-----------------------------------------------------------------------------
(* read_at() and write_at(), past the cache *)

RangeRead(t, off, len) == Start(t, [NoBdCall EXCEPT !.at = "rlock", !.off = off, !.len = len])

ReadRaw(t, fault) ==
    LET call == bt[t] IN
    /\ call.at = "rlock" /\ IoFree
    /\ IF InRange(call.off, call.len) /\ ~fault
       THEN EndCall(t, [call EXCEPT !.got = <<Raw(call.off, call.len)>>], "none")
       ELSE EndCall(t, call, IF fault THEN "EIO" ELSE "EINVAL")
    /\ UNCHANGED <<layout, disk, cache, loops, lfiles>>

RangeWrite(t, off, data) ==
    Start(t, [NoBdCall EXCEPT !.at = "wlock", !.off = off, !.len = Len(data), !.data = data])

\* The lock, the invalidation, and the sectors the driver must read first.
WriteLock(t) ==
    LET call == bt[t] IN
    /\ call.at = "wlock" /\ IoFree
    /\ cache' = Invalidate(cache, call.off, call.len)
    /\ IF ~InRange(call.off, call.len) THEN EndCall(t, call, "EINVAL")
       ELSE BT(t, [call EXCEPT !.at = "sectors"]) /\ io' = t
    /\ UNCHANGED <<layout, disk, loops, lfiles>>

\* read_phys() inside write_phys(): a failure leaves zeros.
WriteSectors(t, fault) ==
    LET call == bt[t]
        abs == Here.start + call.off
        first == SectorOf(abs)
        n == SectorOf(abs + call.len + SectorSize - 1) - first
        old == IF Partial(abs, call.len) /\ ~fault THEN [i \in 1..n |-> disk[first + i - 1]]
               ELSE [i \in 1..n |-> 0]
    IN /\ call.at = "sectors"
       /\ BT(t, [call EXCEPT !.at = "put",
                   !.buf = [i \in 1..n |-> IF i - 1 \in (abs - first)..(abs - first + call.len - 1)
                                           THEN call.data[i - abs + first] ELSE old[i]]])
       /\ UNCHANGED <<layout, disk, cache, io, loops, lfiles>>

WriteRaw(t, fault) ==
    LET call == bt[t]
        first == SectorOf(Here.start + call.off)
        new == [a \in DOMAIN disk |-> IF a \in first..(first + Len(call.buf) - 1)
                                      THEN call.buf[a - first + 1] ELSE disk[a]]
    IN /\ call.at = "put"
       /\ disk' = IF fault THEN disk ELSE new
       /\ bt' = [u \in BdTasks |->
                   IF u = t THEN [call EXCEPT !.at = "done", !.err = IF fault THEN "EIO" ELSE "none"]
                   ELSE [bt[u] EXCEPT !.seen = IF bt[u].at \in {"none", "done"} THEN @ ELSE @ \cup {disk'}]]
       /\ io' = NoLoop
       /\ UNCHANGED <<layout, cache, loops, lfiles>>

BlockDevStep(t) ==
    \/ Look(t) \/ LockLook(t) \/ Fetch(t, FALSE) \/ FillBlocks(t)
    \/ LookAll(t) \/ LockAll(t) \/ RunFetch(t, FALSE) \/ RunFill(t)
    \/ ReadRaw(t, FALSE) \/ WriteLock(t) \/ WriteSectors(t, FALSE) \/ WriteRaw(t, FALSE)

\* A device error.
BlockDevFault(t) == Fetch(t, TRUE) \/ RunFetch(t, TRUE) \/ ReadRaw(t, TRUE) \/ WriteRaw(t, TRUE)

-----------------------------------------------------------------------------
(* Loop devices *)

LF(f, new) == lfiles' = [lfiles EXCEPT ![f] = new]

OpenBacking(f) ==
    /\ lfiles[f].linked
    /\ LF(f, [lfiles[f] EXCEPT !.fds = @ + 1, !.refs = @ + 1])
    /\ UNCHANGED <<layout, disk, cache, io, bt, loops>>

\* close_regular_ino(): the last reference frees a file without a name.
Closed(x) == [x EXCEPT !.refs = @ - 1, !.freed = @ \/ (x.refs = 1 /\ ~x.linked)]

CloseBacking(f) ==
    /\ lfiles[f].fds > 0
    /\ LF(f, [Closed(lfiles[f]) EXCEPT !.fds = @ - 1])
    /\ UNCHANGED <<layout, disk, cache, io, bt, loops>>

UnlinkBacking(f) ==
    /\ lfiles[f].linked
    /\ LF(f, [lfiles[f] EXCEPT !.linked = FALSE, !.freed = lfiles[f].refs = 0])
    /\ UNCHANGED <<layout, disk, cache, io, bt, loops>>

\* LOOP_SET_FD on a free device
AttachLoop(i, f) ==
    /\ lfiles[f].fds > 0 /\ loops[i] = NoLoop
    /\ loops' = [loops EXCEPT ![i] = f]
    /\ LF(f, [lfiles[f] EXCEPT !.refs = @ + 1])
    /\ UNCHANGED <<layout, disk, cache, io, bt>>

\* LOOP_CLR_FD
DetachLoop(i) ==
    /\ loops[i] # NoLoop
    /\ LF(loops[i], Closed(lfiles[loops[i]]))
    /\ loops' = [loops EXCEPT ![i] = NoLoop]
    /\ UNCHANGED <<layout, disk, cache, io, bt>>

-----------------------------------------------------------------------------
(* Properties *)

\* The types; the cache stays within its limit (BLOCK_CACHE_LIMIT).
BdTypeOK ==
    /\ io \in BdTasks \cup {NoLoop}
    /\ Cardinality(Cached(cache)) <= CacheLimit
    /\ \A b \in Cached(cache) : b % BlockSize = 0 /\ Len(cache.blocks[b].data) = BlockSize
    /\ \A t \in BdTasks : bt[t].err \in {"none", "EIO", "EINVAL"}

\* Every cached block has exactly one age on the list eviction goes by, so that
\* the entry evicted is the least recently used one and no age outlives its block
\* (BlockCache::get(), insert(), invalidate_range()).
AgesMatch == cache.ages = {<<cache.blocks[b].used, b>> : b \in Cached(cache)}

\* A cached block is what the disk holds, whatever reads and writes are under way
\* and whichever of them fail: write_at() invalidates under the lock that a fill
\* holds from its read to its insertion.
CacheFresh == \A b \in Cached(cache) : cache.blocks[b].data = Raw(b, BlockSize)

\* What a read returns for a block the disk held, at that place, at some moment of
\* the call.  A block that lies inside the range is returned as zeros, here the
\* empty sequence, only when the device failed: the read-ahead never asks for more
\* than the range has (read_cached_block(), read_cached_blocks(), read_at()).
BlocksExact ==
    \A t \in BdTasks :
        LET call == bt[t]
            base(i) == IF call.todo # <<>> THEN call.todo[i]
                       ELSE IF call.len > 0 THEN call.off ELSE BlockOf(call.off) + (i - 1) * BlockSize
            was(i, d) == \A j \in DOMAIN call.got[i] : call.got[i][j] = d[Here.start + base(i) + j - 1]
        IN call.at = "done" /\ call.err = "none" /\ call.data = <<>> =>
              \A i \in DOMAIN call.got :
                  /\ \E d \in call.seen : was(i, d)
                  /\ call.got[i] = <<>> => call.faulty \/ ~InRange(base(i), BlockSize)

\* A write changes the bytes it was given and no others, although the driver
\* rewrites whole sectors (write_phys() under the io_lock of write_at()).
WritesExact ==
    [][\A a \in DOMAIN disk :
          disk'[a] # disk[a] =>
             \E t \in BdTasks : LET i == a - Here.start - bt[t].off + 1 IN
                bt[t].at = "put" /\ i \in DOMAIN bt[t].data /\ disk'[a] = bt[t].data[i]]_disk

\* If ext4 is anywhere on the disk the root is on a range that holds it, and the
\* range is inside the disk (register_virtio_disk()).
RootFound ==
    /\ Here.start + Here.len <= DiskSize
    /\ (layout.ext4 \/ \E i \in DOMAIN Partitions(layout) : Partitions(layout)[i].ext4) => Here.ext4

\* A file behind a loop device stays allocated until the device is detached, also
\* when its descriptors are closed and its name is gone; and nothing else keeps it
\* (attach_loop(), detach_loop(), close_regular_ino()).
LoopKeepsFile ==
    \A f \in LoopFiles :
        LET uses == lfiles[f].fds + Cardinality({i \in DOMAIN loops : loops[i] = f}) IN
        lfiles[f].freed <=> (uses = 0 /\ ~lfiles[f].linked)

\* Together: what is read from the cache, the disk or a loop device's file is what
\* is stored there, at the place asked for.
BlocksSafe ==
    BdTypeOK /\ AgesMatch /\ CacheFresh /\ BlocksExact /\ RootFound /\ LoopKeepsFile

=============================================================================
