------------------------------ MODULE Ext4Data -------------------------------
(***************************************************************************)
(* File data of the ext4 volume, os/src/fs/ext4_vol.rs: the regular-file   *)
(* cache (dense for small files, sparse pages for large ones) with its     *)
(* dirty ranges and write-back state, the clean page cache, the executable *)
(* image cache, and the open references that delay an unlink.              *)
(*                                                                         *)
(* A cache entry is changed in one step, under its mutex; the disk in one  *)
(* step, under EXT4_MUTATION_LOCK.  Everything else is between steps: the  *)
(* write-back copies a range, writes it and marks it clean in three steps, *)
(* filling a cache reads the disk in one step and publishes in another,    *)
(* and a last close looks at the entry before it drops it.                 *)
(*                                                                         *)
(* Dirty ranges are sorted, disjoint and merged when they touch, so they   *)
(* are the runs of a set of dirty offsets.  The write-back worker is never *)
(* started by this kernel, so WRITEBACK_QUEUE is only ever filled; it is   *)
(* left out, and so are time stamps, physical block runs and read-ahead.   *)
(***************************************************************************)
EXTENDS Integers, Sequences, FiniteSets, FiniteSetsExt

CONSTANTS DThreads,     \* threads in data calls
          DInos,        \* inode numbers
          PageSz,       \* PAGE_SIZE
          DenseLimit,   \* DENSE_REGULAR_CACHE_LIMIT
          Cluster,      \* WRITEBACK_CLUSTER_BYTES
          MaxLen,       \* bound on file sizes
          MaxOpens,     \* bound on open references
          Nothing       \* an empty cache slot

VARIABLES blk,     \* the inodes on disk: [bytes, used, linked]
          rc,      \* REGULAR_FILE_CACHE
          cpc,     \* CLEAN_PAGE_CACHE
          img,     \* EXECUTABLE_IMAGE_CACHE
          opens,   \* OPEN_REGULAR_REFS
          later,   \* PENDING_UNLINK_REGULAR
          dt,      \* what each thread is doing
          truth    \* history: the contents the completed calls add up to
dataVars == <<blk, rc, cpc, img, opens, later, dt, truth>>

Pages == 0 .. ((MaxLen - 1) \div PageSz)
ZeroBytes(n) == [k \in 1 .. n |-> 0]
FitTo(s, n) == [k \in 1 .. n |-> IF k <= Len(s) THEN s[k] ELSE 0]
Over(s, off, b) == [k \in 1 .. Max({Len(s), off + Len(b)}) |->
                      IF k > off /\ k <= off + Len(b) THEN b[k - off]
                      ELSE IF k <= Len(s) THEN s[k] ELSE 0]
DIdle == [pc |-> "idle", call |-> "none", ino |-> 0, off |-> 0, bytes |-> <<>>, snap |-> Nothing,
          len |-> 0, page |-> 0, ok |-> TRUE, todo |-> {}]

----------------------------------------------------------------------------
(* One cached file.                                                        *)

NewEntry(n, dense) ==
    [dense |-> dense, pages |-> [g \in Pages |-> Nothing], size |-> n, stored |-> n,
     trunc |-> Nothing, dirty |-> {}, full |-> FALSE, sized |-> FALSE, wb |-> "Clean",
     err |-> FALSE, seq |-> 0]

DataDirty(e) == e.full \/ e.sized \/ e.dirty # {}
Active(e) == e.wb \in {"Writeback", "DirtyDuringWriteback"}
IsDirty(i) == rc[i] # Nothing /\ DataDirty(rc[i])

(* copy_cached_range over the whole file; d is what the disk holds.        *)
EntryByte(e, d, k) ==
    IF e.dense # Nothing THEN e.dense[k]
    ELSE IF e.pages[(k - 1) \div PageSz] # Nothing
           THEN e.pages[(k - 1) \div PageSz][((k - 1) % PageSz) + 1]
    ELSE IF k <= e.stored /\ k <= Len(d) THEN d[k] ELSE 0
EntryBytes(e, d) == [k \in 1 .. e.size |-> EntryByte(e, d, k)]

(* promote_dense_regular_cache. *)
Promoted(e) ==
    IF e.dense = Nothing THEN e
    ELSE [e EXCEPT !.dense = Nothing,
            !.pages = [g \in Pages |-> IF g * PageSz >= Len(e.dense) THEN Nothing
                        ELSE [k \in 1 .. PageSz |-> IF g * PageSz + k <= Len(e.dense)
                                                    THEN e.dense[g * PageSz + k] ELSE 0]]]

NoteWrite(e) == [e EXCEPT !.seq = @ + 1, !.wb = IF Active(e) THEN "DirtyDuringWriteback" ELSE "Dirty"]

(* cached_page_for_write: a page that is only partly overwritten is read   *)
(* first, as far as the disk holds this file.                              *)
PageForWrite_NoPreserve(e, d, g, whole) ==
    IF e.pages[g] # Nothing THEN e.pages[g] ELSE ZeroBytes(PageSz)
PageForWrite(e, d, g, whole) ==
    IF e.pages[g] # Nothing THEN e.pages[g]
    ELSE [k \in 1 .. PageSz |->
            IF ~whole /\ g * PageSz + k <= e.stored /\ g * PageSz + k <= Len(d)
            THEN d[g * PageSz + k] ELSE 0]

(* cached_regular_write, under the entry's mutex. *)
WriteEntry(e0, d, off, b) ==
    LET end == off + Len(b)
        e == IF end > DenseLimit THEN Promoted(e0) ELSE e0
        hit(g) == g * PageSz < end /\ (g + 1) * PageSz > off
        whole(g) == off <= g * PageSz /\ end >= (g + 1) * PageSz
        page(g) == LET old == PageForWrite(e, d, g, whole(g))
                   IN [k \in 1 .. PageSz |->
                         LET at == g * PageSz + k
                         IN IF at > off /\ at <= end THEN b[at - off] ELSE old[k]]
    IN NoteWrite([e EXCEPT
         !.dense = IF @ = Nothing THEN @ ELSE Over(@, off, b),
         !.pages = IF e.dense # Nothing THEN @
                   ELSE [g \in Pages |-> IF hit(g) THEN page(g) ELSE @[g]],
         !.size = Max({@, end}),
         !.dirty = @ \cup (off .. end - 1),
         !.sized = @ \/ end > e0.size])

(* cached_regular_resize, under the entry's mutex. *)
ResizeEntry(e0, n) ==
    LET e == IF n > DenseLimit THEN Promoted(e0) ELSE e0
        cut == [e EXCEPT
          !.stored = Min({@, n}),
          !.trunc = IF @ = Nothing THEN n ELSE Min({@, n}),
          !.dense = IF @ = Nothing THEN @ ELSE FitTo(@, n),
          !.pages = [g \in Pages |->
                       IF g * PageSz >= n \/ @[g] = Nothing THEN Nothing
                       ELSE [k \in 1 .. PageSz |-> IF g * PageSz + k <= n THEN @[g][k] ELSE 0]],
          !.dirty = {k \in @ : k < n}]
        grown == [e EXCEPT !.dense = IF @ = Nothing THEN @ ELSE FitTo(@, n),
                           !.dirty = @ \cup (e.size .. n - 1)]
        sized == IF n < e.size THEN cut ELSE IF n > e.size THEN grown ELSE e
    IN NoteWrite([sized EXCEPT !.size = n, !.sized = TRUE])

----------------------------------------------------------------------------
(* Write-back of one entry.                                                *)

RunEnd(S, a) == Min({k \in a .. MaxLen : k \notin S})

(* take_writeback_snapshot: a whole-file mark becomes a range, the first   *)
(* range is taken up to one cluster, and its bytes are copied.             *)
Marked(e) == IF e.full THEN [e EXCEPT !.dirty = 0 .. e.size - 1, !.full = FALSE] ELSE e
Snapshot(e, d) ==
    LET lo == IF e.dirty = {} THEN 0 ELSE Min(e.dirty)
        hi == IF e.dirty = {} THEN 0 ELSE Min({RunEnd(e.dirty, lo), lo + Cluster})
    IN [lo |-> lo, bytes |-> SubSeq(EntryBytes(e, d), lo + 1, hi), len |-> e.size,
        trunc |-> e.trunc, commit |-> e.dirty = lo .. hi - 1, seq |-> e.seq]

(* apply_writeback_snapshot. *)
Applied(d, s) ==
    LET to == IF s.trunc = Nothing THEN s.len ELSE Min({s.trunc, s.len})
        cut == IF to < Len(d) THEN FitTo(d, to) ELSE d
        put == IF s.bytes = <<>> THEN cut ELSE Over(cut, s.lo, s.bytes)
    IN IF s.commit /\ s.len > Len(put) THEN FitTo(put, s.len) ELSE put

FinishEntry_IgnoresSeq(e, s) ==
    LET rest == e.dirty \ (s.lo .. s.lo + Len(s.bytes) - 1)
        done == [e EXCEPT !.dirty = rest, !.full = FALSE, !.sized = @ /\ ~s.commit, !.err = FALSE]
    IN [done EXCEPT !.trunc = IF @ = s.trunc THEN Nothing ELSE @,
                    !.wb = IF DataDirty(done) THEN "Dirty" ELSE "Clean",
                    !.stored = Min({@, s.len})]

(* finish_writeback_snapshot after a successful write: the range is clean  *)
(* only if nothing was written since the copy.                             *)
FinishEntry(e, s) ==
    LET same == e.seq = s.seq
        rest == e.dirty \ (s.lo .. s.lo + Len(s.bytes) - 1)
        done == IF same THEN [e EXCEPT !.dirty = rest, !.full = FALSE, !.sized = @ /\ ~s.commit,
                                       !.err = FALSE]
                ELSE e
    IN [done EXCEPT !.trunc = IF same /\ @ = s.trunc THEN Nothing ELSE @,
                    !.wb = IF ~same \/ DataDirty(done) THEN "Dirty" ELSE "Clean",
                    !.stored = IF DataDirty(done) THEN Min({@, s.len}) ELSE s.len]
FailEntry(e) == [e EXCEPT !.err = TRUE, !.wb = IF DataDirty(e) THEN "Dirty" ELSE "Clean"]

----------------------------------------------------------------------------
(* The calls.                                                              *)

DataGoto(t, r) == dt' = [dt EXCEPT ![t] = r]
Mine(t, pc) == dt[t].pc = pc
NoPages == [g \in Pages |-> Nothing]
Opened(i) == opens[i] > 0

(* discard_regular_cache. *)
Discard(i) == /\ rc' = [rc EXCEPT ![i] = Nothing]
              /\ cpc' = [cpc EXCEPT ![i] = NoPages]
              /\ img' = [img EXCEPT ![i] = Nothing]

(* ext4_write_at through a descriptor: ensure_regular_cache reads the disk *)
(* and publishes an entry, then the entry is written.                      *)
WriteCall(t, i, off, b) ==
    /\ Mine(t, "idle") /\ Opened(i) /\ off + Len(b) <= MaxLen
    /\ DataGoto(t, [DIdle EXCEPT !.call = "write", !.ino = i, !.off = off, !.bytes = b,
                  !.pc = IF rc[i] # Nothing THEN "put" ELSE "load",
                  !.snap = IF rc[i] # Nothing THEN Nothing ELSE blk[i].bytes])
    /\ UNCHANGED <<blk, rc, cpc, img, opens, later, truth>>

WriteLoad(t) ==
    LET i == dt[t].ino   b == dt[t].snap
    IN /\ Mine(t, "load")
       /\ rc' = IF rc[i] # Nothing THEN rc
                ELSE [rc EXCEPT ![i] = NewEntry(Len(b), IF Len(b) <= DenseLimit THEN b ELSE Nothing)]
       /\ DataGoto(t, [dt[t] EXCEPT !.pc = "put", !.snap = Nothing])
       /\ UNCHANGED <<blk, cpc, img, opens, later, truth>>

WritePut(t) ==
    LET i == dt[t].ino   off == dt[t].off   b == dt[t].bytes
    IN /\ Mine(t, "put") /\ DataGoto(t, DIdle)
       /\ img' = [img EXCEPT ![i] = Nothing]
       /\ cpc' = [cpc EXCEPT ![i] = [g \in Pages |-> IF g * PageSz < off + Len(b)
                                                        /\ (g + 1) * PageSz > off
                                                     THEN Nothing ELSE @[g]]]
       /\ IF rc[i] = Nothing THEN UNCHANGED <<rc, truth>>
          ELSE /\ rc' = [rc EXCEPT ![i] = WriteEntry(@, blk[i].bytes, off, b)]
               /\ truth' = [truth EXCEPT ![i] = Over(@, off, b)]
       /\ UNCHANGED <<blk, opens, later>>

(* truncate_regular_ino: the entry when there is one, else the disk.       *)
TruncCall(t, i, n) ==
    /\ Mine(t, "idle") /\ (blk[i].linked \/ Opened(i))
    /\ cpc' = [cpc EXCEPT ![i] = NoPages]
    /\ IF rc[i] # Nothing
         THEN /\ rc' = [rc EXCEPT ![i] = ResizeEntry(@, n)]
              /\ img' = [img EXCEPT ![i] = Nothing]
              /\ truth' = [truth EXCEPT ![i] = FitTo(@, n)]
              /\ UNCHANGED dt
         ELSE /\ DataGoto(t, [DIdle EXCEPT !.pc = "trunc", !.call = "trunc", !.ino = i, !.len = n])
              /\ UNCHANGED <<rc, img, truth>>
    /\ UNCHANGED <<blk, opens, later>>

TruncDisk(t) ==
    LET i == dt[t].ino   n == dt[t].len
        empty == n = 0 /\ Len(blk[i].bytes) > 0
    IN /\ Mine(t, "trunc") /\ DataGoto(t, DIdle)
       /\ blk' = [blk EXCEPT ![i].bytes = FitTo(@, n)]
       /\ rc' = IF empty THEN [rc EXCEPT ![i] = [NewEntry(0, <<>>) EXCEPT !.full = TRUE,
                                  !.sized = TRUE, !.wb = "Dirty", !.seq = 1]]
                ELSE rc
       /\ img' = IF empty THEN [img EXCEPT ![i] = Nothing] ELSE img
       /\ truth' = [truth EXCEPT ![i] = FitTo(@, n)]
       /\ UNCHANGED <<cpc, opens, later>>

(* ext4_read_at of an uncached file, and a mapping's page fault: the clean *)
(* page is read from the disk, then published unless it is there by now.   *)
PageOf(d, g) == [k \in 1 .. PageSz |-> IF g * PageSz + k <= Len(d) THEN d[g * PageSz + k] ELSE 0]

DataRead(t, i, g) ==
    /\ Mine(t, "idle") /\ Opened(i) /\ rc[i] = Nothing
    /\ g * PageSz < Len(blk[i].bytes) /\ cpc[i][g] = Nothing
    /\ DataGoto(t, [DIdle EXCEPT !.pc = "fill", !.call = "read", !.ino = i, !.page = g,
                             !.snap = PageOf(blk[i].bytes, g)])
    /\ UNCHANGED <<blk, rc, cpc, img, opens, later, truth>>

ReadFill(t) ==
    /\ Mine(t, "fill") /\ DataGoto(t, DIdle)
    /\ cpc' = [cpc EXCEPT ![dt[t].ino][dt[t].page] = IF @ = Nothing THEN dt[t].snap ELSE @]
    /\ UNCHANGED <<blk, rc, img, opens, later, truth>>

(* slurp_regular_file_shared: an image that is not cached is copied from   *)
(* the entry or from the disk, then published.                             *)
ExecCall(t, i) ==
    /\ Mine(t, "idle") /\ blk[i].linked /\ img[i] = Nothing
    /\ DataGoto(t, [DIdle EXCEPT !.pc = "image", !.call = "exec", !.ino = i,
                  !.snap = IF rc[i] # Nothing THEN EntryBytes(rc[i], blk[i].bytes) ELSE blk[i].bytes])
    /\ UNCHANGED <<blk, rc, cpc, img, opens, later, truth>>

ExecPublish(t) ==
    /\ Mine(t, "image") /\ DataGoto(t, DIdle)
    /\ img' = [img EXCEPT ![dt[t].ino] = dt[t].snap]
    /\ UNCHANGED <<blk, rc, cpc, opens, later, truth>>

----------------------------------------------------------------------------
(* fsync (flush_cached_ino) and sync (flush_all_cached).                   *)

FsyncCall(t, i) ==
    /\ Mine(t, "idle") /\ Opened(i)
    /\ DataGoto(t, [DIdle EXCEPT !.pc = "flush", !.call = "fsync", !.ino = i])
    /\ UNCHANGED <<blk, rc, cpc, img, opens, later, truth>>

SyncCall(t) ==
    /\ Mine(t, "idle")
    /\ \E i \in DInos :
         /\ IsDirty(i) /\ \A j \in DInos : IsDirty(j) => i <= j
         /\ DataGoto(t, [DIdle EXCEPT !.pc = "flush", !.call = "sync", !.ino = i,
                       !.todo = {j \in DInos : IsDirty(j)} \ {i}])
    /\ UNCHANGED <<blk, rc, cpc, img, opens, later, truth>>

(* The call goes on with the next inode of sync, or returns; sync drops    *)
(* every clean page on its way out.                                        *)
FlushedOne(t) ==
    IF dt[t].todo # {}
    THEN /\ DataGoto(t, [dt[t] EXCEPT !.pc = "flush", !.ino = Min(dt[t].todo),
                                  !.todo = @ \ {Min(dt[t].todo)}, !.snap = Nothing, !.ok = TRUE])
         /\ UNCHANGED cpc
    ELSE /\ DataGoto(t, DIdle)
         /\ cpc' = IF dt[t].call = "sync" THEN [i \in DInos |-> NoPages] ELSE cpc

FlushDone(t) ==
    /\ Mine(t, "flush") /\ ~IsDirty(dt[t].ino) /\ FlushedOne(t)
    /\ UNCHANGED <<blk, rc, img, opens, later, truth>>

(* acknowledge_writeback_error: an old error is cleared and the loop goes on. *)
FlushAck(t) ==
    LET i == dt[t].ino
    IN /\ Mine(t, "flush") /\ IsDirty(i) /\ rc[i].err
       /\ rc' = [rc EXCEPT ![i].err = FALSE]
       /\ UNCHANGED <<blk, cpc, img, opens, later, dt, truth>>

(* Another write-back is under way: wait_for_writeback_progress yields and *)
(* looks again, or fails with EBUSY under the foreground driver.           *)
FlushBusy(t) ==
    LET i == dt[t].ino
    IN /\ Mine(t, "flush") /\ IsDirty(i) /\ ~rc[i].err /\ Active(rc[i])
       /\ FlushedOne(t)
       /\ UNCHANGED <<blk, rc, img, opens, later, truth>>

FlushTake(t) ==
    LET i == dt[t].ino   e == Marked(rc[i])
    IN /\ Mine(t, "flush") /\ IsDirty(i) /\ ~rc[i].err /\ ~Active(rc[i])
       /\ rc' = [rc EXCEPT ![i] = [e EXCEPT !.wb = "Writeback"]]
       /\ DataGoto(t, [dt[t] EXCEPT !.pc = "apply", !.snap = Snapshot(e, blk[i].bytes)])
       /\ UNCHANGED <<blk, cpc, img, opens, later, truth>>

(* An I/O error may leave the disk as it was, truncated, or written in part. *)
FlushApply(t) ==
    LET i == dt[t].ino   s == dt[t].snap   d == blk[i].bytes
        to == IF s.trunc = Nothing THEN s.len ELSE Min({s.trunc, s.len})
        cut == IF to < Len(d) THEN FitTo(d, to) ELSE d
    IN /\ Mine(t, "apply")
       /\ \/ /\ blk' = [blk EXCEPT ![i].bytes = Applied(d, s)]
             /\ DataGoto(t, [dt[t] EXCEPT !.pc = "finish"])
          \/ /\ \E bad \in {d, cut, IF s.bytes = <<>> THEN cut ELSE Over(cut, s.lo, <<s.bytes[1]>>)} :
                  blk' = [blk EXCEPT ![i].bytes = bad]
             /\ DataGoto(t, [dt[t] EXCEPT !.pc = "finish", !.ok = FALSE])
       /\ UNCHANGED <<rc, cpc, img, opens, later, truth>>

FlushFinish(t) ==
    LET i == dt[t].ino
    IN /\ Mine(t, "finish")
       /\ rc' = IF rc[i] = Nothing THEN rc
                ELSE [rc EXCEPT ![i] = IF dt[t].ok THEN FinishEntry(@, dt[t].snap) ELSE FailEntry(@)]
       /\ IF dt[t].ok THEN /\ DataGoto(t, [dt[t] EXCEPT !.pc = "flush", !.snap = Nothing])
                           /\ UNCHANGED cpc
          ELSE FlushedOne(t)
       /\ UNCHANGED <<blk, img, opens, later, truth>>

----------------------------------------------------------------------------
(* Opening, closing, creating and removing.                                *)

NsBusy == \E u \in DThreads : Mine(u, "unlink")
Free(i) == blk' = [blk EXCEPT ![i] = [bytes |-> <<>>, used |-> FALSE, linked |-> FALSE]]

OpenCall(t, i) ==
    /\ Mine(t, "idle") /\ blk[i].linked /\ opens[i] < MaxOpens
    /\ opens' = [opens EXCEPT ![i] = @ + 1]
    /\ UNCHANGED <<blk, rc, cpc, img, later, dt, truth>>

(* close_regular_ino: the last reference finishes a delayed unlink, leaves *)
(* a dirty entry to a later flush, and drops a clean one.                  *)
DataClose(t, i) ==
    /\ Mine(t, "idle") /\ Opened(i)
    /\ opens' = [opens EXCEPT ![i] = @ - 1]
    /\ later' = IF opens[i] = 1 THEN later \ {i} ELSE later
    /\ IF opens[i] = 1 /\ (i \in later \/ (rc[i] # Nothing /\ ~IsDirty(i)))
         THEN DataGoto(t, [DIdle EXCEPT !.call = "close", !.ino = i,
                                   !.pc = IF i \in later THEN "reap" ELSE "close"])
         ELSE UNCHANGED dt
    /\ UNCHANGED <<blk, rc, cpc, img, truth>>

CloseReap(t) ==
    LET i == dt[t].ino
    IN /\ Mine(t, "reap") /\ DataGoto(t, DIdle)
       /\ Discard(i) /\ Free(i)
       /\ truth' = [truth EXCEPT ![i] = <<>>]
       /\ UNCHANGED <<opens, later>>

CloseLook(t) ==
    LET i == dt[t].ino
    IN /\ Mine(t, "close") /\ \A u \in DThreads : ~Mine(u, "drop")
       /\ DataGoto(t, IF Opened(i) \/ rc[i] = Nothing \/ IsDirty(i) THEN DIdle
                  ELSE [dt[t] EXCEPT !.pc = "drop"])
       /\ UNCHANGED <<blk, rc, cpc, img, opens, later, truth>>

CloseDrop(t) ==
    LET i == dt[t].ino
    IN /\ Mine(t, "drop") /\ DataGoto(t, DIdle)
       /\ IF Opened(i) THEN UNCHANGED <<rc, cpc, img>> ELSE Discard(i)
       /\ UNCHANGED <<blk, opens, later, truth>>

(* create_regular_ext4_with_mode takes the inode and caches it empty.      *)
CreateCall(t, i) ==
    /\ Mine(t, "idle") /\ ~NsBusy /\ ~blk[i].used
    /\ blk' = [blk EXCEPT ![i] = [bytes |-> <<>>, used |-> TRUE, linked |-> TRUE]]
    /\ rc' = [rc EXCEPT ![i] = NewEntry(0, <<>>)]
    /\ cpc' = [cpc EXCEPT ![i] = NoPages]
    /\ img' = [img EXCEPT ![i] = Nothing]
    /\ truth' = [truth EXCEPT ![i] = <<>>]
    /\ UNCHANGED <<opens, later, dt>>

(* unlink_non_dir_locked of the last link: the decision, then the change   *)
(* of the disk from the inode copy read before it.                         *)
DataUnlink(t, i) ==
    /\ Mine(t, "idle") /\ ~NsBusy /\ blk[i].linked
    /\ IF Opened(i) THEN /\ cpc' = [cpc EXCEPT ![i] = NoPages]
                         /\ UNCHANGED <<rc, img>>
       ELSE Discard(i)
    /\ DataGoto(t, [DIdle EXCEPT !.pc = "unlink", !.call = "unlink", !.ino = i, !.ok = Opened(i),
                             !.len = Len(blk[i].bytes)])
    /\ UNCHANGED <<blk, opens, later, truth>>

DataUnlinkCommit(t) ==
    LET i == dt[t].ino
    IN /\ Mine(t, "unlink") /\ DataGoto(t, DIdle)
       /\ IF dt[t].ok THEN /\ later' = later \cup {i}
                           /\ blk' = [blk EXCEPT ![i].linked = FALSE,
                                                 ![i].bytes = FitTo(@, dt[t].len)]
                           /\ UNCHANGED truth
          ELSE /\ Free(i) /\ UNCHANGED later
               /\ truth' = [truth EXCEPT ![i] = <<>>]
       /\ UNCHANGED <<rc, cpc, img, opens>>

DataStep(t) ==
    \/ WriteLoad(t) \/ WritePut(t) \/ TruncDisk(t) \/ ReadFill(t) \/ ExecPublish(t)
    \/ FlushDone(t) \/ FlushAck(t) \/ FlushBusy(t) \/ FlushTake(t) \/ FlushApply(t)
    \/ FlushFinish(t) \/ CloseReap(t) \/ CloseLook(t) \/ CloseDrop(t) \/ DataUnlinkCommit(t)

----------------------------------------------------------------------------
(* Properties.                                                             *)

Going(i) == \E t \in DThreads : dt[t].ino = i /\ dt[t].pc \in {"unlink", "reap"}

(* Types, and the shape of a cache entry: a dense image has the file's     *)
(* length, a dirty offset lies in the file, and what the entry believes    *)
(* the disk holds is no more than the file or the disk.                    *)
DataTypeOK ==
    /\ \A i \in DInos :
         /\ opens[i] \in 0 .. MaxOpens
         /\ blk[i].linked => blk[i].used
         /\ rc[i] # Nothing =>
              /\ rc[i].dense # Nothing => Len(rc[i].dense) = rc[i].size
              /\ \A k \in rc[i].dirty : k < rc[i].size
              /\ rc[i].stored <= rc[i].size
              /\ rc[i].dense = Nothing => rc[i].stored <= Len(blk[i].bytes)
              /\ rc[i].wb \in {"Clean", "Dirty", "Writeback", "DirtyDuringWriteback"}
    /\ later \subseteq {i \in DInos : blk[i].used /\ ~blk[i].linked}

(* What a read returns is what the completed writes and truncations add up *)
(* to, wherever it is served from: the entry, sparse or dense, the clean   *)
(* pages or the disk (ext4_read_at).                                       *)
ReadsExact ==
    \A i \in DInos : blk[i].used /\ ~Going(i) =>
      IF rc[i] # Nothing THEN EntryBytes(rc[i], blk[i].bytes) = truth[i]
      ELSE /\ blk[i].bytes = truth[i]
           /\ \A g \in Pages : cpc[i][g] # Nothing => cpc[i][g] = PageOf(truth[i], g)

(* An entry that says it is clean is on the disk: fsync returns only when  *)
(* the disk holds every byte and the size, whatever was written or         *)
(* truncated while a range was being written back (flush_cached_ino).      *)
CleanIsDurable ==
    \A i \in DInos : rc[i] # Nothing /\ ~DataDirty(rc[i]) /\ ~Active(rc[i]) =>
      blk[i].bytes = EntryBytes(rc[i], blk[i].bytes)

(* A write-back that is marked under way has a thread that will end it;    *)
(* otherwise every later fsync of the file would wait for it for ever.     *)
WritebackOwned ==
    \A i \in DInos : rc[i] # Nothing /\ Active(rc[i]) =>
      \E t \in DThreads : dt[t].ino = i /\ dt[t].pc \in {"apply", "finish"}

(* A freed inode has nothing cached under its number, so that the next     *)
(* file that gets the number starts empty (finish_unlinked_regular).       *)
FreedIsForgotten ==
    \A i \in DInos : ~blk[i].used =>
      rc[i] = Nothing /\ img[i] = Nothing /\ cpc[i] = NoPages

(* Together: what is clean is on the disk, what is being written back will *)
(* be finished, and what is freed is forgotten.                            *)
DataSafe == DataTypeOK /\ CleanIsDurable /\ WritebackOwned /\ FreedIsForgotten

=============================================================================
