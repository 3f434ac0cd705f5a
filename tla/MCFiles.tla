------------------------------- MODULE MCFiles -------------------------------
(***************************************************************************)
(* What files hold: the data of ext4 files (Ext4Data) and of memory files  *)
(* (MemFiles), locks on files (FileLocks), files mapped into address       *)
(* spaces, with the rest of their memory (MemorySet), and the block device *)
(* below (BlockDev).  A behaviour                                          *)
(* exercises one family of calls, `fam', with `left' calls still to make;  *)
(* the components the family does not touch keep their initial state.  The *)
(* family "bytes" makes any number of calls.                               *)
(***************************************************************************)
EXTENDS Ext4Data, FileLocks, MemFiles, MemorySet, BlockDev, TLC

CONSTANTS t1, t2, u, sp1, sp2, o1, o2, d1, d2

VARIABLES fam, left

OfData == {"flush", "life", "image"}
OfLocks == {"fcntl", "posix", "flock"}
OfSpaces == {"cow", "prot", "late", "file", "sfile", "shm", "race", "brk"}
OfBlocks == {"blocks", "sectors", "faults", "loops"}
Families ==
    [flush |-> 3, life |-> 4, image |-> 4, fcntl |-> 3, posix |-> 5, flock |-> 4, bytes |-> 0,
     cow |-> 5, prot |-> 4, late |-> 4, file |-> 5, sfile |-> 5, shm |-> 5, race |-> 3, brk |-> 4,
     blocks |-> 3, sectors |-> 2, faults |-> 3, loops |-> 6]

-----------------------------------------------------------------------------
(* The data of one ext4 file of one or three bytes, opened twice.          *)

FileInit ==
    /\ \E b \in {<<1>>, <<1, 1, 1>>} :
          /\ fam \notin OfData => b = <<1>>
          /\ blk = [i \in DInos |-> [bytes |-> b, used |-> TRUE, linked |-> TRUE]]
          /\ truth = [i \in DInos |-> b]
          /\ rc = [i \in DInos |-> IF fam # "flush" THEN Nothing
                                   ELSE NewEntry(Len(b), IF Len(b) <= DenseLimit THEN b ELSE Nothing)]
    /\ cpc = [i \in DInos |-> NoPages]
    /\ img = [i \in DInos |-> Nothing]
    /\ opens = [i \in DInos |-> 2]
    /\ later = {}
    /\ dt = [t \in DThreads |-> DIdle]

Writes(t, i) == \E n \in 1 .. 2, off \in 0 .. MaxLen - 1 : WriteCall(t, i, off, [k \in 1 .. n |-> 2])
Truncates(t, i) == \E n \in 0 .. MaxLen : TruncCall(t, i, n)

\* Two threads race in the family "flush".
DataCall(t) ==
    /\ fam # "flush" => t = t1 /\ \A r \in DThreads : dt[r].pc = "idle"
    /\ \E i \in DInos :
          \/ fam \in {"flush", "life"} /\ (Writes(t, i) \/ Truncates(t, i) \/ FsyncCall(t, i) \/ SyncCall(t))
          \/ fam \in {"life", "image"} /\ (OpenCall(t, i) \/ DataClose(t, i))
          \/ fam = "life" /\ (CreateCall(t, i) \/ DataUnlink(t, i) \/ \E g \in Pages : DataRead(t, i, g))
          \/ fam = "image" /\ (ExecCall(t, i) \/ WriteCall(t, i, 0, <<2>>))

-----------------------------------------------------------------------------
(* Locks: two threads of one process, one of another, two open file        *)
(* descriptions of one file.                                               *)

MCProcOf == t1 :> sp1 @@ t2 :> sp1 @@ u :> sp2
MCFileOf == o1 :> 1 @@ o2 :> 1
MCOpenAt == o1 :> sp1 @@ o2 :> sp2

Fl(t, w, s, n, o, b) ==
    [type |-> t, whence |-> w, start |-> s, len |-> n, ofd |-> o, wait |-> b]
MCFlocks == {Fl("R", 0, 0, 1, FALSE, TRUE), Fl("W", 0, 0, 0, FALSE, TRUE),
             Fl("W", 1, 1, -1, TRUE, TRUE), Fl("R", 0, 1, 1, FALSE, FALSE),
             Fl("U", 2, 0, -1, FALSE, FALSE)}
MCFileOps == [kind : {"R", "W"}, wait : BOOLEAN] \cup {[kind |-> "U", wait |-> FALSE]}

LocksInit ==
    /\ LockInit
    /\ fam = "posix" => cpus = 1
    /\ fam \notin OfLocks => cpus = 1 /\ ~parks

LocksCall(t) ==
    \E o \in Ofds :
        \/ /\ fam \in {"fcntl", "flock"}
           /\ DupFd(t, o) \/ CloseFd(t, o) \/ \E k \in Procs : ForkTable(t, k)
        \/ fam = "flock" /\ \E k \in FileOps : Flock(t, o, k)
        \/ fam = "fcntl" /\ \E fl \in Flocks : Fcntl(t, o, fl)
        \/ fam = "posix" /\ \E fl \in {g \in Flocks : ~g.ofd} : Fcntl(t, o, fl)

-----------------------------------------------------------------------------
(* A memory file with two descriptors, one of them appending; a writev()   *)
(* of two buffers that another descriptor may write or truncate under.     *)

MCBufs == {<<1>>, <<0, 1, 1>>}
Vectors == {<<>>, <<1>>, <<0, 1>>, <<1, 0, 1>>}

BytesNext ==
    \/ wv.pc = "idle" /\ MemOp /\ UNCHANGED wv
    \/ wv.pc # "idle" /\ (MemWrite(d2, <<1>>) \/ MemTruncate(1)) /\ UNCHANGED wv
    \/ /\ content.kind = "inline" /\ moff[d1] = 0
       /\ \E v, w \in Vectors, bad \in 0 .. 2 : WritevCall(d1, <<v, w>>, bad)
    \/ WritevChunk
    \/ WritevReturn

-----------------------------------------------------------------------------
(* Address spaces: two threads share the space sp1; u runs in sp2, which   *)
(* begins as a fork of sp1.                                                *)

MCSpaceOf == t1 :> sp1 @@ t2 :> sp1 @@ u :> sp2

M(kind, perm, n) == [kind |-> kind, perm |-> perm, n |-> n, off |-> 0, at |-> 0,
                     fixed |-> FALSE, noreplace |-> FALSE, populate |-> FALSE]
Fixed(m, a) == [m EXCEPT !.fixed = TRUE, !.at = a]
FixedNoReplace(m, a) == [m EXCEPT !.noreplace = TRUE, !.at = a]
Populate(m) == [m EXCEPT !.populate = TRUE]

Maps ==
    [cow |-> {M("ashared", "w", 1)},
     prot |-> {M("anon", "w", 3), M("anon", "n", 2), Fixed(M("anon", "r", 1), 1)},
     file |-> {M("pfile", "r", 2), Populate(M("pfile", "w", 2))},
     sfile |-> {Fixed(M("sfile", "w", 2), 0), Fixed([M("sfile", "w", 1) EXCEPT !.off = 1], 1),
                Fixed(M("anon", "w", 1), 0)},
     late |-> {M("pfile", "n", 2)},
     shm |-> {M("anon", "w", 1)},
     race |-> {M("anon", "w", 1), M("anon", "w", 2), FixedNoReplace(M("anon", "r", 1), 1),
               Fixed(M("anon", "w", 1), 1)},
     brk |-> {}]

Ranges == {<<0, 1>>, <<0, 2>>, <<1, 2>>}
Callers == IF fam = "race" THEN MmThreads ELSE {t1, u}

SpacesCall(t) ==
    \/ \E m \in Maps[fam] : MmapCall(t, m)
    \/ /\ fam \in {"cow", "prot", "file", "sfile", "race"}
       /\ \E r \in Ranges : MunmapCall(t, r[1], r[2])
    \/ fam = "sfile" /\ \E b \in BOOLEAN : Msync(t, 0, 2, b)
    \/ fam = "late" /\ \E r \in Ranges : Mprotect(t, r[1], r[2], "w")
    \/ fam = "prot" /\ \E r \in Ranges, pm \in {"n", "r", "w"} : Mprotect(t, r[1], r[2], pm)
    \/ fam \in {"cow", "prot"} /\ \E r \in Ranges : MadviseDontneed(t, r[1], r[2])
    \/ fam \in {"cow", "file", "shm"} /\ (Fork(t, sp2) \/ ForkFails(t))
    \/ fam \in {"cow", "shm", "brk"} /\ (ExitSpace(t) \/ Exec(t))
    \/ fam = "brk" /\ \E n \in HeapStart .. HeapTop : BrkCall(t, n)
    \/ fam = "shm" /\ (\/ Shmget(t) \/ ShmctlRmid(t)
                       \/ \E a \in {0, 1} : ShmatCall(t, a) \/ ShmdtCall(t, a))
    \/ /\ fam # "shm"
       /\ \E v \in 0 .. 1, x \in 1 .. 2 : (fam = "sfile" => x \in {v + 1, 2}) /\ Store(t, v, x)
    \/ fam \in {"cow", "file"} /\ \E v \in 0 .. 1 : CopyToUser(t, v, 1)
    \/ fam # "shm" /\ \E v \in 0 .. 2, b \in BOOLEAN : Fault(t, v, b)

\* The cow family starts with two pages of private memory, both in use.
Boot(f) ==
    IF f # "cow" THEN [EmptySet EXCEPT !.live = TRUE]
    ELSE [EmptySet EXCEPT !.live = TRUE, !.areas = {NewArea(0, 2, "w", "anon", 0, 0)},
             !.res = [v \in VPages |-> IF v < 2 THEN [f |-> v + 1, st |-> "Private"] ELSE Nil],
             !.pte = [v \in VPages |-> IF v < 2 THEN [f |-> v + 1, w |-> TRUE] ELSE Nil]]

SpacesInit ==
    /\ ms = [x \in Spaces |-> IF x = sp1 THEN Boot(fam) ELSE EmptySet]
    /\ dat = [f \in MmFrames |-> 0]
    /\ fileb = [o \in FPages |-> o + 1]
    /\ pcache = [o \in FPages |-> Nil]
    /\ shm = Nil
    /\ mc = [t \in MmThreads |-> MmIdle]
    /\ wants = [x \in Spaces |->
                   [v \in VPages |-> IF x = sp1 /\ AreaAt(Boot(fam), v) # {} THEN 0 ELSE Nil]]
    /\ stored = [o \in FPages |-> Nil]

-----------------------------------------------------------------------------
(* A disk of seven sectors, with ext4 on all of it, in the last entry of a *)
(* table that also has an empty and a foreign one, behind a protective     *)
(* entry, or nowhere.                                                      *)

E(kind, first, last, ext4) ==
    [kind |-> kind, first |-> first, last |-> last, ext4 |-> ext4, index |-> 0]
Bare == [ext4 |-> TRUE, mbr |-> <<>>, gpt |-> <<>>]
Layouts ==
    {Bare,
     [ext4 |-> FALSE, gpt |-> <<>>,
      mbr |-> <<E("data", 1, 0, FALSE), E("data", 2, 3, FALSE), E("data", 1, 5, TRUE)>>],
     [ext4 |-> FALSE, gpt |-> <<E("none", 0, 0, FALSE), E("data", 3, 6, TRUE)>>,
      mbr |-> <<E("gpt", 1, 6, FALSE)>>],
     [ext4 |-> FALSE, gpt |-> <<>>, mbr |-> <<E("gpt", 1, 6, FALSE)>>]}

DeviceInit == \E l \in Layouts : (fam \notin OfBlocks \/ fam = "loops" => l = Bare) /\ BlockDevInit(l)

Pattern(v, n) == [i \in 1 .. n |-> v * 20 + i]

BlocksCall(t) ==
    \/ /\ fam = "blocks"
       /\ \/ \E o \in {0, 2, 4, 8} : ReadOffset(t, o)
          \/ \E offs \in {<<0, 4>>, <<8, 0>>, <<4>>} : ReadBlocks(t, offs)
          \/ \E o \in {0, 2} : RangeWrite(t, o, Pattern(1, 4))
    \/ /\ fam = "sectors"
       /\ \/ \E o \in {1, 2, 3}, n \in {1, 2} : RangeWrite(t, o, Pattern(n, n))
          \/ RangeRead(t, 1, 4) \/ ReadOffset(t, 0)
    \/ /\ fam = "faults"
       /\ \/ RangeWrite(t, 2, Pattern(1, 4)) \/ RangeRead(t, 8, 4)
          \/ ReadOffset(t, 0) \/ ReadBlocks(t, <<0, 8, 4>>)
          \/ BlockDevFault(t)

LoopsCall ==
    \E f \in LoopFiles :
        \/ OpenBacking(f) \/ CloseBacking(f) \/ UnlinkBacking(f)
        \/ \E i \in DOMAIN loops : AttachLoop(i, f) \/ DetachLoop(i)

-----------------------------------------------------------------------------

FilesInit ==
    /\ fam \in DOMAIN Families /\ left = Families[fam]
    /\ FileInit /\ LocksInit /\ MemInit /\ SpacesInit /\ DeviceInit

OneCall == left > 0 /\ left' = left - 1

FilesNext ==
    /\ fam' = fam
    /\ \/ /\ fam \in OfData
          /\ \E t \in DThreads : \/ DataStep(t) /\ UNCHANGED left
                                 \/ OneCall /\ DataCall(t)
          /\ UNCHANGED <<lockVars, memVars, spaceVars, bdVars>>
       \/ /\ fam \in OfLocks
          /\ \E t \in Threads : \/ LockStep(t) /\ UNCHANGED left
                                \/ OneCall /\ LocksCall(t)
          /\ UNCHANGED <<dataVars, memVars, spaceVars, bdVars>>
       \/ /\ fam = "bytes" /\ BytesNext
          /\ UNCHANGED <<dataVars, lockVars, spaceVars, bdVars, left>>
       \/ /\ fam \in OfSpaces
          /\ \/ \E t \in MmThreads : MmStep(t) /\ UNCHANGED left
             \/ OneCall /\ \E t \in Callers : SpacesCall(t)
             \/ fam = "file" /\ OneCall /\ \E o \in FPages : EvictClean(o)
          /\ UNCHANGED <<dataVars, lockVars, memVars, bdVars>>
       \/ /\ fam \in OfBlocks
          /\ \/ \E t \in BdTasks : BlockDevStep(t) /\ UNCHANGED left
             \/ fam # "loops" /\ OneCall /\ \E t \in BdTasks : BlocksCall(t)
             \/ fam = "loops" /\ OneCall /\ LoopsCall
          /\ UNCHANGED <<dataVars, lockVars, memVars, spaceVars>>

FilesSpec ==
    FilesInit /\ [][FilesNext]_<<dataVars, lockVars, memVars, spaceVars, bdVars, fam, left>>

=============================================================================
