----------------------------- MODULE MemorySet -----------------------------
(* User address spaces: the VMA list, the resident pages, the leaves of the   *)
(* page table and who owns the frames behind them (os/src/mm/memory_set.rs,   *)
(* os/src/mm/map_area.rs), with the system calls that edit them               *)
(* (os/src/syscall/mm.rs): mmap, munmap, mprotect, madvise, msync, brk, fork, *)
(* exit and System V shared memory.                                           *)
(*                                                                            *)
(* Every operation of a MemorySet runs under the lock of that set and is one  *)
(* step here; a system call that drops the lock between two parts of its      *)
(* work takes one step per part.  Addresses are page numbers, a page holds    *)
(* one value, and there are one file (of FileLen pages) and one shared        *)
(* memory segment.  Permissions are "n" (PROT_NONE), "r" and "w" (read and    *)
(* write); execute permission is left out.  The allocator hands out the       *)
(* lowest free frame: which frame it is makes no difference to the others.    *)
EXTENDS Integers, Sequences, FiniteSets, FiniteSetsExt

CONSTANTS Spaces,    \* address spaces
          MmThreads, \* threads
          SpaceOf,   \* the address space of each thread
          VEnd,      \* user pages are 0..VEnd-1
          HeapStart, \* where brk starts
          HeapTop,   \* what brk may not pass
          MmFrames,  \* physical frames
          Values,    \* what a page may hold, 0 included
          FileLen,   \* pages of the file
          Window,    \* ANONYMOUS_FAULT_WINDOW_PAGES, CLEAN_FILE_FAULT_WINDOW_PAGES
          ShmLen,    \* pages of a shared memory segment
          Nil        \* no page, no leaf, no frame, no segment

VARIABLES ms,     \* address space -> its MemorySet
          dat,    \* frame -> what it holds
          fileb,  \* page of the file -> what the file holds
          pcache, \* page of the file -> its clean page cache frame
          shm,    \* the System V segment
          mc,     \* thread -> the memory call it is in
          wants,  \* ghost: what a space should read in its private mappings, and
                  \* the frame of each page of its shared anonymous mappings
          stored  \* ghost: the last store through a shared mapping of the file

spaceVars == <<ms, dat, fileb, pcache, shm, mc, wants, stored>>

VPages == 0 .. VEnd - 1
FPages == 0 .. FileLen - 1
Private(a) == a.kind \in {"anon", "pfile"}
IsFile(a) == a.kind \in {"pfile", "sfile"}
HasLeaf(perm) == perm # "n"
Span(a) == a.lo .. a.hi - 1

EmptySet == [live |-> FALSE, areas |-> {}, brk |-> HeapStart,
             res |-> [v \in VPages |-> Nil], pte |-> [v \in VPages |-> Nil]]

MmIdle == [at |-> "idle"]

---------------------------------------------------------------------------
(* The VMA list. *)

(* The list is sorted and its areas are disjoint, so a set of areas and the   *)
(* area at an address say the same as the vector and its binary search.       *)
AreasIn(m, lo, hi) == {a \in m.areas : a.lo < hi /\ lo < a.hi}
AreaAt(m, v) == {a \in m.areas : v \in Span(a)}
RangeOverlaps(m, lo, hi) == lo < hi /\ AreasIn(m, lo, hi) # {}
RangeCovered(m, lo, hi) == \A v \in lo .. hi - 1 : AreaAt(m, v) # {}

(* find_free_area: first fit at or above the hint and below the limit. *)
FindFree(m, hint, n, limit) ==
    LET fits == {s \in hint .. limit - n : ~RangeOverlaps(m, s, s + n)}
    IN  IF fits = {} THEN Nil ELSE Min(fits)

(* An area cut at a page; the offset of the right part moves with it. *)
SplitAt(areas, v) ==
    LET cut == {a \in areas : a.lo < v /\ v < a.hi}
    IN  (areas \ cut)
        \cup {[a EXCEPT !.hi = v] : a \in cut}
        \cup {[a EXCEPT !.lo = v,
                        !.off = IF a.kind \in {"anon", "ashared"} THEN @ ELSE @ + (v - a.lo)]
              : a \in cut}

CanMerge(a, b) ==
    /\ a.hi = b.lo
    /\ a.perm = b.perm /\ a.cow = b.cow /\ a.kind = b.kind /\ a.base = b.base
    /\ a.kind \in {"anon", "ashared"} \/ a.off + (a.hi - a.lo) = b.off

(* Adjacent areas the pair test allows are joined, as long as they last; a    *)
(* join continues only while the left area is one of those in `mayJoin'.      *)
Joined(areas, mayJoin) ==
    LET joins(a, b) == a \in mayJoin /\ CanMerge(a, b)
        heads == {b \in areas : ~\E a \in areas : joins(a, b)}
        tails == {a \in areas : ~\E b \in areas : joins(a, b)}
    IN  {[h EXCEPT !.hi = Min({t.hi : t \in {x \in tails : x.hi >= h.hi}})] : h \in heads}

Coalesce(areas) == Joined(areas, areas)
CoalesceChanged(areas, lo, hi) == Joined(areas, {a \in areas : a.hi >= lo /\ a.lo < hi})

---------------------------------------------------------------------------
(* Frames.  A frame is owned by the resident pages, the clean page cache and  *)
(* the segments that hold a FrameTracker for it.                              *)

MappedAt(all, f) == {<<p, v>> \in Spaces \X VPages : all[p].res[v] # Nil /\ all[p].res[v].f = f}
RefCount(all, f) == Cardinality(MappedAt(all, f)) + Cardinality({o \in FPages : pcache[o] = f})
                    + (IF shm # Nil /\ f \in Range(shm.frames) THEN 1 ELSE 0)
FreeIn(all) == {f \in MmFrames : RefCount(all, f) = 0}
FreeFrames == FreeIn(ms)

(* Of the free frames F, the one the allocator hands out for page v of V. *)
Nth(S, v) == Cardinality({u \in S : u <= v})
Got(F, V, v) == CHOOSE f \in F : Nth(F, f) = Nth(V, v)
OneFrame == Min(FreeFrames)

(* The leaf that maps a resident page: only a page in state Cow loses W. *)
LeafFlags(a, st) == a.perm = "w" /\ st # "Cow"
LeafFor(a, pg) == [f |-> pg.f, w |-> LeafFlags(a, pg.st)]

Resident(m, a) == {v \in Span(a) : m.res[v] # Nil}

(* map_area_pages, map_area_page, map_area_page_window on the pages V of a. *)
MapPages(m, a, V) ==
    IF ~HasLeaf(a.perm) THEN m
    ELSE [m EXCEPT !.pte = [v \in VPages |->
              IF v \in V /\ m.res[v] # Nil THEN LeafFor(a, m.res[v]) ELSE m.pte[v]]]

UnmapPages(m, V) == [m EXCEPT !.pte = [v \in VPages |-> IF v \in V THEN Nil ELSE m.pte[v]]]
DropPages(m, V) == [m EXCEPT !.res = [v \in VPages |-> IF v \in V THEN Nil ELSE m.res[v]]]

(* New frames for the pages V, in order, in state st. *)
GiveFrames(m, F, V, st) ==
    [m EXCEPT !.res = [v \in VPages |-> IF v \in V THEN [f |-> Got(F, V, v), st |-> st[v]]
                                        ELSE m.res[v]]]
Filled(F, V, val(_)) ==
    [f \in MmFrames |-> IF \E v \in V : f = Got(F, V, v)
                      THEN val(CHOOSE v \in V : f = Got(F, V, v)) ELSE dat[f]]

(* What a page of an area holds before anything is stored in it. *)
Backing(a, v) ==
    LET o == a.off + (v - a.lo)
    IN  IF IsFile(a) /\ o \in FPages THEN fileb[o] ELSE 0
FileOff(a, v) == a.off + (v - a.lo)

---------------------------------------------------------------------------
(* The operations of a MemorySet. *)

InsertLazy(m, a) == [m EXCEPT !.areas = Coalesce(@ \cup {a})]

(* insert_framed_area_with_backing, and the write_bytes of file data that     *)
(* sys_mmap does after it; a mapping without leaf permission gets no frames.  *)
InsertFramed(m, F, a) ==
    IF ~HasLeaf(a.perm) THEN InsertLazy(m, a)
    ELSE LET data(v) == a.kind = "sfile" /\ FileOff(a, v) \in FPages
             st == [v \in Span(a) |-> IF Private(a) THEN "Private"
                                      ELSE IF data(v) THEN "FileDirty" ELSE "Shared"]
         IN  InsertLazy(MapPages(GiveFrames(m, F, Span(a), st), a, Span(a)), a)

InsertShared(m, a, fs) ==
    LET m1 == [m EXCEPT !.res = [v \in VPages |->
                   IF v \in Span(a) THEN [f |-> fs[v - a.lo + 1], st |-> "Private"] ELSE m.res[v]]]
    IN  InsertLazy(MapPages(m1, a, Span(a)), a)

UnmapRange(m, lo, hi) ==
    LET cut == SplitAt(SplitAt(m.areas, lo), hi)
        gone == {a \in cut : a.lo < hi /\ lo < a.hi}
        V == UNION {Span(a) : a \in gone}
    IN  [DropPages(UnmapPages(m, V), V) EXCEPT !.areas = Coalesce(cut \ gone)]

(* discard_anonymous_range: the leaves and the frames of private anonymous    *)
(* pages go, the areas stay.                                                  *)
DiscardAnonymous(m, lo, hi) ==
    LET V == {v \in lo .. hi - 1 : \E a \in AreaAt(m, v) : a.kind = "anon"}
        L == {v \in V : \E a \in AreaAt(m, v) : HasLeaf(a.perm)}
    IN  DropPages(UnmapPages(m, L), V)

(* The VMA flags after protect_range: a private area that becomes writable    *)
(* and has a shared frame is marked copy-on-write.                            *)
Protected(m, a, perm) ==
    LET R == Resident(m, a)
    IN  [a EXCEPT !.perm = perm,
                  !.cow = /\ Private(a) /\ perm = "w" /\ R # {}
                          /\ a.cow \/ \E v \in R : RefCount(ms, m.res[v].f) > 1]

RECURSIVE ProtectEach(_, _, _)
ProtectEach(m, todo, perm) ==
    IF todo = {} THEN m
    ELSE LET a  == CHOOSE x \in todo : \A y \in todo : x.lo <= y.lo
             b  == Protected(m, a, perm)
             m1 == [m EXCEPT !.areas = (@ \ {a}) \cup {b}]
             m2 == IF HasLeaf(perm) THEN MapPages(m1, b, Resident(m, a))
                   ELSE IF HasLeaf(a.perm) THEN UnmapPages(m1, Resident(m, a)) ELSE m1
         IN  ProtectEach(m2, todo \ {a}, perm)

ProtectRange(m, lo, hi, perm) ==
    IF \A a \in AreasIn(m, lo, hi) : a.perm = perm THEN m
    ELSE LET cut == [m EXCEPT !.areas = SplitAt(SplitAt(@, lo), hi)]
             todo == {a \in AreasIn(cut, lo, hi) : a.perm # perm}
             m1 == ProtectEach(cut, todo, perm)
         IN  [m1 EXCEPT !.areas = CoalesceChanged(@, lo, hi)]

(* invalidate_file_range: the leaves of file pages go, the pages stay. *)
InvalidateFile(m, lo, hi) ==
    LET cut == SplitAt(SplitAt(m.areas, lo), hi)
        V == UNION {Span(a) : a \in {x \in cut : lo <= x.lo /\ x.hi <= hi /\ IsFile(x)}}
    IN  [UnmapPages(m, V) EXCEPT !.areas = Coalesce(cut)]

(* resolve_cow_page: the resident page is always copied, since the code       *)
(* holds a second handle to its frame while it counts the owners.             *)
ResolveCow_InPlace(m, a, v) ==
    IF m.res[v] = Nil THEN MapPages([m EXCEPT !.res[v] = [f |-> OneFrame, st |-> "Private"]], a, {v})
    ELSE MapPages([m EXCEPT !.res[v].st = "Private"], a, {v})
ResolveCow(m, a, v) ==
    MapPages([m EXCEPT !.res[v] = [f |-> OneFrame, st |-> "Private"]], a, {v})
CowData(m, a, v) == IF m.res[v] = Nil THEN Backing(a, v) ELSE dat[m.res[v].f]

(* The pages a demand fault on private anonymous memory fills: forward from   *)
(* the page, or backward if more are missing there.                           *)
Unfilled(m, lo, hi) == \A u \in lo .. hi : m.res[u] = Nil
FaultWindow(m, a, v) ==
    LET fwd == Max({n \in 1 .. Window : v + n <= a.hi /\ Unfilled(m, v, v + n - 1)})
        bwd == IF fwd = Window THEN 1
               ELSE Max({n \in 1 .. Window : v + 1 - n >= a.lo /\ Unfilled(m, v + 1 - n, v)})
    IN  IF bwd > fwd THEN v + 1 - bwd .. v ELSE v .. v + fwd - 1

(* The lowest n pages of a window. *)
Lowest(V, n) == {v \in V : Nth(V, v) <= n}

---------------------------------------------------------------------------
(* A page fault, and the kernel's own accesses to user memory. *)

SetSpace(p, m) == ms' = [ms EXCEPT ![p] = m]

Denied(a, store) == ~HasLeaf(a.perm) \/ (store /\ a.perm # "w")

FaultCow(p, a, v) ==
    /\ FreeFrames # {}
    /\ dat' = [dat EXCEPT ![OneFrame] = CowData(ms[p], a, v)]
    /\ SetSpace(p, ResolveCow(ms[p], a, v))
    /\ UNCHANGED pcache

FaultResident(p, a, v) ==
    /\ SetSpace(p, MapPages(ms[p], a, {v}))
    /\ UNCHANGED <<dat, pcache>>

FaultAnonymous(p, a, v) ==
    /\ FreeFrames # {}
    /\ LET W == FaultWindow(ms[p], a, v)
           V == Lowest(W, Min({Cardinality(W), Cardinality(FreeFrames)}))
       IN  /\ dat' = Filled(FreeFrames, V, LAMBDA u : 0)
           /\ SetSpace(p, MapPages(GiveFrames(ms[p], FreeFrames, V, [u \in V |-> "Private"]), a, V))
    /\ UNCHANGED pcache

(* The clean page cache returns the cached frames of a run of pages, or reads *)
(* them in; it may return fewer pages than it was asked for.                  *)
FaultClean(p, a, v) ==
    \E n \in 1 .. Window :
        LET V == v .. v + n - 1
            new == {u \in V : pcache[FileOff(a, u)] = Nil}
            fr(u) == IF u \in new THEN Got(FreeFrames, new, u) ELSE pcache[FileOff(a, u)]
        IN  /\ v + n <= a.hi /\ Unfilled(ms[p], v, v + n - 1)
            /\ \A u \in V : FileOff(a, u) \in FPages
            /\ Cardinality(new) <= Cardinality(FreeFrames)
            /\ dat' = Filled(FreeFrames, new, LAMBDA u : Backing(a, u))
            /\ pcache' = [o \in FPages |->
                   IF \E u \in new : FileOff(a, u) = o
                   THEN fr(CHOOSE u \in new : FileOff(a, u) = o) ELSE pcache[o]]
            /\ SetSpace(p, MapPages([ms[p] EXCEPT !.res = [u \in VPages |->
                   IF u \in V THEN [f |-> fr(u), st |-> "FileClean"] ELSE @[u]]], a, V))

FaultBacking(p, a, v) ==
    /\ FreeFrames # {}
    /\ dat' = [dat EXCEPT ![OneFrame] = Backing(a, v)]
    /\ LET st == CASE a.kind = "anon" -> "Private" [] a.kind = "pfile" -> "FileClean"
                   [] OTHER -> "Shared"
       IN  SetSpace(p, MapPages([ms[p] EXCEPT !.res[v] = [f |-> OneFrame, st |-> st]], a, {v}))
    /\ UNCHANGED pcache

(* handle_page_fault where it changes anything.  A store to a leaf that is    *)
(* present and read-only in an area that is not copy-on-write returns Ok and  *)
(* changes nothing.                                                           *)
HandleFault(p, a, v, store) ==
    LET m == ms[p] IN
    /\ ~Denied(a, store)
    /\ IF store /\ a.cow THEN FaultCow(p, a, v)
       ELSE /\ m.pte[v] = Nil
            /\ IF m.res[v] # Nil THEN FaultResident(p, a, v)
               ELSE IF a.kind = "anon" /\ ~a.cow THEN FaultAnonymous(p, a, v)
               ELSE IF ~store /\ a.perm # "w" /\ IsFile(a) /\ FileOff(a, v) \in FPages
                    THEN FaultClean(p, a, v)
                    ELSE FaultBacking(p, a, v)

FaultKeeps == UNCHANGED <<fileb, shm, mc, wants, stored>>

(* A user load or store that traps. *)
Fault(t, v, store) ==
    LET p == SpaceOf[t] m == ms[p] IN
    /\ m.live /\ mc[t].at = "idle"
    /\ \E a \in AreaAt(m, v) :
           /\ IF m.pte[v] = Nil THEN TRUE ELSE store /\ ~m.pte[v].w
           /\ HandleFault(p, a, v, store)
    /\ FaultKeeps

(* The effect of a store on what the private mappings should read and on the  *)
(* last store through a shared mapping of the file.                           *)
Note(p, a, v, x) ==
    /\ wants' = IF Private(a) THEN [wants EXCEPT ![p][v] = x] ELSE wants
    /\ stored' = IF a.kind = "sfile" /\ FileOff(a, v) \in FPages
                 THEN [stored EXCEPT ![FileOff(a, v)] = x] ELSE stored

(* A user store through a writable leaf. *)
Store(t, v, x) ==
    LET p == SpaceOf[t] m == ms[p] IN
    /\ m.live /\ mc[t].at = "idle" /\ m.pte[v] # Nil /\ m.pte[v].w
    /\ dat' = [dat EXCEPT ![m.pte[v].f] = x]
    /\ \E a \in AreaAt(m, v) : Note(p, a, v, x)
    /\ UNCHANGED <<ms, fileb, pcache, shm, mc>>

(* copy_to_user: ensure_page_writable, then the bytes go to the frame the     *)
(* page table translates to.  A page that has no leaf is faulted in first, by *)
(* a step Fault of the same thread.                                           *)
CopyToUser(t, v, x) ==
    LET p == SpaceOf[t] m == ms[p] IN
    /\ m.live /\ mc[t].at = "idle"
    /\ \E a \in AreaAt(m, v) :
           /\ ~Denied(a, TRUE)
           /\ IF a.cow
              THEN /\ FreeFrames # {}
                   /\ SetSpace(p, ResolveCow(m, a, v))
                   /\ dat' = [dat EXCEPT ![OneFrame] = x]
              ELSE /\ m.pte[v] # Nil
                   /\ ms' = ms
                   /\ dat' = [dat EXCEPT ![m.pte[v].f] = x]
           /\ Note(p, a, v, x)
    /\ UNCHANGED <<fileb, pcache, shm, mc>>

---------------------------------------------------------------------------
(* fork, exec and exit. *)

(* How fork_cow treats an area. *)
ForkClass(m, a) ==
    IF ~Private(a) THEN "shared"
    ELSE IF Resident(m, a) = {} \/ ~HasLeaf(a.perm) THEN "copy"
    ELSE IF a.perm = "w" THEN "cow" ELSE "readonly"
ForkState(m, a) == CASE ForkClass(m, a) \in {"shared", "readonly"} -> "Shared"
                     [] ForkClass(m, a) = "cow" -> "Cow"
                     [] OTHER -> "Private"

(* The pages of a "copy" area get frames of their own. *)
ForkCopies(m, areas) ==
    UNION {Resident(m, a) : a \in {x \in areas : ForkClass(m, x) = "copy"}}

(* What fork_cow leaves in the parent for the areas it has gone through: the  *)
(* page states, the COW flag, and the leaves of a copy-on-write area unless   *)
(* every page of it was already copy-on-write.                                *)
Remaps(m, a) == ForkClass(m, a) = "cow"
                /\ (~a.cow \/ \E v \in Resident(m, a) : m.res[v].st # "Cow")
ForkParent(m, done) ==
    LET new(a) == [a EXCEPT !.cow = @ \/ ForkClass(m, a) = "cow"]
        mine(v) == {a \in done : v \in Span(a) /\ ForkClass(m, a) # "copy"}
    IN  [m EXCEPT
           !.areas = {IF a \in done THEN new(a) ELSE a : a \in @},
           !.res = [v \in VPages |-> IF m.res[v] = Nil \/ mine(v) = {} THEN m.res[v]
                       ELSE [m.res[v] EXCEPT !.st = ForkState(m, CHOOSE a \in mine(v) : TRUE)]],
           !.pte = [v \in VPages |->
                       IF m.res[v] # Nil /\ \E a \in mine(v) : Remaps(m, a)
                       THEN [f |-> m.res[v].f, w |-> FALSE] ELSE m.pte[v]]]

ForkChild(m) ==
    LET C == ForkCopies(m, m.areas)
        page(v) == LET a == CHOOSE x \in AreaAt(m, v) : TRUE
                   IN  [f |-> IF v \in C THEN Got(FreeFrames, C, v) ELSE m.res[v].f,
                        st |-> ForkState(m, a)]
        res == [v \in VPages |-> IF m.res[v] = Nil THEN Nil ELSE page(v)]
        leaf(v) == LET a == CHOOSE x \in AreaAt(m, v) : TRUE
                   IN  IF HasLeaf(a.perm) THEN LeafFor(a, res[v]) ELSE Nil
    IN  [m EXCEPT !.areas = Coalesce({[a EXCEPT !.cow = @ \/ ForkClass(m, a) = "cow"] : a \in @}),
                  !.res = res,
                  !.pte = [v \in VPages |-> IF res[v] = Nil THEN Nil ELSE leaf(v)]]

Fork(t, q) ==
    LET p == SpaceOf[t]
        m == ms[p]
        C == ForkCopies(m, m.areas)
    IN  /\ m.live /\ ~ms[q].live
        /\ mc[t].at = "idle"
        /\ Cardinality(C) <= Cardinality(FreeFrames)
        /\ ms' = [ms EXCEPT ![p] = ForkParent(m, m.areas), ![q] = ForkChild(m)]
        /\ dat' = Filled(FreeFrames, C, LAMBDA v : dat[m.res[v].f])
        /\ wants' = [wants EXCEPT ![q] = wants[p]]
        /\ mc' = [mc EXCEPT ![t] = [at |-> "inherit", q |-> q]]
        /\ UNCHANGED <<fileb, pcache, shm, stored>>

(* No frame for a copy: the areas before it have already been changed. *)
ForkFails(t) ==
    LET p == SpaceOf[t]
        m == ms[p]
        before(a) == {x \in m.areas : x.lo < a.lo}
    IN  /\ m.live /\ mc[t].at = "idle"
        /\ \E a \in m.areas :
               /\ Cardinality(ForkCopies(m, before(a))) <= Cardinality(FreeFrames)
               /\ Cardinality(ForkCopies(m, before(a) \cup {a})) > Cardinality(FreeFrames)
               /\ SetSpace(p, ForkParent(m, before(a)))
        /\ UNCHANGED <<dat, fileb, pcache, shm, mc, wants, stored>>

(* The attachments of a space: one per base, however many areas it is in. *)
Attachments(m) == {a.base : a \in {x \in m.areas : x.kind = "shm"}}

(* A segment that is marked for removal goes with its last attachment. *)
ShmCounted(s, n) == IF s = Nil THEN Nil ELSE [s EXCEPT !.count = Max({0, @ + n})]
ShmSwept(s) == IF s # Nil /\ s.marked /\ s.count = 0 THEN Nil ELSE s
Detached(s, m) ==
    IF Attachments(m) = {} THEN s
    ELSE ShmSwept(ShmCounted(s, 0 - Cardinality(Attachments(m))))

ForkInherit(t) ==
    /\ mc[t].at = "inherit"
    /\ shm' = ShmCounted(shm, Cardinality(Attachments(ms[mc[t].q])))
    /\ mc' = [mc EXCEPT ![t] = MmIdle]
    /\ UNCHANGED <<ms, dat, fileb, pcache, wants, stored>>

AloneIn(t) == \A u \in MmThreads : SpaceOf[u] = SpaceOf[t] => mc[u].at = "idle"
NotNew(p) == \A u \in MmThreads : mc[u].at = "inherit" => mc[u].q # p

(* The last thread of a space exits: its attachments go, then its areas. *)
ExitSpace(t) ==
    LET p == SpaceOf[t] IN
    /\ ms[p].live /\ AloneIn(t) /\ NotNew(p)
    /\ shm' = Detached(shm, ms[p])
    /\ SetSpace(p, EmptySet)
    /\ wants' = [wants EXCEPT ![p] = [v \in VPages |-> Nil]]
    /\ UNCHANGED <<dat, fileb, pcache, mc, stored>>

(* execve puts a new MemorySet in place of the old one. *)
Exec(t) ==
    LET p == SpaceOf[t] IN
    /\ ms[p].live /\ AloneIn(t) /\ NotNew(p)
    /\ shm' = Detached(shm, ms[p])
    /\ SetSpace(p, [EmptySet EXCEPT !.live = TRUE])
    /\ wants' = [wants EXCEPT ![p] = [v \in VPages |-> Nil]]
    /\ UNCHANGED <<dat, fileb, pcache, mc, stored>>

---------------------------------------------------------------------------
(* mmap, munmap, msync, mprotect, madvise. *)

(* The pages of shared writable file areas in a range, as file contents.  All *)
(* resident pages are collected, stored to or not.                            *)
Collect(m, lo, hi) ==
    LET dirty(o) == {v \in lo .. hi - 1 : \E a \in AreaAt(m, v) :
                        a.kind = "sfile" /\ a.perm = "w" /\ FileOff(a, v) = o /\ m.res[v] # Nil}
    IN  [o \in FPages |-> IF dirty(o) = {} THEN Nil ELSE dat[m.res[Max(dirty(o))].f]]
WriteBack(writes) == fileb' = [o \in FPages |-> IF writes[o] = Nil THEN fileb[o] ELSE writes[o]]

(* An ext4 write through the regular file drops the clean pages of the file   *)
(* from the cache; frames that are still mapped live on with their owners.    *)
CleanAfter(writes) == pcache' = [o \in FPages |-> IF writes[o] = Nil THEN pcache[o] ELSE Nil]

NewArea(lo, n, perm, kind, off, base) ==
    [lo |-> lo, hi |-> lo + n, perm |-> perm, cow |-> FALSE, kind |-> kind, off |-> off,
     base |-> base]

(* mmap chooses the address under the lock ... *)
MmapCall(t, c) ==
    LET p == SpaceOf[t]
        start == IF c.fixed \/ c.noreplace THEN c.at
                 ELSE FindFree(ms[p], 0, c.n, HeapStart)
    IN  /\ ms[p].live /\ mc[t].at = "idle" /\ NotNew(p)
        /\ start # Nil /\ start + c.n <= HeapStart
        /\ mc' = [mc EXCEPT ![t] =
               [at |-> IF c.fixed THEN "mmap_wb" ELSE "mmap_commit", c |-> c, lo |-> start]]
        /\ UNCHANGED <<ms, dat, fileb, pcache, shm, wants, stored>>

(* ... MAP_FIXED writes back the shared file pages it is about to replace ... *)
MmapWriteBack(t) ==
    LET p == SpaceOf[t]
        c == mc[t].c
        w == Collect(ms[p], mc[t].lo, mc[t].lo + c.n)
    IN  /\ mc[t].at = "mmap_wb"
        /\ WriteBack(w) /\ CleanAfter(w)
        /\ mc' = [mc EXCEPT ![t].at = "mmap_commit"]
        /\ UNCHANGED <<ms, dat, shm, wants, stored>>

(* ... and the lock is taken again to map.  An address that was taken in the  *)
(* meantime is chosen anew.                                                   *)
Place(t) ==
    LET m == ms[SpaceOf[t]] c == mc[t].c
    IN  IF c.noreplace /\ RangeOverlaps(m, mc[t].lo, mc[t].lo + c.n) THEN Nil
        ELSE IF ~c.fixed /\ ~c.noreplace /\ RangeOverlaps(m, mc[t].lo, mc[t].lo + c.n)
             THEN FindFree(m, 0, c.n, HeapStart)
             ELSE mc[t].lo

Lazy(c) == (c.kind = "anon" /\ ~c.populate)
           \/ (c.kind \in {"pfile", "sfile"} /\ c.perm = "r")

MmapCommit(t) ==
    LET p == SpaceOf[t]
        c == mc[t].c
        lo == Place(t)
        a == NewArea(lo, c.n, c.perm, c.kind, c.off, 0)
        m == IF c.fixed THEN UnmapRange(ms[p], lo, lo + c.n) ELSE ms[p]
        framed == ~Lazy(c) /\ HasLeaf(c.perm)
        F == FreeIn([ms EXCEPT ![p] = m])
        short == framed /\ c.n > Cardinality(F)
    IN  /\ mc[t].at = "mmap_commit"
        /\ mc' = [mc EXCEPT ![t] = MmIdle]
        /\ IF lo = Nil THEN UNCHANGED <<ms, dat, wants>>
           ELSE /\ SetSpace(p, IF short THEN m ELSE IF Lazy(c) THEN InsertLazy(m, a)
                          ELSE InsertFramed(m, F, a))
                /\ dat' = IF framed /\ ~short THEN Filled(F, Span(a), LAMBDA v : Backing(a, v))
                          ELSE dat
                /\ wants' = [wants EXCEPT ![p] = [v \in VPages |->
                               IF v \notin Span(a) THEN @[v]
                               ELSE IF short THEN Nil
                               ELSE IF Private(a) THEN Backing(a, v)
                               ELSE IF a.kind = "ashared" /\ framed THEN Got(F, Span(a), v)
                               ELSE Nil]]
        /\ UNCHANGED <<fileb, pcache, shm, stored>>

(* munmap writes back the range, drops the lock and then unmaps. *)
MunmapCall(t, lo, hi) ==
    LET p == SpaceOf[t]
        w == Collect(ms[p], lo, hi)
    IN  /\ ms[p].live /\ mc[t].at = "idle" /\ NotNew(p)
        /\ WriteBack(w) /\ CleanAfter(w)
        /\ mc' = [mc EXCEPT ![t] = [at |-> "munmap", lo |-> lo, hi |-> hi]]
        /\ UNCHANGED <<ms, dat, shm, wants, stored>>

Munmap(t) ==
    LET p == SpaceOf[t]
        lo == mc[t].lo
        hi == mc[t].hi
    IN  /\ mc[t].at = "munmap"
        /\ SetSpace(p, UnmapRange(ms[p], lo, hi))
        /\ wants' = [wants EXCEPT ![p] = [v \in VPages |-> IF v \in lo .. hi - 1 THEN Nil ELSE @[v]]]
        /\ mc' = [mc EXCEPT ![t] = MmIdle]
        /\ UNCHANGED <<dat, fileb, pcache, shm, stored>>

Msync(t, lo, hi, invalidate) ==
    LET p == SpaceOf[t]
        w == Collect(ms[p], lo, hi)
    IN  /\ ms[p].live /\ mc[t].at = "idle" /\ RangeCovered(ms[p], lo, hi)
        /\ WriteBack(w) /\ CleanAfter(w)
        /\ mc' = [mc EXCEPT ![t] =
               IF invalidate THEN [at |-> "invalidate", lo |-> lo, hi |-> hi] ELSE MmIdle]
        /\ UNCHANGED <<ms, dat, shm, wants, stored>>

MsyncInvalidate(t) ==
    LET p == SpaceOf[t] IN
    /\ mc[t].at = "invalidate"
    /\ SetSpace(p, IF RangeCovered(ms[p], mc[t].lo, mc[t].hi)
              THEN InvalidateFile(ms[p], mc[t].lo, mc[t].hi) ELSE ms[p])
    /\ mc' = [mc EXCEPT ![t] = MmIdle]
    /\ UNCHANGED <<dat, fileb, pcache, shm, wants, stored>>

Mprotect(t, lo, hi, perm) ==
    LET p == SpaceOf[t] IN
    /\ ms[p].live /\ mc[t].at = "idle" /\ RangeCovered(ms[p], lo, hi)
    /\ SetSpace(p, ProtectRange(ms[p], lo, hi, perm))
    /\ UNCHANGED <<dat, fileb, pcache, shm, mc, wants, stored>>

MadviseDontneed(t, lo, hi) ==
    LET p == SpaceOf[t] IN
    /\ ms[p].live /\ mc[t].at = "idle" /\ RangeCovered(ms[p], lo, hi)
    /\ SetSpace(p, DiscardAnonymous(ms[p], lo, hi))
    /\ wants' = [wants EXCEPT ![p] = [v \in VPages |->
                   IF v \in lo .. hi - 1 /\ \E a \in AreaAt(ms[p], v) : a.kind = "anon"
                   THEN 0 ELSE @[v]]]
    /\ UNCHANGED <<dat, fileb, pcache, shm, mc, stored>>

(* The clean page cache lets go of a page. *)
EvictClean(o) ==
    /\ pcache[o] # Nil
    /\ pcache' = [pcache EXCEPT ![o] = Nil]
    /\ UNCHANGED <<ms, dat, fileb, shm, mc, wants, stored>>

---------------------------------------------------------------------------
(* brk: the break is read, the areas are changed under the lock of the        *)
(* MemorySet, and the new break is stored.                                    *)

BrkCall(t, new) ==
    LET p == SpaceOf[t] IN
    /\ ms[p].live /\ mc[t].at = "idle" /\ NotNew(p)
    /\ new \in HeapStart .. HeapTop
    /\ mc' = [mc EXCEPT ![t] = [at |-> "brk", old |-> ms[p].brk, new |-> new]]
    /\ UNCHANGED <<ms, dat, fileb, pcache, shm, wants, stored>>

BrkMap(t) ==
    LET p == SpaceOf[t]
        m == ms[p]
        old == mc[t].old
        new == mc[t].new
        heap == NewArea(old, new - old, "w", "anon", 0, 0)
    IN  /\ mc[t].at = "brk"
        /\ IF new > old /\ RangeOverlaps(m, old, new)
           THEN /\ mc' = [mc EXCEPT ![t] = MmIdle]
                /\ UNCHANGED <<ms, wants>>
           ELSE /\ mc' = [mc EXCEPT ![t].at = "brk_set"]
                /\ SetSpace(p, IF new > old THEN InsertLazy(m, heap)
                          ELSE IF new < old THEN UnmapRange(m, new, old) ELSE m)
                /\ wants' = [wants EXCEPT ![p] = [v \in VPages |->
                       IF v \in old .. new - 1 THEN 0
                       ELSE IF v \in new .. old - 1 THEN Nil ELSE @[v]]]
        /\ UNCHANGED <<dat, fileb, pcache, shm, stored>>

BrkSet(t) ==
    /\ mc[t].at = "brk_set"
    /\ ms' = [ms EXCEPT ![SpaceOf[t]].brk = mc[t].new]
    /\ mc' = [mc EXCEPT ![t] = MmIdle]
    /\ UNCHANGED <<dat, fileb, pcache, shm, wants, stored>>

---------------------------------------------------------------------------
(* System V shared memory. *)

(* The model has one segment at a time: the next one waits until nothing of   *)
(* the last is left.                                                          *)
Shmget(t) ==
    /\ ms[SpaceOf[t]].live
    /\ \A u \in MmThreads : mc[u].at = "idle"
    /\ \A p \in Spaces : Attachments(ms[p]) = {}
    /\ shm = Nil /\ ShmLen <= Cardinality(FreeFrames)
    /\ shm' = [frames |-> [k \in 1 .. ShmLen |-> Got(FreeFrames, 1 .. ShmLen, k)], count |-> 0, marked |-> FALSE]
    /\ dat' = [f \in MmFrames |-> IF f \in Range(shm'.frames) THEN 0 ELSE dat[f]]
    /\ UNCHANGED <<ms, fileb, pcache, mc, wants, stored>>

(* shmat counts itself and takes the frames, then maps them. *)
ShmatCall(t, at) ==
    LET p == SpaceOf[t] IN
    /\ ms[p].live /\ mc[t].at = "idle" /\ NotNew(p)
    /\ shm # Nil /\ ~shm.marked
    /\ shm' = ShmCounted(shm, 1)
    /\ mc' = [mc EXCEPT ![t] = [at |-> "shmat", lo |-> at, fs |-> shm.frames]]
    /\ UNCHANGED <<ms, dat, fileb, pcache, wants, stored>>

Shmat(t) ==
    LET p == SpaceOf[t]
        lo == mc[t].lo
        a == NewArea(lo, ShmLen, "w", "shm", 0, lo)
    IN  /\ mc[t].at = "shmat"
        /\ IF RangeOverlaps(ms[p], lo, lo + ShmLen)
           THEN mc' = [mc EXCEPT ![t].at = "shmat_undo"] /\ ms' = ms
           ELSE mc' = [mc EXCEPT ![t] = MmIdle] /\ SetSpace(p, InsertShared(ms[p], a, mc[t].fs))
        /\ UNCHANGED <<dat, fileb, pcache, shm, wants, stored>>

ShmatUndo(t) ==
    /\ mc[t].at = "shmat_undo"
    /\ shm' = ShmCounted(shm, -1)
    /\ mc' = [mc EXCEPT ![t] = MmIdle]
    /\ UNCHANGED <<ms, dat, fileb, pcache, wants, stored>>

(* shmdt looks the attachment up, unmaps its areas and uncounts it, under     *)
(* three separate locks.                                                      *)
ShmdtCall(t, base) ==
    LET p == SpaceOf[t] IN
    /\ ms[p].live /\ mc[t].at = "idle" /\ NotNew(p)
    /\ base \in Attachments(ms[p])
    /\ mc' = [mc EXCEPT ![t] = [at |-> "shmdt",
                  ranges |-> {a \in ms[p].areas : a.kind = "shm" /\ a.base = base}]]
    /\ UNCHANGED <<ms, dat, fileb, pcache, shm, wants, stored>>

Shmdt(t) ==
    LET p == SpaceOf[t]
        V == UNION {Span(a) : a \in mc[t].ranges}
    IN  /\ mc[t].at = "shmdt"
        /\ SetSpace(p, FoldSet(LAMBDA a, m : UnmapRange(m, a.lo, a.hi), ms[p], mc[t].ranges))
        /\ wants' = [wants EXCEPT ![p] = [v \in VPages |-> IF v \in V THEN Nil ELSE @[v]]]
        /\ mc' = [mc EXCEPT ![t].at = "shmdt_count"]
        /\ UNCHANGED <<dat, fileb, pcache, shm, stored>>

ShmdtCount(t) ==
    /\ mc[t].at = "shmdt_count"
    /\ shm' = ShmSwept(ShmCounted(shm, -1))
    /\ mc' = [mc EXCEPT ![t] = MmIdle]
    /\ UNCHANGED <<ms, dat, fileb, pcache, wants, stored>>

ShmctlRmid(t) ==
    /\ ms[SpaceOf[t]].live /\ mc[t].at = "idle"
    /\ shm # Nil
    /\ shm' = ShmSwept([shm EXCEPT !.marked = TRUE])
    /\ UNCHANGED <<ms, dat, fileb, pcache, mc, wants, stored>>

MmStep(t) ==
    \/ ForkInherit(t)
    \/ MmapWriteBack(t)
    \/ MmapCommit(t)
    \/ Munmap(t)
    \/ MsyncInvalidate(t)
    \/ BrkMap(t)
    \/ BrkSet(t)
    \/ Shmat(t)
    \/ ShmatUndo(t)
    \/ Shmdt(t)
    \/ ShmdtCount(t)

---------------------------------------------------------------------------
(* Properties *)

(* Every variable has its type; the areas of a space are disjoint and no two  *)
(* adjacent ones could be joined, so that the sorted vector is canonical.     *)
MmTypeOK ==
    /\ \A p \in Spaces :
           LET m == ms[p] IN
           /\ \A a \in m.areas : a.lo < a.hi /\ a.lo >= 0 /\ a.hi <= VEnd
           /\ \A a, b \in m.areas : a = b \/ a.hi <= b.lo \/ b.hi <= a.lo
           /\ \A v \in VPages : m.res[v] # Nil => AreaAt(m, v) # {}
    /\ dat \in [MmFrames -> Values]
    /\ shm # Nil => shm.count \in Nat

(* The page table never outlives the page: every leaf maps the frame its      *)
(* resident page owns, in an area that allows at least what the leaf allows.  *)
(* unmap_range, protect_range, madvise and fork change the three together.    *)
LeavesOwned ==
    \A p \in Spaces, v \in VPages :
        ms[p].pte[v] # Nil =>
            /\ ms[p].res[v] # Nil /\ ms[p].res[v].f = ms[p].pte[v].f
            /\ \E a \in AreaAt(ms[p], v) : HasLeaf(a.perm) /\ (ms[p].pte[v].w => a.perm = "w")

(* What a space reads in its private mappings is what it stored there, or     *)
(* inherited, or the backing: no other space's store and no other mapping of  *)
(* the file shows through (fork_cow, resolve_cow_page, clean page cache).     *)
PrivateIsPrivate ==
    \A p \in Spaces, v \in VPages : \A a \in AreaAt(ms[p], v) :
        (Private(a) /\ wants[p][v] # Nil) =>
            wants[p][v] = IF ms[p].res[v] # Nil THEN dat[ms[p].res[v].f] ELSE Backing(a, v)

(* A store that faults in a writable area makes progress: a leaf that is      *)
(* present but read-only is one handle_page_fault replaces.                   *)
StoresProgress ==
    \A p \in Spaces, v \in VPages : \A a \in AreaAt(ms[p], v) :
        (a.perm = "w" /\ ms[p].pte[v] # Nil /\ ~ms[p].pte[v].w) => a.cow

(* A page of a shared anonymous mapping stays the frame it was mapped with,   *)
(* in the space that mapped it and in the children that inherited it:         *)
(* madvise does not discard it and fork does not copy it.                     *)
SharedIsShared ==
    \A p \in Spaces, v \in VPages : \A a \in AreaAt(ms[p], v) :
        (a.kind = "ashared" /\ wants[p][v] # Nil) =>
            ms[p].res[v] # Nil /\ ms[p].res[v].f = wants[p][v]

(* A store through a shared mapping of the file is in a frame that is still   *)
(* mapped there or in the file: munmap, msync and MAP_FIXED write it back.    *)
StoresReachFile ==
    \A o \in FPages : stored[o] # Nil =>
        \/ fileb[o] = stored[o]
        \/ \E p \in Spaces, v \in VPages : \E a \in AreaAt(ms[p], v) :
               /\ a.kind = "sfile" /\ FileOff(a, v) = o
               /\ ms[p].res[v] # Nil /\ dat[ms[p].res[v].f] = stored[o]

(* The attach count of a segment is the number of its attachments and of the  *)
(* shmat and shmdt calls that have one half way, wherever fork, exec and exit *)
(* come in between.                                                           *)
AttachesCounted ==
    LET attached == UNION {{p} \X Attachments(ms[p]) : p \in Spaces}
        moving == {t \in MmThreads : mc[t].at \in {"shmat", "shmat_undo", "shmdt_count"}}
        unborn == {x \in attached : ~NotNew(x[1])}
    IN  shm # Nil => shm.count = Cardinality(attached \ unborn) + Cardinality(moving)

(* The heap is mapped up to the break while no brk call is changing it. *)
BreakIsMapped ==
    \A p \in Spaces :
        (ms[p].live /\ \A t \in MmThreads : SpaceOf[t] = p => mc[t].at = "idle")
            => /\ RangeCovered(ms[p], HeapStart, ms[p].brk)
               /\ ~RangeOverlaps(ms[p], ms[p].brk, HeapTop)

(* Together: what a space reads, stores and shares through its mappings is    *)
(* what its areas say, and stores, attachments and the break are not lost.    *)
MemorySafe ==
    /\ MmTypeOK /\ LeavesOwned /\ PrivateIsPrivate /\ SharedIsShared
    /\ StoresProgress /\ StoresReachFile /\ AttachesCounted /\ BreakIsMapped

=============================================================================
