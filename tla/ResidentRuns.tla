---------------------------- MODULE ResidentRuns ----------------------------
(* ResidentSet (os/src/mm/map_area.rs): the frames of one VMA, kept as a map  *)
(* from a VMA-relative page number to a run of consecutive resident pages.    *)
(* MemorySet.tla knows which page of the address space has which frame; this  *)
(* module shows that the runs, with the splitting and the joining of VMAs,    *)
(* keep exactly that.                                                         *)
EXTENDS Integers, Sequences, FiniteSets, SequencesExt

CONSTANTS REnd,     \* the VMAs lie in 0..REnd, which they cover
          RFrames,  \* frames
          NoFrame   \* no page

VARIABLES vmas,  \* the VMAs, in address order
          own    \* ghost: page -> the frame inserted there, or NoFrame

runVars == <<vmas, own>>

(* A ResidentSet: runs (start -> pages) and the cached count. *)
EmptyRuns == [runs |-> <<>>, count |-> 0]

Starts(r) == DOMAIN r.runs

(* The page at a relative number: the last run that starts at or before it. *)
Lookup(r, v) ==
    LET before == {s \in Starts(r) : s <= v}
        s == CHOOSE x \in before : \A y \in before : y <= x
    IN  IF before = {} \/ v - s >= Len(r.runs[s]) THEN NoFrame ELSE r.runs[s][v - s + 1]

With(f, k, x) == [s \in DOMAIN f \cup {k} |-> IF s = k THEN x ELSE f[s]]
Without(f, k) == [s \in DOMAIN f \ {k} |-> f[s]]

(* coalesce_adjacent: the run that starts at v is joined with the run that    *)
(* ends there and with the one that starts where it ends.                     *)
CoalesceAdjacent(f, v) ==
    LET left == {s \in DOMAIN f : s < v /\ s + Len(f[s]) = v}
        key == IF left = {} THEN v ELSE CHOOSE s \in left : TRUE
        run == IF left = {} THEN f[v] ELSE f[key] \o f[v]
        right == key + Len(run)
        g == Without(f, v)
    IN  IF right \in DOMAIN g THEN With(Without(g, right), key, run \o g[right])
        ELSE With(g, key, run)

(* insert_run_pages refuses an empty run and a run that overlaps. *)
CanInsert(r, v, pages) ==
    pages # <<>> /\ \A k \in 1 .. Len(pages) : Lookup(r, v + k - 1) = NoFrame
InsertRunPages(r, v, pages) ==
    IF ~CanInsert(r, v, pages) THEN r
    ELSE [runs |-> CoalesceAdjacent(With(r.runs, v, pages), v),
          count |-> r.count + Len(pages)]

(* Runs are inserted one by one, in the order of their starts. *)
InsertAll(r, f, shift) ==
    FoldLeft(LAMBDA acc, s : InsertRunPages(acc, s + shift, f[s]),
             r, SetToSortSeq(DOMAIN f, <))

(* extract_range: each run falls into a left part, the part in range and a    *)
(* right part; the part in range moves to the result, shifted to zero.        *)
Part(f, lo, hi) ==
    LET cut(s) == [from |-> IF s > lo THEN s ELSE lo,
                   to |-> IF s + Len(f[s]) < hi THEN s + Len(f[s]) ELSE hi]
        hit == {s \in DOMAIN f : cut(s).from < cut(s).to}
    IN  [v \in {cut(s).from : s \in hit} |->
            LET s == CHOOSE x \in hit : cut(x).from = v
            IN  SubSeq(f[s], v - s + 1, cut(s).to - s)]
ExtractRange(r, lo, hi) ==
    <<InsertAll(InsertAll(EmptyRuns, Part(r.runs, 0, lo), 0), Part(r.runs, hi, REnd), 0),
      InsertAll(EmptyRuns, Part(r.runs, lo, hi), 0 - lo)>>

(* split_off: everything from a page on. *)
SplitOff(r, v) == ExtractRange(r, v, REnd)

(* merge_with: the right VMA's pages move by the old length of the left one. *)
MergeWith_ByCount(a, b) ==
    [a EXCEPT !.hi = b.hi, !.res = InsertAll(a.res, b.res.runs, a.res.count)]
MergeWith(a, b) ==
    [a EXCEPT !.hi = b.hi, !.res = InsertAll(a.res, b.res.runs, a.hi - a.lo)]

SplitVma(a, v) ==
    LET parts == SplitOff(a.res, v - a.lo)
    IN  <<[a EXCEPT !.hi = v, !.res = parts[1]], [a EXCEPT !.lo = v, !.res = parts[2]]>>

---------------------------------------------------------------------------
RunsInit ==
    /\ vmas = <<[lo |-> 0, hi |-> REnd, res |-> EmptyRuns]>>
    /\ own = [v \in 0 .. REnd - 1 |-> NoFrame]

Fresh == {f \in RFrames : \A v \in DOMAIN own : own[v] # f}

(* A demand fault fills a window of one VMA. *)
FillWindow(i, v, n) ==
    LET a == vmas[i]
        pages == SubSeq(SetToSeq(Fresh), 1, n)
    IN  /\ n <= Cardinality(Fresh)
        /\ a.lo <= v /\ v + n <= a.hi
        /\ CanInsert(a.res, v - a.lo, pages)
        /\ vmas' = [vmas EXCEPT ![i].res = InsertRunPages(@, v - a.lo, pages)]
        /\ own' = [u \in DOMAIN own |-> IF u \in v .. v + n - 1 THEN pages[u - v + 1] ELSE own[u]]

(* madvise(MADV_DONTNEED) on a part of one VMA. *)
DiscardRange(i, lo, hi) ==
    LET a == vmas[i] IN
    /\ a.lo <= lo /\ lo < hi /\ hi <= a.hi
    /\ vmas' = [vmas EXCEPT ![i].res = ExtractRange(@, lo - a.lo, hi - a.lo)[1]]
    /\ own' = [u \in DOMAIN own |-> IF u \in lo .. hi - 1 THEN NoFrame ELSE own[u]]

SplitStep(i, v) ==
    /\ vmas[i].lo < v /\ v < vmas[i].hi
    /\ vmas' = SubSeq(vmas, 1, i - 1) \o SplitVma(vmas[i], v) \o SubSeq(vmas, i + 1, Len(vmas))
    /\ UNCHANGED own

MergeStep(i) ==
    /\ i < Len(vmas)
    /\ vmas' = SubSeq(vmas, 1, i - 1) \o <<MergeWith(vmas[i], vmas[i + 1])>>
               \o SubSeq(vmas, i + 2, Len(vmas))
    /\ UNCHANGED own

RunsNext ==
    \E i \in 1 .. Len(vmas) :
        \/ \E v \in 0 .. REnd - 1, n \in 1 .. 2 : FillWindow(i, v, n)
        \/ \E lo, hi \in 0 .. REnd : DiscardRange(i, lo, hi)
        \/ \E v \in 1 .. REnd - 1 : SplitStep(i, v)
        \/ MergeStep(i)

---------------------------------------------------------------------------
(* Looking a page up through the runs of its VMA gives the frame that was     *)
(* inserted at that address, whatever splits and joins came in between.       *)
PagesStay ==
    \A i \in 1 .. Len(vmas) : \A v \in vmas[i].lo .. vmas[i].hi - 1 :
        Lookup(vmas[i].res, v - vmas[i].lo) = own[v]

(* The runs are maximal and inside their VMA, and the cached count is the     *)
(* number of pages in them: is_empty and len answer from the count.           *)
RunsCanonical ==
    \A i \in 1 .. Len(vmas) :
        LET r == vmas[i].res IN
        /\ \A s \in Starts(r) : Len(r.runs[s]) > 0 /\ s + Len(r.runs[s]) <= vmas[i].hi - vmas[i].lo
        /\ \A s \in Starts(r) : s + Len(r.runs[s]) \notin Starts(r)
        /\ r.count = Cardinality({v \in 0 .. REnd : Lookup(r, v) # NoFrame})

(* Together: a VMA that is split, merged, shrunk or extended keeps every page *)
(* where it was, in runs that are whole.                                      *)
RunsExact == PagesStay /\ RunsCanonical

=============================================================================
