----------------------------- MODULE LockProofs -----------------------------
(***************************************************************************)
(* Proofs about FileLocks, for any processes, descriptions, files and      *)
(* requests: the ranges are compatible and in normal form, they implement  *)
(* locks on bytes (ByteLocks), and whoever releases a lock wakes those it  *)
(* was in the way of.                                                      *)
(***************************************************************************)
EXTENDS FileLocks, WellFoundedInduction, NaturalsInduction, TLAPS

LockRec == [file : Files, owner : Owners, kind : {"R", "W"}, lo : 0..(Inf - 1), hi : 1..Inf]

\* Byte b lies in the range of l; owner o has byte b of file f locked as k.
Covers(l, b) == l.lo <= b /\ b < l.hi
Has(ls, f, o, b, k) ==
    \E l \in ls : l.file = f /\ l.owner = o /\ l.kind = k /\ Covers(l, b)

\* The normal form of a table: no empty range, an owner's ranges are disjoint
\* and those of one kind do not touch.
Normal(ls) ==
    /\ ls \subseteq LockRec
    /\ \A l \in ls : NonEmpty(l)
    /\ \A l, m \in ls : l # m /\ l.file = m.file /\ l.owner = m.owner
                          => ~Overlap(l, m) /\ (l.kind = m.kind => ~TouchOrOverlap(l, m))

\* Owners that share a byte both only read it.
Compatible(ls) ==
    \A l, m \in ls :
        l.file = m.file /\ l.owner # m.owner /\ Overlap(l, m) => ~KindsConflict(l.kind, m.kind)

-----------------------------------------------------------------------------
(* Ranges *)

LEMMA Positions ==
  ASSUME NEW l \in LockRec
  PROVE  /\ l.lo \in Int /\ l.hi \in Int /\ 0 <= l.lo /\ l.lo < Inf /\ 0 < l.hi /\ l.hi <= Inf
         /\ l.file \in Files /\ l.owner \in Owners /\ l.kind \in {"R", "W"}
  BY FlocksAssumption DEF LockRec

\* Two ranges overlap exactly when they share a byte.
LEMMA SharedByte ==
  ASSUME NEW l \in LockRec, NEW m \in LockRec, NonEmpty(l), NonEmpty(m)
  PROVE  Overlap(l, m) <=> \E b \in 0..(Inf - 1) : Covers(l, b) /\ Covers(m, b)
  <1>1. /\ l.lo \in Int /\ l.hi \in Int /\ m.lo \in Int /\ m.hi \in Int /\ Inf \in Nat
        /\ 0 <= l.lo /\ l.lo < Inf /\ 0 <= m.lo /\ m.lo < Inf /\ l.lo < l.hi /\ m.lo < m.hi
    BY Positions, FlocksAssumption, Zenon DEF NonEmpty
  <1>2. ASSUME Overlap(l, m)
        PROVE  \E b \in 0..(Inf - 1) : Covers(l, b) /\ Covers(m, b)
    <2>1. CASE l.lo <= m.lo BY <1>1, <1>2, <2>1 DEF Overlap, Covers
    <2>2. CASE m.lo <= l.lo BY <1>1, <1>2, <2>2 DEF Overlap, Covers
    <2> QED BY <1>1, <2>1, <2>2
  <1>3. ASSUME NEW b \in 0..(Inf - 1), Covers(l, b), Covers(m, b)
        PROVE  Overlap(l, m)
    BY <1>1, <1>3 DEF Overlap, Covers
  <1> QED BY <1>2, <1>3, Zenon

LEMMA MinTwo ==
  ASSUME NEW a \in Int, NEW b \in Int
  PROVE  Min({a, b}) = IF a <= b THEN a ELSE b
  <1>1. \E x \in {a, b} : \A y \in {a, b} : x <= y OBVIOUS
  <1>2. Min({a, b}) \in {a, b} /\ \A y \in {a, b} : Min({a, b}) <= y BY <1>1, Zenon DEF Min
  <1> QED BY <1>2

LEMMA MaxTwo ==
  ASSUME NEW a \in Int, NEW b \in Int
  PROVE  Max({a, b}) = IF a <= b THEN b ELSE a
  <1>1. \E x \in {a, b} : \A y \in {a, b} : x >= y OBVIOUS
  <1>2. Max({a, b}) \in {a, b} /\ \A y \in {a, b} : Max({a, b}) >= y BY <1>1, Zenon DEF Max
  <1> QED BY <1>2

LEMMA LeastExists ==
  ASSUME NEW S, S \subseteq Nat, S # {}
  PROVE  Min(S) \in S /\ \A y \in S : Min(S) <= y
  <1>1. PICK x \in S : \A y \in S : ~(<<y, x>> \in OpToRel(<, Nat))
    BY NatLessThanWellFounded, WFMin, Zenon
  <1>2. \A y \in S : <<y, x>> \in OpToRel(<, Nat) <=> y < x
    BY Zenon DEF OpToRel
  <1>3. \A y \in S : x <= y
    <2> TAKE y \in S
    <2>1. ~(y < x) BY <1>1, <1>2, Zenon
    <2>2. x \in Nat /\ y \in Nat BY Zenon
    <2> QED BY <2>1, <2>2
  <1> QED BY <1>3, Zenon DEF Min

LEMMA GreatestExists ==
  ASSUME NEW S, S \subseteq Nat, S # {}, NEW B \in Nat, \A x \in S : x <= B
  PROVE  Max(S) \in S /\ \A y \in S : Max(S) >= y
  <1>1. PICK T : T = {B - x : x \in S} BY Zenon
  <1>2. T \subseteq Nat
    <2> SUFFICES ASSUME NEW x \in S PROVE B - x \in Nat BY <1>1, Zenon
    <2>1. x \in Nat /\ x <= B BY Zenon
    <2> QED BY <2>1
  <1>3. T # {} BY <1>1, Zenon
  <1>4. Min(T) \in T /\ \A y \in T : Min(T) <= y BY <1>2, <1>3, LeastExists, Zenon
  <1>5. PICK x \in S : Min(T) = B - x BY <1>1, <1>4, Zenon
  <1>6. \A y \in S : x >= y
    <2> TAKE y \in S
    <2>1. B - x <= B - y BY <1>1, <1>4, <1>5, Zenon
    <2>2. x \in Nat /\ y \in Nat BY Zenon
    <2> QED BY <2>1, <2>2
  <1> QED BY <1>6, Zenon DEF Max

\* A request's range.
IsRange(c) == c.lo \in 0..(Inf - 1) /\ c.hi \in 1..Inf /\ c.lo < c.hi

\* subtract_lock_range(): both sides of the cut, and no byte of it.
LEMMA Subtracted ==
  ASSUME NEW l \in LockRec, NEW c, IsRange(c)
  PROVE  /\ \A r \in SubtractRange(l, c) :
               /\ r \in LockRec /\ NonEmpty(r)
               /\ r.file = l.file /\ r.owner = l.owner /\ r.kind = l.kind
               /\ l.lo <= r.lo /\ r.hi <= l.hi /\ (r.hi <= c.lo \/ c.hi <= r.lo)
         /\ \A b \in 0..(Inf - 1) :
               Covers(l, b) /\ ~Covers(c, b) => \E r \in SubtractRange(l, c) : Covers(r, b)
         /\ \A r, q \in SubtractRange(l, c) : r # q => ~TouchOrOverlap(r, q)
  <1>1. /\ l.lo \in Int /\ l.hi \in Int /\ c.lo \in Int /\ c.hi \in Int /\ Inf \in Nat
        /\ 0 <= l.lo /\ l.lo < Inf /\ 0 <= c.lo /\ c.lo < Inf /\ c.lo < c.hi
        /\ 0 < l.hi /\ l.hi <= Inf /\ 0 < c.hi /\ c.hi <= Inf
    BY Positions, FlocksAssumption DEF IsRange
  <1>2. PICK x \in Int : x = IF l.hi <= c.lo THEN l.hi ELSE c.lo BY <1>1, Zenon
  <1>3. PICK y \in Int : y = IF l.lo <= c.hi THEN c.hi ELSE l.lo BY <1>1, Zenon
  <1>4. SubtractRange(l, c) = {r \in {[l EXCEPT !.hi = x], [l EXCEPT !.lo = y]} : NonEmpty(r)}
    BY <1>1, <1>2, <1>3, MinTwo, MaxTwo, Zenon DEF SubtractRange
  <1>5. PICK p : p = [l EXCEPT !.hi = x] BY Zenon
  <1>6. PICK q : q = [l EXCEPT !.lo = y] BY Zenon
  <1>7. /\ p.lo = l.lo /\ p.hi = x /\ p.file = l.file /\ p.owner = l.owner /\ p.kind = l.kind
        /\ q.lo = y /\ q.hi = l.hi /\ q.file = l.file /\ q.owner = l.owner /\ q.kind = l.kind
    BY <1>5, <1>6, Zenon DEF LockRec
  <1>8. NonEmpty(p) => p \in LockRec
    <2>1. NonEmpty(p) => x \in 1..Inf BY <1>1, <1>2, <1>7 DEF NonEmpty
    <2> QED BY <1>5, <2>1, Zenon DEF LockRec
  <1>9. NonEmpty(q) => q \in LockRec
    <2>1. NonEmpty(q) => y \in 0..(Inf - 1) BY <1>1, <1>3, <1>7 DEF NonEmpty
    <2> QED BY <1>6, <2>1, Zenon DEF LockRec
  <1>10. SubtractRange(l, c) = {r \in {p, q} : NonEmpty(r)} BY <1>4, <1>5, <1>6, Zenon
  <1>11. p.lo = l.lo /\ p.hi <= l.hi /\ p.hi <= c.lo BY <1>1, <1>2, <1>7
  <1>12. l.lo <= q.lo /\ q.hi = l.hi /\ c.hi <= q.lo BY <1>1, <1>3, <1>7
  <1>13. \A r \in SubtractRange(l, c) :
               /\ r \in LockRec /\ NonEmpty(r)
               /\ r.file = l.file /\ r.owner = l.owner /\ r.kind = l.kind
               /\ l.lo <= r.lo /\ r.hi <= l.hi /\ (r.hi <= c.lo \/ c.hi <= r.lo)
    BY <1>1, <1>7, <1>8, <1>9, <1>10, <1>11, <1>12
  <1>14. ASSUME NEW b \in 0..(Inf - 1), Covers(l, b), ~Covers(c, b)
         PROVE  \E r \in SubtractRange(l, c) : Covers(r, b)
    <2>1. CASE b < c.lo
      <3>1. Covers(p, b) /\ NonEmpty(p) BY <1>1, <1>2, <1>7, <1>14, <2>1 DEF Covers, NonEmpty
      <3> QED BY <1>10, <3>1, Zenon
    <2>2. CASE b >= c.hi
      <3>1. Covers(q, b) /\ NonEmpty(q) BY <1>1, <1>3, <1>7, <1>14, <2>2 DEF Covers, NonEmpty
      <3> QED BY <1>10, <3>1, Zenon
    <2> QED BY <1>1, <1>14, <2>1, <2>2 DEF Covers
  <1>15. ~TouchOrOverlap(p, q) /\ ~TouchOrOverlap(q, p)
    BY <1>1, <1>2, <1>3, <1>7 DEF TouchOrOverlap
  <1> QED BY <1>10, <1>13, <1>14, <1>15

-----------------------------------------------------------------------------
(* The table *)

\* Byte b of file f is one the request c is about.
About(c, f, o, b) == f = c.file /\ o = c.owner /\ Covers(c, b)

LEMMA UnlockFrom ==
  ASSUME NEW ls, Normal(ls), NEW c, IsRange(c), NEW r \in Unlocked(ls, c)
  PROVE  \E l \in ls :
            /\ r.file = l.file /\ r.owner = l.owner /\ r.kind = l.kind
            /\ l.lo <= r.lo /\ r.hi <= l.hi /\ r \in LockRec /\ NonEmpty(r)
            /\ IF l.file = c.file /\ l.owner = c.owner /\ Overlap(l, c)
               THEN r \in SubtractRange(l, c) ELSE r = l
  <1> DEFINE hit == {l \in ls : l.file = c.file /\ l.owner = c.owner /\ Overlap(l, c)}
  <1>1. \/ r \in ls /\ r \notin hit
        \/ \E l \in hit : r \in SubtractRange(l, c)
    BY Zenon DEF Unlocked
  <1>2. CASE r \in ls /\ r \notin hit
    <2>1. r \in LockRec /\ NonEmpty(r) BY <1>2, Zenon DEF Normal
    <2>2. r.lo <= r.lo /\ r.hi <= r.hi BY <2>1, Positions
    <2> QED BY <1>2, <2>1, <2>2, Zenon
  <1>3. CASE \E l \in hit : r \in SubtractRange(l, c)
    <2>1. PICK l \in hit : r \in SubtractRange(l, c) BY <1>3, Zenon
    <2>2. l \in ls /\ l \in LockRec BY Zenon DEF Normal
    <2>3. /\ r \in LockRec /\ NonEmpty(r)
          /\ r.file = l.file /\ r.owner = l.owner /\ r.kind = l.kind
          /\ l.lo <= r.lo /\ r.hi <= l.hi
      BY <2>1, <2>2, Subtracted, Zenon
    <2> QED BY <2>1, <2>2, <2>3, Zenon
  <1> QED BY <1>1, <1>2, <1>3, Zenon

\* What is left of two ranges that do not overlap, or touch, does not either.
LEMMA Shrunk ==
  ASSUME NEW l \in LockRec, NEW m \in LockRec, NEW r \in LockRec, NEW q \in LockRec,
         l.lo <= r.lo, r.hi <= l.hi, m.lo <= q.lo, q.hi <= m.hi
  PROVE  /\ Overlap(r, q) => Overlap(l, m)
         /\ TouchOrOverlap(r, q) => TouchOrOverlap(l, m)
         /\ NonEmpty(r) /\ NonEmpty(q) /\ Overlap(r, q) => TouchOrOverlap(r, q)
  <1>1. /\ l.lo \in Int /\ l.hi \in Int /\ m.lo \in Int /\ m.hi \in Int
        /\ r.lo \in Int /\ r.hi \in Int /\ q.lo \in Int /\ q.hi \in Int
    BY Positions, Zenon
  <1> QED BY <1>1 DEF Overlap, TouchOrOverlap

LEMMA UnlockNormal ==
  ASSUME NEW ls, Normal(ls), NEW c, IsRange(c)
  PROVE  Normal(Unlocked(ls, c))
  <1>1. Unlocked(ls, c) \subseteq LockRec /\ \A r \in Unlocked(ls, c) : NonEmpty(r)
    BY UnlockFrom, Zenon
  <1>2. ASSUME NEW r \in Unlocked(ls, c), NEW q \in Unlocked(ls, c),
               r # q, r.file = q.file, r.owner = q.owner
        PROVE  ~Overlap(r, q) /\ (r.kind = q.kind => ~TouchOrOverlap(r, q))
    <2>1. PICK l \in ls :
            /\ r.file = l.file /\ r.owner = l.owner /\ r.kind = l.kind
            /\ l.lo <= r.lo /\ r.hi <= l.hi /\ r \in LockRec /\ NonEmpty(r)
            /\ IF l.file = c.file /\ l.owner = c.owner /\ Overlap(l, c)
               THEN r \in SubtractRange(l, c) ELSE r = l
      BY UnlockFrom
    <2>2. PICK m \in ls :
            /\ q.file = m.file /\ q.owner = m.owner /\ q.kind = m.kind
            /\ m.lo <= q.lo /\ q.hi <= m.hi /\ q \in LockRec /\ NonEmpty(q)
            /\ IF m.file = c.file /\ m.owner = c.owner /\ Overlap(m, c)
               THEN q \in SubtractRange(m, c) ELSE q = m
      BY UnlockFrom
    <2>3. l \in LockRec /\ m \in LockRec BY Zenon DEF Normal
    <2>4. CASE l # m
      <3>1. ~Overlap(l, m) /\ (l.kind = m.kind => ~TouchOrOverlap(l, m))
        BY <1>2, <2>1, <2>2, <2>4, Zenon DEF Normal
      <3> QED BY <2>1, <2>2, <2>3, <3>1, Shrunk, Zenon
    <2>5. CASE l = m
      <3>1. r \in SubtractRange(l, c) /\ q \in SubtractRange(l, c) BY <1>2, <2>1, <2>2, <2>5, Zenon
      <3>2. ~TouchOrOverlap(r, q) BY <1>2, <2>3, <3>1, Subtracted, Zenon
      <3> QED BY <2>1, <2>2, <2>3, <3>2, Shrunk, Zenon
    <2> QED BY <2>4, <2>5, Zenon
  <1> QED BY <1>1, <1>2, Zenon DEF Normal

\* apply_file_unlock() takes the bytes of the request from its owner, and no
\* other byte from anybody.
LEMMA UnlockBytes ==
  ASSUME NEW ls, Normal(ls), NEW c, IsRange(c), NEW f, NEW o, NEW b \in 0..(Inf - 1), NEW k
  PROVE  Has(Unlocked(ls, c), f, o, b, k) <=> Has(ls, f, o, b, k) /\ ~About(c, f, o, b)
  <1>0. c.lo \in Int /\ c.hi \in Int BY FlocksAssumption DEF IsRange
  <1>1. ASSUME Has(Unlocked(ls, c), f, o, b, k)
        PROVE  Has(ls, f, o, b, k) /\ ~About(c, f, o, b)
    <2>1. PICK r \in Unlocked(ls, c) : r.file = f /\ r.owner = o /\ r.kind = k /\ Covers(r, b)
      BY <1>1, Zenon DEF Has
    <2>2. PICK l \in ls :
            /\ r.file = l.file /\ r.owner = l.owner /\ r.kind = l.kind
            /\ l.lo <= r.lo /\ r.hi <= l.hi /\ r \in LockRec /\ NonEmpty(r)
            /\ IF l.file = c.file /\ l.owner = c.owner /\ Overlap(l, c)
               THEN r \in SubtractRange(l, c) ELSE r = l
      BY UnlockFrom
    <2>3. l \in LockRec BY Zenon DEF Normal
    <2>4. /\ l.lo \in Int /\ l.hi \in Int /\ r.lo \in Int /\ r.hi \in Int BY <2>2, <2>3, Positions, Zenon
    <2>5. Covers(l, b) BY <2>1, <2>2, <2>4 DEF Covers
    <2>6. ~About(c, f, o, b)
      <3>1. CASE l.file = c.file /\ l.owner = c.owner /\ Overlap(l, c)
        <4>1. r.hi <= c.lo \/ c.hi <= r.lo BY <2>2, <2>3, <3>1, Subtracted, Zenon
        <4> QED BY <1>0, <2>1, <2>4, <4>1 DEF About, Covers
      <3>2. CASE ~(l.file = c.file /\ l.owner = c.owner /\ Overlap(l, c))
        BY <1>0, <2>1, <2>2, <2>4, <2>5, <3>2 DEF About, Covers, Overlap
      <3> QED BY <3>1, <3>2, Zenon
    <2> QED BY <2>1, <2>2, <2>5, <2>6, Zenon DEF Has
  <1>2. ASSUME Has(ls, f, o, b, k), ~About(c, f, o, b)
        PROVE  Has(Unlocked(ls, c), f, o, b, k)
    <2>1. PICK l \in ls : l.file = f /\ l.owner = o /\ l.kind = k /\ Covers(l, b)
      BY <1>2, Zenon DEF Has
    <2>2. l \in LockRec BY Zenon DEF Normal
    <2>3. CASE l.file = c.file /\ l.owner = c.owner /\ Overlap(l, c)
      <3>1. ~Covers(c, b) BY <1>2, <2>1, <2>3, Zenon DEF About
      <3>2. PICK r \in SubtractRange(l, c) : Covers(r, b) BY <2>1, <2>2, <3>1, Subtracted, Zenon
      <3>3. r.file = l.file /\ r.owner = l.owner /\ r.kind = l.kind BY <2>2, <3>2, Subtracted, Zenon
      <3>4. r \in Unlocked(ls, c) BY <2>3, <3>2, Zenon DEF Unlocked
      <3> QED BY <2>1, <3>2, <3>3, <3>4, Zenon DEF Has
    <2>4. CASE ~(l.file = c.file /\ l.owner = c.owner /\ Overlap(l, c))
      <3>1. l \in Unlocked(ls, c) BY <2>4, Zenon DEF Unlocked
      <3> QED BY <2>1, <3>1, Zenon DEF Has
    <2> QED BY <2>3, <2>4, Zenon
  <1> QED BY <1>1, <1>2, Zenon

\* No lock of the request's owner overlaps it.
Clear(ls, new) == \A l \in ls : l.file = new.file /\ l.owner = new.owner => ~Overlap(l, new)

Near(ls, new) == {l \in ls : /\ l.file = new.file /\ l.owner = new.owner
                             /\ l.kind = new.kind /\ TouchOrOverlap(l, new)}
Merged(ls, new) ==
    [new EXCEPT !.lo = Min({l.lo : l \in Near(ls, new) \cup {new}}),
                !.hi = Max({l.hi : l \in Near(ls, new) \cup {new}})]

\* The merged range reaches from the first to the last range it absorbs.
LEMMA MergedRange ==
  ASSUME NEW ls, Normal(ls), NEW new \in LockRec, NonEmpty(new), NEW m, m = Merged(ls, new)
  PROVE  /\ PushMerged(ls, new) = (ls \ Near(ls, new)) \cup {m}
         /\ m \in LockRec /\ NonEmpty(m)
         /\ m.file = new.file /\ m.owner = new.owner /\ m.kind = new.kind
         /\ \A l \in Near(ls, new) \cup {new} : m.lo <= l.lo /\ l.hi <= m.hi
         /\ \E l \in Near(ls, new) \cup {new} : l.lo = m.lo
         /\ \E l \in Near(ls, new) \cup {new} : l.hi = m.hi
  <1> DEFINE all == Near(ls, new) \cup {new}
  <1>1. all \subseteq LockRec /\ \A l \in all : NonEmpty(l) BY Zenon DEF Normal, Near
  <1>2. \A l \in all : l.lo \in Nat /\ l.hi \in Nat /\ l.hi <= Inf /\ l.lo < Inf /\ 0 < l.hi
    BY <1>1, Positions, FlocksAssumption
  <1>3. PICK A : A = {l.lo : l \in all} BY Zenon
  <1>4. PICK B : B = {l.hi : l \in all} BY Zenon
  <1>5. Min(A) \in A /\ \A y \in A : Min(A) <= y
    <2>1. A \subseteq Nat /\ A # {} BY <1>2, <1>3, Zenon
    <2> QED BY <2>1, LeastExists, Zenon
  <1>6. Max(B) \in B /\ \A y \in B : Max(B) >= y
    <2>1. B \subseteq Nat /\ B # {} /\ \A y \in B : y <= Inf BY <1>2, <1>4, Zenon
    <2>2. Inf \in Nat BY FlocksAssumption, Zenon
    <2> QED BY <2>1, <2>2, GreatestExists, Zenon
  <1>7. m = [new EXCEPT !.lo = Min(A), !.hi = Max(B)] BY <1>3, <1>4, Zenon DEF Merged
  <1>8. PICK lo \in Nat : lo = Min(A) BY <1>2, <1>3, <1>5, Zenon
  <1>9. PICK hi \in Nat : hi = Max(B) BY <1>2, <1>4, <1>6, Zenon
  <1>10. /\ \E l \in all : l.lo = lo
         /\ \E l \in all : l.hi = hi
         /\ \A l \in all : lo <= l.lo /\ l.hi <= hi
    BY <1>2, <1>3, <1>4, <1>5, <1>6, <1>8, <1>9, Zenon
  <1>11. lo \in 0..(Inf - 1) /\ hi \in 1..Inf
    <2>1. lo < Inf /\ 0 < hi /\ hi <= Inf BY <1>2, <1>10, Zenon
    <2> QED BY <2>1, FlocksAssumption
  <1>12. m = [new EXCEPT !.lo = lo, !.hi = hi] BY <1>7, <1>8, <1>9, Zenon
  <1>13. m \in LockRec BY <1>11, <1>12, Zenon DEF LockRec
  <1>14. /\ m.file = new.file /\ m.owner = new.owner /\ m.kind = new.kind
         /\ m.lo = lo /\ m.hi = hi
    BY <1>12, Zenon DEF LockRec
  <1>15. lo < hi
    <2>1. lo <= new.lo /\ new.hi <= hi /\ new.lo < new.hi BY <1>10, Zenon DEF NonEmpty
    <2>2. new.lo \in Nat /\ new.hi \in Nat BY <1>2, Zenon
    <2> QED BY <2>1, <2>2
  <1>16. PushMerged(ls, new) = (ls \ Near(ls, new)) \cup {m} BY Zenon DEF PushMerged, Near, Merged
  <1> QED BY <1>10, <1>13, <1>14, <1>15, <1>16, Zenon DEF NonEmpty

\* It covers the bytes of the ranges it absorbs, which leave no gap.
LEMMA MergedBytes ==
  ASSUME NEW ls, Normal(ls), NEW new \in LockRec, NonEmpty(new), NEW m, m = Merged(ls, new),
         NEW b \in 0..(Inf - 1)
  PROVE  Covers(m, b) <=> \E l \in Near(ls, new) \cup {new} : Covers(l, b)
  <1> DEFINE all == Near(ls, new) \cup {new}
  <1>1. \A l \in all : l \in LockRec /\ NonEmpty(l) BY Zenon DEF Normal, Near
  <1>2. \A l \in all : l.lo \in Int /\ l.hi \in Int BY <1>1, Positions, Zenon
  <1>3. /\ m.lo \in Int /\ m.hi \in Int
        /\ \A l \in all : m.lo <= l.lo /\ l.hi <= m.hi
    <2>1. m \in LockRec BY MergedRange, Zenon
    <2> QED BY <2>1, MergedRange, Positions, Zenon
  <1>4. PICK p \in all : p.lo = m.lo BY MergedRange
  <1>5. PICK q \in all : q.hi = m.hi BY MergedRange
  <1>6. \A l \in all : l = new \/ (l.lo <= new.hi /\ new.lo <= l.hi) BY Zenon DEF Near, TouchOrOverlap
  <1>7. ASSUME Covers(m, b) PROVE \E l \in all : Covers(l, b)
    <2>0. new \in all BY Zenon
    <2>1. CASE b < new.lo
      <3>1. Covers(p, b) BY <1>2, <1>3, <1>4, <1>6, <1>7, <2>0, <2>1 DEF Covers
      <3> QED BY <3>1, Zenon
    <2>2. CASE b >= new.hi
      <3>1. Covers(q, b) BY <1>2, <1>3, <1>5, <1>6, <1>7, <2>0, <2>2 DEF Covers
      <3> QED BY <3>1, Zenon
    <2>3. CASE new.lo <= b /\ b < new.hi BY <2>0, <2>3, Zenon DEF Covers
    <2> QED BY <1>2, <2>0, <2>1, <2>2, <2>3
  <1>8. ASSUME NEW l \in all, Covers(l, b) PROVE Covers(m, b)
    BY <1>2, <1>3, <1>8 DEF Covers
  <1> QED BY <1>7, <1>8, Zenon

\* Outside the ranges it absorbs, nothing overlaps the merged range, and
\* nothing of its kind touches it.
LEMMA PushNormal ==
  ASSUME NEW ls, Normal(ls), NEW new \in LockRec, NonEmpty(new), Clear(ls, new)
  PROVE  Normal(PushMerged(ls, new))
  <1>1. PICK m : m = Merged(ls, new) BY Zenon
  <1>2. /\ PushMerged(ls, new) = (ls \ Near(ls, new)) \cup {m}
        /\ m \in LockRec /\ NonEmpty(m)
        /\ m.file = new.file /\ m.owner = new.owner /\ m.kind = new.kind
    BY <1>1, MergedRange
  <1>3. ASSUME NEW l \in ls \ Near(ls, new), l.file = m.file, l.owner = m.owner
        PROVE  /\ ~Overlap(l, m) /\ ~Overlap(m, l)
               /\ l.kind = m.kind => ~TouchOrOverlap(l, m) /\ ~TouchOrOverlap(m, l)
    <2>1. l \in LockRec /\ NonEmpty(l) BY Zenon DEF Normal
    <2>2. \A a \in Near(ls, new) : ~Overlap(l, a) /\ (l.kind = m.kind => ~TouchOrOverlap(l, a))
      BY <1>2, <1>3, Zenon DEF Normal, Near
    <2>3. ~Overlap(l, m)
      <3> SUFFICES ASSUME Overlap(l, m) PROVE FALSE BY Zenon
      <3>1. PICK b \in 0..(Inf - 1) : Covers(l, b) /\ Covers(m, b) BY <1>2, <2>1, SharedByte, Zenon
      <3>2. PICK a \in Near(ls, new) \cup {new} : Covers(a, b) BY <1>1, <3>1, MergedBytes, Zenon
      <3>3. a \in LockRec /\ NonEmpty(a) BY Zenon DEF Normal, Near
      <3>4. Overlap(l, a) BY <2>1, <3>1, <3>2, <3>3, SharedByte, Zenon
      <3> QED BY <1>2, <1>3, <2>2, <3>4, Zenon DEF Clear
    <2>4. ASSUME l.kind = m.kind, TouchOrOverlap(l, m) PROVE FALSE
      <3>1. PICK p \in Near(ls, new) \cup {new} : p.lo = m.lo BY <1>1, MergedRange
      <3>2. PICK q \in Near(ls, new) \cup {new} : q.hi = m.hi BY <1>1, MergedRange
      <3>3. p \in LockRec /\ NonEmpty(p) /\ q \in LockRec /\ NonEmpty(q) BY Zenon DEF Normal, Near
      <3>4. /\ p.lo \in Int /\ p.hi \in Int /\ q.lo \in Int /\ q.hi \in Int
            /\ l.lo \in Int /\ l.hi \in Int /\ new.lo \in Int /\ new.hi \in Int
            /\ m.lo \in Int /\ m.hi \in Int
        BY <1>2, <2>1, <3>3, Positions, Zenon
      <3>5. p.lo < p.hi /\ q.lo < q.hi /\ l.lo < l.hi BY <2>1, <3>3, Zenon DEF NonEmpty
      <3>6. l.lo <= m.hi /\ m.lo <= l.hi BY <2>4, Zenon DEF TouchOrOverlap
      <3>7. ~TouchOrOverlap(l, new) BY <1>2, <1>3, <2>4, Zenon DEF Near
      <3>8. CASE l.lo > new.hi
        <4>1. q # new BY <3>2, <3>4, <3>6, <3>8
        <4>2. q.lo <= new.hi BY <4>1, Zenon DEF Near, TouchOrOverlap
        <4>3. TouchOrOverlap(l, q) BY <3>2, <3>4, <3>5, <3>6, <3>8, <4>2 DEF TouchOrOverlap
        <4> QED BY <2>2, <2>4, <4>1, <4>3, Zenon
      <3>9. CASE new.lo > l.hi
        <4>1. p # new BY <3>1, <3>4, <3>6, <3>9
        <4>2. new.lo <= p.hi BY <4>1, Zenon DEF Near, TouchOrOverlap
        <4>3. TouchOrOverlap(l, p) BY <3>1, <3>4, <3>5, <3>6, <3>9, <4>2 DEF TouchOrOverlap
        <4> QED BY <2>2, <2>4, <4>1, <4>3, Zenon
      <3> QED BY <3>4, <3>7, <3>8, <3>9 DEF TouchOrOverlap
    <2> QED BY <2>3, <2>4, Zenon DEF Overlap, TouchOrOverlap
  <1> QED BY <1>2, <1>3, Zenon DEF Normal

LEMMA PushBytes ==
  ASSUME NEW ls, Normal(ls), NEW new \in LockRec, NonEmpty(new),
         NEW f, NEW o, NEW b \in 0..(Inf - 1), NEW k
  PROVE  Has(PushMerged(ls, new), f, o, b, k)
            <=> Has(ls, f, o, b, k) \/ (About(new, f, o, b) /\ k = new.kind)
  <1>1. PICK m : m = Merged(ls, new) BY Zenon
  <1>2. /\ PushMerged(ls, new) = (ls \ Near(ls, new)) \cup {m}
        /\ m.file = new.file /\ m.owner = new.owner /\ m.kind = new.kind
    BY <1>1, MergedRange
  <1>3. Covers(m, b) <=> \E l \in Near(ls, new) \cup {new} : Covers(l, b) BY <1>1, MergedBytes, Zenon
  <1>4. \A l \in Near(ls, new) : l \in ls /\ l.file = new.file /\ l.owner = new.owner /\ l.kind = new.kind
    BY Zenon DEF Near
  <1>5. ASSUME Has(PushMerged(ls, new), f, o, b, k)
        PROVE  Has(ls, f, o, b, k) \/ (About(new, f, o, b) /\ k = new.kind)
    <2>1. PICK r \in (ls \ Near(ls, new)) \cup {m} :
            r.file = f /\ r.owner = o /\ r.kind = k /\ Covers(r, b)
      BY <1>2, <1>5, Zenon DEF Has
    <2>2. CASE r \in ls BY <2>1, <2>2, Zenon DEF Has
    <2>3. CASE r = m BY <1>2, <1>3, <1>4, <2>1, <2>3, Zenon DEF Has, About
    <2> QED BY <2>2, <2>3, Zenon
  <1>6. ASSUME Has(ls, f, o, b, k) PROVE Has(PushMerged(ls, new), f, o, b, k)
    <2>1. PICK l \in ls : l.file = f /\ l.owner = o /\ l.kind = k /\ Covers(l, b) BY <1>6, Zenon DEF Has
    <2>2. CASE l \in Near(ls, new) BY <1>2, <1>3, <1>4, <2>1, <2>2, Zenon DEF Has
    <2>3. CASE l \notin Near(ls, new) BY <1>2, <2>1, <2>3, Zenon DEF Has
    <2> QED BY <2>2, <2>3, Zenon
  <1>7. ASSUME About(new, f, o, b), k = new.kind PROVE Has(PushMerged(ls, new), f, o, b, k)
    BY <1>2, <1>3, <1>7, Zenon DEF Has, About
  <1> QED BY <1>5, <1>6, <1>7, Zenon

-----------------------------------------------------------------------------
(* What a request does to the table *)

\* The request of a call that sets a lock.
IsLock(c) == IsRange(c) /\ c.file \in Files /\ c.owner \in Owners /\ c.kind \in {"R", "W"}

Locked(ls, c) == PushMerged(Unlocked(ls, c), Lock(c))

LEMMA LockOf ==
  ASSUME NEW c, IsLock(c), NEW new, new = Lock(c)
  PROVE  /\ new \in LockRec /\ NonEmpty(new)
         /\ new.file = c.file /\ new.owner = c.owner /\ new.kind = c.kind
         /\ new.lo = c.lo /\ new.hi = c.hi
  BY Zenon DEF IsLock, IsRange, Lock, LockRec, NonEmpty

LEMMA UnlockClears ==
  ASSUME NEW ls, Normal(ls), NEW c, IsLock(c)
  PROVE  Clear(Unlocked(ls, c), Lock(c))
  <1>0. PICK new : new = Lock(c) BY Zenon
  <1>1. /\ new \in LockRec /\ NonEmpty(new)
        /\ new.file = c.file /\ new.owner = c.owner /\ new.lo = c.lo /\ new.hi = c.hi
    BY <1>0, LockOf, Zenon
  <1>2. IsRange(c) BY Zenon DEF IsLock
  <1>3. ASSUME NEW r \in Unlocked(ls, c), r.file = new.file, r.owner = new.owner, Overlap(r, new)
        PROVE  FALSE
    <2>1. Normal(Unlocked(ls, c)) BY <1>2, UnlockNormal, Zenon
    <2>2. r \in LockRec /\ NonEmpty(r) BY <2>1, Zenon DEF Normal
    <2>3. PICK b \in 0..(Inf - 1) : Covers(r, b) /\ Covers(new, b) BY <1>1, <1>3, <2>2, SharedByte, Zenon
    <2>4. Has(Unlocked(ls, c), r.file, r.owner, b, r.kind) BY <2>3, Zenon DEF Has
    <2>5. ~About(c, r.file, r.owner, b) BY <1>2, <2>4, UnlockBytes, Zenon
    <2> QED BY <1>1, <1>3, <2>3, <2>5, Zenon DEF About, Covers
  <1> QED BY <1>0, <1>3, Zenon DEF Clear

LEMMA LockNormal ==
  ASSUME NEW ls, Normal(ls), NEW c, IsLock(c)
  PROVE  Normal(Locked(ls, c))
  <1>1. IsRange(c) BY DEF IsLock
  <1>2. Lock(c) \in LockRec /\ NonEmpty(Lock(c)) BY LockOf, Zenon
  <1>3. Normal(Unlocked(ls, c)) BY <1>1, UnlockNormal, Zenon
  <1> QED BY <1>2, <1>3, UnlockClears, PushNormal, Zenon DEF Locked

LEMMA LockBytes ==
  ASSUME NEW ls, Normal(ls), NEW c, IsLock(c), NEW f, NEW o, NEW b \in 0..(Inf - 1), NEW k
  PROVE  Has(Locked(ls, c), f, o, b, k)
            <=> IF About(c, f, o, b) THEN k = c.kind ELSE Has(ls, f, o, b, k)
  <1>0. PICK new : new = Lock(c) BY Zenon
  <1>1. /\ new \in LockRec /\ NonEmpty(new)
        /\ new.file = c.file /\ new.owner = c.owner /\ new.kind = c.kind
        /\ new.lo = c.lo /\ new.hi = c.hi
    BY <1>0, LockOf, Zenon
  <1>2. IsRange(c) BY Zenon DEF IsLock
  <1>3. PICK un : un = Unlocked(ls, c) BY Zenon
  <1>4. Normal(un) BY <1>2, <1>3, UnlockNormal, Zenon
  <1>5. Has(PushMerged(un, new), f, o, b, k)
           <=> Has(un, f, o, b, k) \/ (About(new, f, o, b) /\ k = new.kind)
    BY <1>1, <1>4, PushBytes
  <1>6. Has(un, f, o, b, k) <=> Has(ls, f, o, b, k) /\ ~About(c, f, o, b)
    BY <1>2, <1>3, UnlockBytes, Zenon
  <1>7. About(new, f, o, b) <=> About(c, f, o, b) BY <1>1, Zenon DEF About, Covers
  <1>8. Locked(ls, c) = PushMerged(un, new) BY <1>0, <1>3, Zenon DEF Locked
  <1> QED BY <1>1, <1>5, <1>6, <1>7, <1>8, Zenon

\* A table is compatible when its bytes are.
LEMMA ByteCompatible ==
  ASSUME NEW ls, Normal(ls)
  PROVE  Compatible(ls) <=>
           \A f, o, p, k, j : \A b \in 0..(Inf - 1) :
              o # p /\ Has(ls, f, o, b, k) /\ Has(ls, f, p, b, j) => ~KindsConflict(k, j)
  <1>0. \A l \in ls : l \in LockRec /\ NonEmpty(l) BY Zenon DEF Normal
  <1>1. ASSUME Compatible(ls), NEW f, NEW o, NEW p, NEW k, NEW j, NEW b \in 0..(Inf - 1),
               o # p, Has(ls, f, o, b, k), Has(ls, f, p, b, j)
        PROVE  ~KindsConflict(k, j)
    <2>1. PICK l \in ls : l.file = f /\ l.owner = o /\ l.kind = k /\ Covers(l, b) BY <1>1, Zenon DEF Has
    <2>2. PICK m \in ls : m.file = f /\ m.owner = p /\ m.kind = j /\ Covers(m, b) BY <1>1, Zenon DEF Has
    <2>3. Overlap(l, m) BY <1>0, <2>1, <2>2, SharedByte, Zenon
    <2> QED BY <1>1, <2>1, <2>2, <2>3, Zenon DEF Compatible
  <1>2. ASSUME \A f, o, p, k, j : \A b \in 0..(Inf - 1) :
                 o # p /\ Has(ls, f, o, b, k) /\ Has(ls, f, p, b, j) => ~KindsConflict(k, j),
               NEW l \in ls, NEW m \in ls, l.file = m.file, l.owner # m.owner, Overlap(l, m)
        PROVE  ~KindsConflict(l.kind, m.kind)
    <2>1. PICK b \in 0..(Inf - 1) : Covers(l, b) /\ Covers(m, b) BY <1>0, <1>2, SharedByte, Zenon
    <2>2. Has(ls, l.file, l.owner, b, l.kind) /\ Has(ls, l.file, m.owner, b, m.kind)
      BY <1>2, <2>1, Zenon DEF Has
    <2> QED BY <1>2, <2>2, Zenon
  <1> QED BY <1>1, <1>2, Zenon DEF Compatible

LEMMA UnlockCompatible ==
  ASSUME NEW ls, Normal(ls), Compatible(ls), NEW c, IsRange(c)
  PROVE  Compatible(Unlocked(ls, c))
  <1>1. Normal(Unlocked(ls, c)) BY UnlockNormal, Zenon
  <1>2. \A f, o, b, k : b \in 0..(Inf - 1) /\ Has(Unlocked(ls, c), f, o, b, k) => Has(ls, f, o, b, k)
    BY UnlockBytes, Zenon
  <1>3. \A f, o, p, k, j : \A b \in 0..(Inf - 1) :
           o # p /\ Has(ls, f, o, b, k) /\ Has(ls, f, p, b, j) => ~KindsConflict(k, j)
    BY ByteCompatible, Zenon
  <1>4. \A f, o, p, k, j : \A b \in 0..(Inf - 1) :
           o # p /\ Has(Unlocked(ls, c), f, o, b, k) /\ Has(Unlocked(ls, c), f, p, b, j)
             => ~KindsConflict(k, j)
    BY <1>2, <1>3
  <1> QED BY <1>1, <1>4, ByteCompatible, Zenon

\* No lock of another owner is in the way of the request.
Free(ls, c) ==
    \A l \in ls : l.file = c.file /\ l.owner # c.owner /\ KindsConflict(l.kind, c.kind)
                     => ~Overlap(l, c)

\* On the bytes of a free request the other owners have no conflicting lock.
LEMMA FreeBytes ==
  ASSUME NEW ls, Normal(ls), NEW c, IsLock(c), Free(ls, c),
         NEW p, p # c.owner, NEW b \in 0..(Inf - 1), Covers(c, b), NEW j, Has(ls, c.file, p, b, j)
  PROVE  ~KindsConflict(j, c.kind)
  <1>1. PICK l \in ls : l.file = c.file /\ l.owner = p /\ l.kind = j /\ Covers(l, b) BY Zenon DEF Has
  <1>2. l \in LockRec BY Zenon DEF Normal
  <1>3. l.lo \in Int /\ l.hi \in Int BY <1>2, Positions, Zenon
  <1>4. c.lo \in Int /\ c.hi \in Int BY FlocksAssumption DEF IsLock, IsRange
  <1>5. Overlap(l, c) BY <1>1, <1>3, <1>4 DEF Overlap, Covers
  <1> QED BY <1>1, <1>5, Zenon DEF Free

LEMMA LockCompatible ==
  ASSUME NEW ls, Normal(ls), Compatible(ls), NEW c, IsLock(c), Free(ls, c)
  PROVE  Compatible(Locked(ls, c))
  <1>1. Normal(Locked(ls, c)) BY LockNormal, Zenon
  <1>2. \A f, o, p, k, j : \A b \in 0..(Inf - 1) :
           o # p /\ Has(ls, f, o, b, k) /\ Has(ls, f, p, b, j) => ~KindsConflict(k, j)
    BY ByteCompatible, Zenon
  <1>3. ASSUME NEW f, NEW o, NEW p, NEW k, NEW j, NEW b \in 0..(Inf - 1), o # p,
               Has(Locked(ls, c), f, o, b, k), Has(Locked(ls, c), f, p, b, j)
        PROVE  ~KindsConflict(k, j)
    <2>1. IF About(c, f, o, b) THEN k = c.kind ELSE Has(ls, f, o, b, k) BY <1>3, LockBytes, Zenon
    <2>2. IF About(c, f, p, b) THEN j = c.kind ELSE Has(ls, f, p, b, j) BY <1>3, LockBytes, Zenon
    <2>3. CASE About(c, f, o, b)
      <3>1. Has(ls, f, p, b, j) /\ k = c.kind /\ p # c.owner /\ f = c.file /\ Covers(c, b)
        BY <1>3, <2>1, <2>2, <2>3, Zenon DEF About
      <3>2. ~KindsConflict(j, c.kind) BY <3>1, FreeBytes, Zenon
      <3> QED BY <3>1, <3>2, Zenon DEF KindsConflict
    <2>4. CASE About(c, f, p, b)
      <3>1. Has(ls, f, o, b, k) /\ j = c.kind /\ o # c.owner /\ f = c.file /\ Covers(c, b)
        BY <1>3, <2>1, <2>2, <2>4, Zenon DEF About
      <3>2. ~KindsConflict(k, c.kind) BY <3>1, FreeBytes, Zenon
      <3> QED BY <3>1, <3>2, Zenon
    <2>5. CASE ~About(c, f, o, b) /\ ~About(c, f, p, b) BY <1>2, <1>3, <2>1, <2>2, <2>5, Zenon
    <2> QED BY <2>3, <2>4, <2>5, Zenon
  <1>4. \A f, o, p, k, j : \A b \in 0..(Inf - 1) :
           o # p /\ Has(Locked(ls, c), f, o, b, k) /\ Has(Locked(ls, c), f, p, b, j)
             => ~KindsConflict(k, j)
    BY <1>3, Zenon
  <1> QED BY <1>1, <1>4, ByteCompatible, Zenon

LEMMA FewerLocks ==
  ASSUME NEW ls, Normal(ls), Compatible(ls), NEW less, less \subseteq ls
  PROVE  Normal(less) /\ Compatible(less)
  BY Zenon DEF Normal, Compatible

-----------------------------------------------------------------------------
(* The bytes of a table *)

Bytes == 0..(Inf - 1)

LEMMA HeldIs ==
  ASSUME NEW ls, Normal(ls), NEW f, NEW o, NEW b \in Bytes
  PROVE  /\ HeldAt(ls, f, b, o) \in {"R", "W", "none"}
         /\ \A k \in {"R", "W"} : HeldAt(ls, f, b, o) = k <=> Has(ls, f, o, b, k)
  <1>1. PICK around : around = {l \in ls : l.file = f /\ l.owner = o /\ l.lo <= b /\ b < l.hi}
    BY Zenon
  <1>2. HeldAt(ls, f, b, o) = IF around = {} THEN "none" ELSE (CHOOSE l \in around : TRUE).kind
    BY <1>1 DEF HeldAt
  <1>3. CASE around = {} BY <1>1, <1>2, <1>3, Zenon DEF Has, Covers
  <1>4. CASE around # {}
    <2>1. PICK l \in around : HeldAt(ls, f, b, o) = l.kind BY <1>2, <1>4, Zenon
    <2>2. l \in ls /\ l \in LockRec /\ NonEmpty(l) /\ l.file = f /\ l.owner = o /\ Covers(l, b)
      BY <1>1, <2>1, Zenon DEF Normal, Covers
    <2>3. l.kind \in {"R", "W"} BY <2>2, Positions, Zenon
    <2>4. ASSUME NEW k \in {"R", "W"}, Has(ls, f, o, b, k) PROVE l.kind = k
      <3>1. PICK m \in ls : m.file = f /\ m.owner = o /\ m.kind = k /\ Covers(m, b) BY <2>4, Zenon DEF Has
      <3>2. m \in LockRec /\ NonEmpty(m) BY Zenon DEF Normal
      <3>3. Overlap(l, m) BY <2>2, <3>1, <3>2, SharedByte, Zenon DEF Bytes
      <3> QED BY <2>2, <3>1, <3>3, Zenon DEF Normal
    <2>5. Has(ls, f, o, b, l.kind) BY <2>2, Zenon DEF Has
    <2> QED BY <2>1, <2>3, <2>4, <2>5, Zenon
  <1> QED BY <1>3, <1>4, Zenon

\* The kinds of lock an owner has on a byte say what it holds there.
LEMMA HeldSame ==
  ASSUME NEW ls, Normal(ls), NEW ms, Normal(ms), NEW f, NEW o, NEW b \in Bytes,
         \A k \in {"R", "W"} : Has(ms, f, o, b, k) <=> Has(ls, f, o, b, k)
  PROVE  HeldAt(ms, f, b, o) = HeldAt(ls, f, b, o)
  <1>1. PICK x : x = HeldAt(ls, f, b, o) BY Zenon
  <1>2. PICK y : y = HeldAt(ms, f, b, o) BY Zenon
  <1>3. x \in {"R", "W", "none"} /\ \A k \in {"R", "W"} : x = k <=> Has(ls, f, o, b, k)
    BY <1>1, HeldIs, Zenon
  <1>4. y \in {"R", "W", "none"} /\ \A k \in {"R", "W"} : y = k <=> Has(ms, f, o, b, k)
    BY <1>2, HeldIs, Zenon
  <1> QED BY <1>1, <1>2, <1>3, <1>4

LEMMA HeldNone ==
  ASSUME NEW ls, Normal(ls), NEW f, NEW o, NEW b \in Bytes,
         \A k \in {"R", "W"} : ~Has(ls, f, o, b, k)
  PROVE  HeldAt(ls, f, b, o) = "none"
  BY HeldIs, Zenon

Cell(ls, f, b) == [o \in Owners |-> HeldAt(ls, f, b, o)]
Row(ls, f) == [b \in Bytes |-> Cell(ls, f, b)]
Held(ls) == [f \in Files |-> Row(ls, f)]

LEMMA CellSame ==
  ASSUME NEW ls, NEW ms, NEW f, NEW b, \A o \in Owners : HeldAt(ms, f, b, o) = HeldAt(ls, f, b, o)
  PROVE  Cell(ms, f, b) = Cell(ls, f, b)
  BY Zenon DEF Cell

\* A change of the table that is a change of some bytes of one owner.
Changes(ls, ms, f, o, S, k) ==
    \A g \in Files, b \in Bytes, p \in Owners :
        HeldAt(ms, g, b, p) = IF g = f /\ p = o /\ b \in S THEN k ELSE HeldAt(ls, g, b, p)

PutRow(ls, f, o, S, k) ==
    [b \in Bytes |-> IF b \in S THEN [Held(ls)[f][b] EXCEPT ![o] = k] ELSE Held(ls)[f][b]]

LEMMA PutIs ==
  ASSUME NEW ls, NEW ms, NEW f \in Files, NEW o \in Owners, NEW S, NEW k,
         Changes(ls, ms, f, o, S, k)
  PROVE  Held(ms) = [Held(ls) EXCEPT ![f] = PutRow(ls, f, o, S, k)]
  <1>1. Held(ls)[f] = Row(ls, f) BY Zenon DEF Held
  <1>2. \A b \in Bytes : Held(ls)[f][b] = Cell(ls, f, b) BY <1>1, Zenon DEF Row
  <1>p. PICK G : G = PutRow(ls, f, o, S, k) BY Zenon
  <1>3. \A b \in Bytes : G[b] = Cell(ms, f, b)
    <2> TAKE b \in Bytes
    <2>1. CASE b \in S
      <3>1. G[b] = [Cell(ls, f, b) EXCEPT ![o] = k] BY <1>2, <1>p, <2>1, Zenon DEF PutRow
      <3>2. \A p \in Owners : HeldAt(ms, f, b, p) = IF p = o THEN k ELSE HeldAt(ls, f, b, p)
        BY <2>1, Zenon DEF Changes
      <3> QED BY <3>1, <3>2, Zenon DEF Cell
    <2>2. CASE b \notin S
      <3>1. G[b] = Cell(ls, f, b) BY <1>2, <1>p, <2>2, Zenon DEF PutRow
      <3>2. \A p \in Owners : HeldAt(ms, f, b, p) = HeldAt(ls, f, b, p) BY <2>2, Zenon DEF Changes
      <3> QED BY <3>1, <3>2, CellSame
    <2> QED BY <2>1, <2>2, Zenon
  <1>4. G = Row(ms, f) BY <1>3, <1>p, Zenon DEF Row, PutRow
  <1>5. \A g \in Files : g # f => Row(ms, g) = Row(ls, g)
    <2> TAKE g \in Files
    <2> HAVE g # f
    <2>1. \A b \in Bytes : Cell(ms, g, b) = Cell(ls, g, b)
      <3> TAKE b \in Bytes
      <3>1. \A p \in Owners : HeldAt(ms, g, b, p) = HeldAt(ls, g, b, p) BY Zenon DEF Changes
      <3> QED BY <3>1, CellSame
    <2> QED BY <2>1, Zenon DEF Row
  <1> QED BY <1>4, <1>5, <1>p, Zenon DEF Held

LEMMA UnlockHeld ==
  ASSUME NEW ls, Normal(ls), NEW c, IsRange(c), NEW f, NEW o, NEW b \in Bytes
  PROVE  HeldAt(Unlocked(ls, c), f, b, o) = IF About(c, f, o, b) THEN "none" ELSE HeldAt(ls, f, b, o)
  <1>1. PICK un : un = Unlocked(ls, c) BY Zenon
  <1>2. Normal(un) BY <1>1, UnlockNormal, Zenon
  <1>3. \A k : Has(un, f, o, b, k) <=> Has(ls, f, o, b, k) /\ ~About(c, f, o, b)
    BY <1>1, UnlockBytes, Zenon DEF Bytes
  <1>4. CASE About(c, f, o, b) BY <1>1, <1>2, <1>3, <1>4, HeldNone, Zenon
  <1>5. CASE ~About(c, f, o, b)
    <2>1. \A k \in {"R", "W"} : Has(un, f, o, b, k) <=> Has(ls, f, o, b, k) BY <1>3, <1>5, Zenon
    <2> QED BY <1>1, <1>2, <1>5, <2>1, HeldSame
  <1> QED BY <1>4, <1>5, Zenon

LEMMA LockHeld ==
  ASSUME NEW ls, Normal(ls), NEW c, IsLock(c), NEW f, NEW o, NEW b \in Bytes
  PROVE  HeldAt(Locked(ls, c), f, b, o) = IF About(c, f, o, b) THEN c.kind ELSE HeldAt(ls, f, b, o)
  <1>1. PICK lk : lk = Locked(ls, c) BY Zenon
  <1>2. Normal(lk) BY <1>1, LockNormal, Zenon
  <1>3. \A k : Has(lk, f, o, b, k) <=> IF About(c, f, o, b) THEN k = c.kind ELSE Has(ls, f, o, b, k)
    BY <1>1, LockBytes, Zenon DEF Bytes
  <1>4. CASE About(c, f, o, b)
    <2>1. c.kind \in {"R", "W"} BY Zenon DEF IsLock
    <2>2. Has(lk, f, o, b, c.kind) BY <1>3, <1>4, Zenon
    <2> QED BY <1>1, <1>2, <1>4, <2>1, <2>2, HeldIs, Zenon
  <1>5. CASE ~About(c, f, o, b)
    <2>1. \A k \in {"R", "W"} : Has(lk, f, o, b, k) <=> Has(ls, f, o, b, k) BY <1>3, <1>5, Zenon
    <2> QED BY <1>1, <1>2, <1>5, <2>1, HeldSame
  <1> QED BY <1>4, <1>5, Zenon

\* Locks go away with their owners, everywhere or in one file.
LEMMA RemoveHeld ==
  ASSUME NEW ls, Normal(ls), NEW Fs, NEW Os,
         NEW ms, ms = ls \ {l \in ls : l.file \in Fs /\ l.owner \in Os},
         NEW f, NEW o, NEW b \in Bytes
  PROVE  HeldAt(ms, f, b, o) = IF f \in Fs /\ o \in Os THEN "none" ELSE HeldAt(ls, f, b, o)
  <1>1. Normal(ms) BY Zenon DEF Normal
  <1>2. \A k : Has(ms, f, o, b, k) <=> Has(ls, f, o, b, k) /\ ~(f \in Fs /\ o \in Os)
    BY Zenon DEF Has
  <1>3. CASE f \in Fs /\ o \in Os BY <1>1, <1>2, <1>3, HeldNone, Zenon
  <1>4. CASE ~(f \in Fs /\ o \in Os)
    <2>1. \A k \in {"R", "W"} : Has(ms, f, o, b, k) <=> Has(ls, f, o, b, k) BY <1>2, <1>4, Zenon
    <2> QED BY <1>1, <1>4, <2>1, HeldSame
  <1> QED BY <1>3, <1>4, Zenon

-----------------------------------------------------------------------------
(* The same on the byte locks *)

LEMMA ByteHeldIs == ByteHeld = Held(locks) /\ ByteHeld' = Held(locks')
  BY Zenon DEF ByteHeld, Held, Row, Cell, Bytes

LEMMA BytePut ==
  ASSUME NEW f \in Files, NEW o \in Owners, NEW S, NEW k, Changes(locks, locks', f, o, S, k)
  PROVE  Byte!Put(f, o, S, k)
  <1>1. PICK ls, ms : ls = locks /\ ms = locks' BY Zenon
  <1>2. Changes(ls, ms, f, o, S, k) BY <1>1, Zenon DEF Changes
  <1>3. Held(ms) = [Held(ls) EXCEPT ![f] = PutRow(ls, f, o, S, k)] BY <1>2, PutIs
  <1> QED BY <1>1, <1>3, ByteHeldIs, Zenon DEF Byte!Put, Bytes, PutRow

LEMMA ByteUnlock ==
  ASSUME Normal(locks), NEW c, IsRange(c), c.file \in Files, c.owner \in Owners,
         locks' = Unlocked(locks, c)
  PROVE  Byte!Clear(c.file, c.owner, Byte!Range(c.lo, c.hi))
  <1>1. \A g \in Files, b \in Bytes, p \in Owners :
           HeldAt(locks', g, b, p) = IF g = c.file /\ p = c.owner /\ b \in Byte!Range(c.lo, c.hi)
                                     THEN "none" ELSE HeldAt(locks, g, b, p)
    BY UnlockHeld DEF About, Covers, Byte!Range, Bytes
  <1> QED BY <1>1, BytePut, Zenon DEF Byte!Clear, Changes

LEMMA ByteLock ==
  ASSUME Normal(locks), NEW c, IsLock(c), Free(locks, c), locks' = Locked(locks, c)
  PROVE  Byte!SetLock(c.file, c.owner, Byte!Range(c.lo, c.hi), c.kind)
  <1>0. c.file \in Files /\ c.owner \in Owners BY Zenon DEF IsLock
  <1>1. \A g \in Files, b \in Bytes, p \in Owners :
           HeldAt(locks', g, b, p) = IF g = c.file /\ p = c.owner /\ b \in Byte!Range(c.lo, c.hi)
                                     THEN c.kind ELSE HeldAt(locks, g, b, p)
    BY LockHeld DEF About, Covers, Byte!Range, Bytes
  <1>2. Byte!Put(c.file, c.owner, Byte!Range(c.lo, c.hi), c.kind)
    BY <1>0, <1>1, BytePut, Zenon DEF Changes
  <1>3. ASSUME NEW b \in Byte!Range(c.lo, c.hi), NEW p \in Owners \ {c.owner}
        PROVE  Byte!Compatible(c.kind, ByteHeld[c.file][b][p])
    <2>1. b \in Bytes /\ Covers(c, b) BY Zenon DEF Byte!Range, Bytes, Covers
    <2>2. ByteHeld[c.file][b][p] = HeldAt(locks, c.file, b, p)
      BY <1>0, <2>1, ByteHeldIs, Zenon DEF Held, Row, Cell
    <2>3. PICK x : x = HeldAt(locks, c.file, b, p) BY Zenon
    <2>4. x \in {"R", "W", "none"} /\ \A k \in {"R", "W"} : x = k <=> Has(locks, c.file, p, b, k)
      BY <2>1, <2>3, HeldIs, Zenon
    <2>5. \A j : Has(locks, c.file, p, b, j) => ~KindsConflict(j, c.kind)
      BY <2>1, FreeBytes, Zenon DEF Bytes
    <2> QED BY <2>2, <2>3, <2>4, <2>5, Zenon DEF Byte!Compatible, KindsConflict
  <1> QED BY <1>2, <1>3, Zenon DEF Byte!SetLock

LEMMA ByteRelease ==
  ASSUME Normal(locks), NEW f \in Files, NEW o \in Owners,
         locks' = locks \ {l \in locks : l.file = f /\ l.owner = o}
  PROVE  Byte!Clear(f, o, Byte!Range(0, Inf))
  <1>1. PICK ms, Fs, Os : ms = locks' /\ Fs = {f} /\ Os = {o} BY Zenon
  <1>2. ms = locks \ {l \in locks : l.file \in Fs /\ l.owner \in Os} BY <1>1, Zenon
  <1>3. \A g, p : \A b \in Bytes :
           HeldAt(ms, g, b, p) = IF g \in Fs /\ p \in Os THEN "none" ELSE HeldAt(locks, g, b, p)
    BY <1>2, RemoveHeld
  <1>4. \A b \in Bytes : b \in Byte!Range(0, Inf) BY FlocksAssumption DEF Byte!Range, Bytes
  <1>5. \A g \in Files, b \in Bytes, p \in Owners :
           HeldAt(locks', g, b, p) = IF g = f /\ p = o /\ b \in Byte!Range(0, Inf)
                                     THEN "none" ELSE HeldAt(locks, g, b, p)
    BY <1>1, <1>3, <1>4
  <1> QED BY <1>5, BytePut, Zenon DEF Byte!Clear, Changes

LEMMA ByteReleaseAll ==
  ASSUME Normal(locks), NEW Os \in SUBSET Owners,
         locks' = locks \ {l \in locks : l.owner \in Os}
  PROVE  Byte!ClearAll(Os)
  <1>1. PICK ms : ms = locks' BY Zenon
  <1>2. ms = locks \ {l \in locks : l.file \in Files /\ l.owner \in Os}
    BY <1>1, Positions, Zenon DEF Normal
  <1>3. \A g \in Files, p \in Owners, b \in Bytes :
           HeldAt(ms, g, b, p) = IF p \in Os THEN "none" ELSE HeldAt(locks, g, b, p)
    BY <1>2, RemoveHeld
  <1>4. \A g \in Files, b \in Bytes :
           Cell(ms, g, b) = [p \in Owners |-> IF p \in Os THEN "none" ELSE Held(locks)[g][b][p]]
    <2> TAKE g \in Files, b \in Bytes
    <2>1. \A p \in Owners : Held(locks)[g][b][p] = HeldAt(locks, g, b, p) BY Zenon DEF Held, Row, Cell
    <2> QED BY <1>3, <2>1, Zenon DEF Cell
  <1>5. \A g \in Files :
           Row(ms, g) = [b \in Bytes |-> [p \in Owners |->
                            IF p \in Os THEN "none" ELSE Held(locks)[g][b][p]]]
    BY <1>4, Zenon DEF Row
  <1>6. Held(ms) = [g \in Files |-> [b \in Bytes |-> [p \in Owners |->
                            IF p \in Os THEN "none" ELSE Held(locks)[g][b][p]]]]
    BY <1>5, Zenon DEF Held
  <1> QED BY <1>1, <1>6, ByteHeldIs DEF Byte!ClearAll, Bytes

-----------------------------------------------------------------------------
(* Calls *)

FcntlPcs == {"apply", "done", "check", "register", "sleep", "asleep", "reenter", "unlock", "wake"}
FlockPcs == {"release", "convert", "try", "sleep", "asleep", "reenter"}

\* An fcntl() call has a range, and only F_UNLCK has none to lock; a caller
\* about to wait has met another owner.
FcntlRec ==
    [pc : FcntlPcs, api : {"fcntl"}, o : Ofds, file : Files, kind : {"R", "W", "U"},
     lo : 0..(Inf - 1), hi : 1..Inf, owner : Owners, wait : BOOLEAN, on : Owners \cup {None}]
FcntlCalls ==
    {c \in FcntlRec : /\ c.lo < c.hi
                      /\ c.kind = "U" <=> c.pc \in {"unlock", "wake"}
                      /\ c.pc \in {"check", "register"} => c.on \in Owners
                      /\ c.pc = "register" => c.on # c.owner}

FlockRec ==
    [pc : FlockPcs, api : {"flock"}, o : Ofds, file : Files, kind : {"R", "W", "U"},
     owner : Ofds, wait : BOOLEAN]
FlockCalls == {c \in FlockRec : c.kind = "U" <=> c.pc = "release"}

CloseCalls == [pc : {"posix", "drop"}, api : {"close"}, o : Ofds, file : Files]
EndCalls == [pc : {"idle", "exit", "gone"}]

Calls == FcntlCalls \cup FlockCalls \cup CloseCalls \cup EndCalls

LEMMA KindOfCall ==
  ASSUME NEW c \in Calls
  PROVE  /\ c.pc \in {"apply", "done", "check", "register", "unlock", "wake"} => c \in FcntlCalls
         /\ c.pc \in {"release", "convert", "try"} => c \in FlockCalls
         /\ c.pc \in {"posix", "drop"} => c \in CloseCalls
         /\ c.pc \in {"idle", "exit", "gone"} => c \in EndCalls
         /\ c.pc \in {"sleep", "asleep", "reenter"} =>
               \/ c \in FcntlCalls /\ c.api = "fcntl"
               \/ c \in FlockCalls /\ c.api = "flock"
  BY Zenon DEF Calls, FcntlCalls, FlockCalls, FcntlRec, FlockRec, CloseCalls, EndCalls, FcntlPcs, FlockPcs

LEMMA FcntlFields ==
  ASSUME NEW c \in FcntlCalls
  PROVE  /\ IsRange(c) /\ c.file \in Files /\ c.owner \in Owners /\ c.pc # "idle"
         /\ c.pc \notin {"unlock", "wake"} => IsLock(c)
         /\ c.pc \in {"check", "register"} => c.on \in Owners
         /\ c.pc = "register" => c.on # c.owner
  BY Zenon DEF FcntlCalls, FcntlRec, FcntlPcs, IsRange, IsLock

LEMMA FcntlGoto ==
  ASSUME NEW c \in FcntlCalls, NEW pc \in FcntlPcs,
         c.pc \in {"unlock", "wake"} <=> pc \in {"unlock", "wake"},
         pc \in {"check", "register"} => c.on \in Owners,
         pc = "register" => c.on # c.owner
  PROVE  [c EXCEPT !.pc = pc] \in FcntlCalls
  <1>1. PICK d : d = [c EXCEPT !.pc = pc] BY Zenon
  <1>2. c \in FcntlRec BY Zenon DEF FcntlCalls
  <1>3. d \in FcntlRec BY <1>1, <1>2, Zenon DEF FcntlRec
  <1>4. /\ d.pc = pc /\ d.lo = c.lo /\ d.hi = c.hi /\ d.kind = c.kind /\ d.on = c.on
        /\ d.owner = c.owner
    BY <1>1, <1>2, Zenon DEF FcntlRec
  <1> QED BY <1>1, <1>3, <1>4, Zenon DEF FcntlCalls

LEMMA FcntlMeets ==
  ASSUME NEW c \in FcntlCalls, c.pc = "apply", NEW o \in Owners, NEW pc \in {"done", "sleep", "check"}
  PROVE  [c EXCEPT !.on = o, !.pc = pc] \in FcntlCalls
  <1>1. PICK d : d = [c EXCEPT !.on = o, !.pc = pc] BY Zenon
  <1>2. c \in FcntlRec BY Zenon DEF FcntlCalls
  <1>3. d \in FcntlRec BY <1>1, <1>2, Zenon DEF FcntlRec, FcntlPcs
  <1>4. /\ d.pc = pc /\ d.lo = c.lo /\ d.hi = c.hi /\ d.kind = c.kind /\ d.on = o
        /\ d.owner = c.owner
    BY <1>1, <1>2, Zenon DEF FcntlRec
  <1> QED BY <1>1, <1>3, <1>4, Zenon DEF FcntlCalls

LEMMA FlockFields ==
  ASSUME NEW c \in FlockCalls
  PROVE  /\ c.file \in Files /\ c.owner \in Ofds /\ c.pc # "idle"
         /\ c.pc # "release" => c.kind \in {"R", "W"}
  BY Zenon DEF FlockCalls, FlockRec, FlockPcs

LEMMA FlockGoto ==
  ASSUME NEW c \in FlockCalls, NEW pc \in FlockPcs, c.pc # "release", pc # "release"
  PROVE  [c EXCEPT !.pc = pc] \in FlockCalls
  <1>1. PICK d : d = [c EXCEPT !.pc = pc] BY Zenon
  <1>2. c \in FlockRec BY Zenon DEF FlockCalls
  <1>3. d \in FlockRec BY <1>1, <1>2, Zenon DEF FlockRec
  <1>4. d.pc = pc /\ d.kind = c.kind BY <1>1, <1>2, Zenon DEF FlockRec
  <1> QED BY <1>1, <1>3, <1>4, Zenon DEF FlockCalls

LEMMA IdleCall == Idle \in Calls /\ Idle.pc = "idle"
  BY Zenon DEF Idle, Calls, EndCalls

\* Where a sleeper goes when it is woken.
Again(c) == IF parks THEN "reenter" ELSE IF c.api = "fcntl" THEN "apply" ELSE "try"

LEMMA WokenCall ==
  ASSUME NEW c \in Calls, c.pc = "asleep", NEW pc, pc = Again(c)
  PROVE  [c EXCEPT !.pc = pc] \in Calls /\ [c EXCEPT !.pc = pc].pc # "asleep"
  <1>1. \/ c \in FcntlCalls /\ c.api = "fcntl"
        \/ c \in FlockCalls /\ c.api = "flock"
    BY KindOfCall, Zenon
  <1>2. CASE c \in FcntlCalls /\ c.api = "fcntl"
    <2>1. pc \in {"reenter", "apply"} BY <1>2, Zenon DEF Again
    <2>2. [c EXCEPT !.pc = pc] \in FcntlCalls BY <1>2, <2>1, FcntlGoto, Zenon DEF FcntlPcs
    <2>3. [c EXCEPT !.pc = pc].pc = pc BY <1>2, Zenon DEF FcntlCalls, FcntlRec
    <2> QED BY <2>1, <2>2, <2>3, Zenon DEF Calls
  <1>3. CASE c \in FlockCalls /\ c.api = "flock"
    <2>1. pc \in {"reenter", "try"} BY <1>3, Zenon DEF Again
    <2>2. [c EXCEPT !.pc = pc] \in FlockCalls BY <1>3, <2>1, FlockGoto, Zenon DEF FlockPcs
    <2>3. [c EXCEPT !.pc = pc].pc = pc BY <1>3, Zenon DEF FlockCalls, FlockRec
    <2> QED BY <2>1, <2>2, <2>3, Zenon DEF Calls
  <1> QED BY <1>1, <1>2, <1>3, Zenon

\* wake_file_lock_waiters(): who still sleeps afterwards slept before, and on
\* another file.
LEMMA WokenCalls ==
  ASSUME NEW cs \in [Threads -> Calls], NEW fs, NEW ds, ds = Woken(fs, cs)
  PROVE  /\ ds \in [Threads -> Calls]
         /\ \A t \in Threads : ds[t].pc = "asleep" => ds[t] = cs[t] /\ cs[t].file \notin fs
         /\ \A t \in Threads : cs[t].pc # "asleep" => ds[t] = cs[t]
  <1>1. \A t \in Threads : ds[t] = IF cs[t].pc = "asleep" /\ cs[t].file \in fs
                                   THEN [cs[t] EXCEPT !.pc = Again(cs[t])] ELSE cs[t]
    BY Zenon DEF Woken, Again
  <1>2. ASSUME NEW t \in Threads
        PROVE  /\ ds[t] \in Calls
               /\ ds[t].pc = "asleep" => ds[t] = cs[t] /\ cs[t].file \notin fs
               /\ cs[t].pc # "asleep" => ds[t] = cs[t]
    <2>1. CASE cs[t].pc = "asleep" /\ cs[t].file \in fs
      <3>1. PICK pc : pc = Again(cs[t]) BY Zenon
      <3>2. ds[t] = [cs[t] EXCEPT !.pc = pc] BY <1>1, <2>1, <3>1, Zenon
      <3>3. cs[t] \in Calls BY Zenon
      <3> QED BY <2>1, <3>1, <3>2, <3>3, WokenCall
    <2>2. CASE ~(cs[t].pc = "asleep" /\ cs[t].file \in fs) BY <1>1, <2>2, Zenon
    <2> QED BY <2>1, <2>2, Zenon
  <1>3. ds = [t \in Threads |-> ds[t]] BY Zenon DEF Woken
  <1> QED BY <1>2, <1>3, Zenon

-----------------------------------------------------------------------------
(* The invariant, and what a step shows to others *)

WholeRec == [file : Files, owner : Ofds, kind : {"R", "W"}]

WholeOK ==
    /\ whole \subseteq WholeRec
    /\ \A l, m \in whole : l.file = m.file /\ l.owner # m.owner => ~KindsConflict(l.kind, m.kind)

WaitOK ==
    /\ waitFor \in [Owners -> Owners \cup {None}]
    /\ \A o \in Owners : waitFor[o] \in (Owners \ {o}) \cup {None}

TableOK == table \in [Procs -> [Ofds -> 0..MaxDup]]

LockInv ==
    /\ Normal(locks) /\ Compatible(locks)
    /\ WholeOK /\ WaitOK /\ TableOK
    /\ call \in [Threads -> Calls]

\* Who sleeps on keeps its call.
SleepersStay ==
    \A t \in Threads : call[t].pc = "asleep" /\ call'[t].pc = "asleep" => call'[t] = call[t]

\* No lock goes away on the file of somebody who sleeps on.
SleepersTold ==
    \A t \in Threads : call[t].pc = "asleep" /\ call'[t].pc = "asleep" =>
        \A l \in (locks \ locks') \cup (whole \ whole') : l.file # call[t].file

Effect ==
    /\ Byte!Next \/ UNCHANGED ByteHeld
    /\ SleepersStay
    /\ SleepersTold \/ \E s \in Threads : call[s].pc \in {"apply", "convert", "unlock"}

LEMMA SameBytes == locks' = locks => UNCHANGED ByteHeld
  BY ByteHeldIs, Zenon

\* A step that leaves both lock tables alone.
LEMMA QuietStep ==
  ASSUME LockInv, UNCHANGED <<locks, whole>>, WaitOK', TableOK', call' \in [Threads -> Calls],
         SleepersStay
  PROVE  LockInv' /\ Effect
  <1>1. (Normal(locks) /\ Compatible(locks))' BY Zenon DEF LockInv
  <1>2. WholeOK' BY Zenon DEF LockInv, WholeOK
  <1>3. SleepersTold BY Zenon DEF SleepersTold
  <1> QED BY <1>1, <1>2, <1>3, SameBytes, Zenon DEF LockInv, Effect

\* The caller goes on to d, and the sleepers with it.
LEMMA CallStep ==
  ASSUME LockInv, NEW t \in Threads, NEW d \in Calls, call' = [call EXCEPT ![t] = d],
         call[t].pc # "asleep" \/ d.pc # "asleep"
  PROVE  call' \in [Threads -> Calls] /\ SleepersStay
  BY Zenon DEF LockInv, SleepersStay

LEMMA StillWaits ==
  ASSUME LockInv, NEW o, waitFor' = [waitFor EXCEPT ![o] = None]
  PROVE  WaitOK'
  BY Zenon DEF LockInv, WaitOK

LEMMA StillTable ==
  ASSUME LockInv, UNCHANGED table
  PROVE  TableOK'
  BY Zenon DEF LockInv, TableOK

LEMMA StillWaiting ==
  ASSUME LockInv, UNCHANGED waitFor
  PROVE  WaitOK'
  BY Zenon DEF LockInv, WaitOK

LEMMA Posix ==
  ASSUME NEW t \in Threads
  PROVE  <<"posix", ProcOf[t]>> \in Owners /\ ProcOf[t] \in Procs
  BY Zenon DEF Owners, Procs

LEMMA NextClear ==
  ASSUME NEW f \in Files, NEW o \in Owners, NEW lo \in Bytes, NEW hi \in 1..Inf,
         Byte!Clear(f, o, Byte!Range(lo, hi))
  PROVE  Byte!Next
  <1>1. hi - 1 \in Bytes /\ hi = (hi - 1) + 1 BY FlocksAssumption DEF Bytes
  <1>2. hi \in {b + 1 : b \in Bytes} BY <1>1, Zenon
  <1> QED BY <1>2, Zenon DEF Byte!Next, Bytes

LEMMA NextSet ==
  ASSUME NEW c, IsLock(c), Byte!SetLock(c.file, c.owner, Byte!Range(c.lo, c.hi), c.kind)
  PROVE  Byte!Next
  <1>0. /\ c.lo \in Bytes /\ c.hi \in 1..Inf /\ c.file \in Files /\ c.owner \in Owners
        /\ c.kind \in {"R", "W"}
    BY Zenon DEF IsLock, IsRange, Bytes
  <1>1. c.hi - 1 \in Bytes /\ c.hi = (c.hi - 1) + 1 BY <1>0, FlocksAssumption DEF Bytes
  <1>2. c.hi \in {b + 1 : b \in Bytes} BY <1>1, Zenon
  <1> QED BY <1>0, <1>2, Zenon DEF Byte!Next, Bytes

-----------------------------------------------------------------------------
(* fcntl() *)

\* flock_range() gives ranges.
LEMMA RangeOfFlock ==
  ASSUME NEW fl \in Flocks, NEW r \in LockRange(fl)
  PROVE  IsRange(r)
  <1>1. /\ fl.whence \in 0..2 /\ fl.start \in Int /\ fl.len \in Int
        /\ Offset \in Nat /\ Size \in Nat /\ Inf \in Nat
        /\ LockBase(fl) + fl.start < Inf /\ LockBase(fl) + fl.start + fl.len <= Inf
    BY FlocksAssumption, Zenon
  <1>2. LockBase(fl) \in Int BY <1>1 DEF LockBase
  <1>3. PICK at \in Int : at = LockBase(fl) + fl.start BY <1>1, <1>2
  <1>4. at < Inf /\ at + fl.len <= Inf BY <1>1, <1>3, Zenon
  <1>5. /\ r = CASE fl.len > 0 -> [lo |-> at, hi |-> at + fl.len]
                 [] fl.len = 0 -> [lo |-> at, hi |-> Inf]
                 [] fl.len < 0 -> [lo |-> at + fl.len, hi |-> at]
        /\ r.lo >= 0
    BY <1>2, <1>3, Zenon DEF LockRange
  <1>6. CASE fl.len > 0
    <2>1. r = [lo |-> at, hi |-> at + fl.len] BY <1>1, <1>5, <1>6
    <2> QED BY <1>1, <1>4, <1>5, <1>6, <2>1 DEF IsRange
  <1>7. CASE fl.len = 0
    <2>1. r = [lo |-> at, hi |-> Inf] BY <1>1, <1>5, <1>7
    <2> QED BY <1>1, <1>4, <1>5, <1>7, <2>1 DEF IsRange
  <1>8. CASE fl.len < 0
    <2>1. r = [lo |-> at + fl.len, hi |-> at] BY <1>1, <1>5, <1>8
    <2> QED BY <1>1, <1>4, <1>5, <1>8, <2>1 DEF IsRange
  <1> QED BY <1>1, <1>6, <1>7, <1>8

LEMMA FcntlStep ==
  ASSUME LockInv, NEW t \in Threads, NEW o \in Ofds, NEW fl \in Flocks, Fcntl(t, o, fl)
  PROVE  LockInv' /\ Effect
  <1>1. PICK r \in LockRange(fl) :
          call' = [call EXCEPT ![t] =
            [pc |-> IF fl.type = "U" THEN "unlock" ELSE "apply", api |-> "fcntl",
             o |-> o, file |-> FileOf[o], kind |-> fl.type, lo |-> r.lo, hi |-> r.hi,
             owner |-> IF fl.ofd THEN <<"ofd", o>> ELSE <<"posix", ProcOf[t]>>,
             wait |-> fl.wait, on |-> None]]
    BY Zenon DEF Fcntl
  <1>2. IsRange(r) BY RangeOfFlock, Zenon
  <1>3. fl.type \in {"R", "W", "U"} /\ fl.wait \in BOOLEAN BY FlocksAssumption, Zenon
  <1>4. PICK ow \in Owners : ow = IF fl.ofd THEN <<"ofd", o>> ELSE <<"posix", ProcOf[t]>>
    BY Posix, Zenon DEF Owners
  <1>5. PICK pc \in {"unlock", "apply"} : pc = IF fl.type = "U" THEN "unlock" ELSE "apply"
    BY Zenon
  <1>6. PICK d : d = [pc |-> pc, api |-> "fcntl", o |-> o, file |-> FileOf[o], kind |-> fl.type,
                      lo |-> r.lo, hi |-> r.hi, owner |-> ow, wait |-> fl.wait, on |-> None]
    BY Zenon
  <1>7. d \in FcntlCalls BY <1>2, <1>3, <1>5, <1>6, Zenon DEF FcntlCalls, FcntlRec, FcntlPcs, IsRange, Files
  <1>8. call' = [call EXCEPT ![t] = d] BY <1>1, <1>4, <1>5, <1>6, Zenon
  <1>9. call[t].pc = "idle" /\ UNCHANGED <<locks, waitFor, whole, table>> BY Zenon DEF Fcntl
  <1>10. d \in Calls BY <1>7, Zenon DEF Calls
  <1>11. call' \in [Threads -> Calls] /\ SleepersStay BY <1>8, <1>9, <1>10, CallStep, Zenon
  <1> QED BY <1>9, <1>11, QuietStep, StillTable, StillWaiting, Zenon

LEMMA ApplyLockStep ==
  ASSUME LockInv, NEW t \in Threads, ApplyLock(t)
  PROVE  LockInv' /\ Effect
  <1>1. PICK c : c = call[t] BY Zenon
  <1>2. c \in Calls /\ c.pc = "apply" /\ UNCHANGED <<waitFor, whole, table>>
    BY <1>1, Zenon DEF LockInv, ApplyLock
  <1>3. c \in FcntlCalls BY <1>2, KindOfCall, Zenon
  <1>4. IsLock(c) BY <1>2, <1>3, FcntlFields, Zenon
  <1>5. \E s \in Threads : call[s].pc \in {"apply", "convert", "unlock"} BY <1>1, <1>2, Zenon
  <1>6. CASE Conflicts(c) = {}
    <2>1. locks' = Locked(locks, c) /\ call' = [call EXCEPT ![t] = [c EXCEPT !.pc = "done"]]
      BY <1>1, <1>6, Zenon DEF ApplyLock, LockGoto, Locked
    <2>2. Free(locks, c) BY <1>6, Zenon DEF Free, Conflicts
    <2>3. Normal(locks) /\ Compatible(locks) BY Zenon DEF LockInv
    <2>4. PICK ms : ms = locks' BY Zenon
    <2>5. Normal(ms) /\ Compatible(ms) BY <1>4, <2>1, <2>2, <2>3, <2>4, LockNormal, LockCompatible, Zenon
    <2>6. Byte!Next BY <1>4, <2>1, <2>2, <2>3, ByteLock, NextSet, Zenon
    <2>7. [c EXCEPT !.pc = "done"] \in FcntlCalls BY <1>2, <1>3, FcntlGoto, Zenon DEF FcntlPcs
    <2>8. PICK d \in Calls : d = [c EXCEPT !.pc = "done"] BY <2>7, Zenon DEF Calls
    <2>9. call' \in [Threads -> Calls] /\ SleepersStay BY <1>1, <1>2, <2>1, <2>8, CallStep, Zenon
    <2>10. WholeOK' BY <1>2, Zenon DEF LockInv, WholeOK
    <2>11. Normal(locks)' /\ Compatible(locks)' BY <2>4, <2>5, Zenon
    <2> QED BY <1>2, <1>5, <2>6, <2>9, <2>10, <2>11, StillTable, StillWaiting, Zenon DEF LockInv, Effect
  <1>7. CASE Conflicts(c) # {}
    <2>1. PICK l \in FirstConflicts(c) :
            /\ call' = [call EXCEPT ![t].on = l.owner,
                                    ![t].pc = IF ~c.wait THEN "done"
                                              ELSE IF c.owner[1] = "ofd" THEN "sleep" ELSE "check"]
            /\ UNCHANGED locks
      BY <1>1, <1>7, Zenon DEF ApplyLock
    <2>2. l \in locks BY Zenon DEF FirstConflicts, Conflicts
    <2>3. l.owner \in Owners BY <2>2, Positions, Zenon DEF LockInv, Normal
    <2>4. PICK pc \in {"done", "sleep", "check"} :
            pc = IF ~c.wait THEN "done" ELSE IF c.owner[1] = "ofd" THEN "sleep" ELSE "check"
      BY Zenon
    <2>5. [c EXCEPT !.on = l.owner, !.pc = pc] \in FcntlCalls BY <1>2, <1>3, <2>3, FcntlMeets, Zenon
    <2>6. PICK d \in Calls : d = [c EXCEPT !.on = l.owner, !.pc = pc] BY <2>5, Zenon DEF Calls
    <2>7. call' = [call EXCEPT ![t] = d] BY <1>1, <2>1, <2>4, <2>6, Zenon DEF LockInv
    <2>8. call' \in [Threads -> Calls] /\ SleepersStay BY <1>1, <1>2, <2>7, CallStep, Zenon
    <2> QED BY <1>2, <2>1, <2>8, QuietStep, StillTable, StillWaiting, Zenon
  <1> QED BY <1>6, <1>7, Zenon

\* The steps of an fcntl() call between its looks at the table.
LEMMA GotoStep ==
  ASSUME LockInv, NEW t \in Threads, NEW pc \in FcntlPcs,
         call[t] \in FcntlCalls, LockGoto(t, pc), call[t].pc # "asleep" \/ pc # "asleep",
         call[t].pc \in {"unlock", "wake"} <=> pc \in {"unlock", "wake"},
         pc \in {"check", "register"} => call[t].on \in Owners,
         pc = "register" => call[t].on # call[t].owner
  PROVE  call' \in [Threads -> Calls] /\ SleepersStay
  <1>1. PICK c \in FcntlCalls : c = call[t] BY Zenon
  <1>2. [c EXCEPT !.pc = pc] \in FcntlCalls BY <1>1, FcntlGoto, Zenon
  <1>3. PICK d \in Calls : d = [c EXCEPT !.pc = pc] BY <1>2, Zenon DEF Calls
  <1>4. d.pc = pc BY <1>1, <1>3, Zenon DEF FcntlCalls, FcntlRec
  <1>5. call' = [call EXCEPT ![t] = d] BY <1>1, <1>3, Zenon DEF LockGoto
  <1> QED BY <1>1, <1>4, <1>5, CallStep, Zenon

LEMMA FlockGotoStep ==
  ASSUME LockInv, NEW t \in Threads, NEW pc \in FlockPcs,
         call[t] \in FlockCalls, LockGoto(t, pc), call[t].pc # "asleep" \/ pc # "asleep",
         call[t].pc # "release", pc # "release"
  PROVE  call' \in [Threads -> Calls] /\ SleepersStay
  <1>1. PICK c \in FlockCalls : c = call[t] BY Zenon
  <1>2. [c EXCEPT !.pc = pc] \in FlockCalls BY <1>1, FlockGoto, Zenon
  <1>3. PICK d \in Calls : d = [c EXCEPT !.pc = pc] BY <1>2, Zenon DEF Calls
  <1>4. d.pc = pc BY <1>1, <1>3, Zenon DEF FlockCalls, FlockRec
  <1>5. call' = [call EXCEPT ![t] = d] BY <1>1, <1>3, Zenon DEF LockGoto
  <1> QED BY <1>1, <1>4, <1>5, CallStep, Zenon

LEMMA ReturnStep ==
  ASSUME LockInv, NEW t \in Threads, Return(t)
  PROVE  call' \in [Threads -> Calls] /\ SleepersStay
  <1>1. PICK d \in Calls : d = Idle /\ d.pc = "idle" BY IdleCall, Zenon
  <1>2. call' = [call EXCEPT ![t] = d] BY <1>1, Zenon DEF Return
  <1> QED BY <1>1, <1>2, CallStep, Zenon

LEMMA DoneStep ==
  ASSUME LockInv, NEW t \in Threads, Done(t)
  PROVE  LockInv' /\ Effect
  <1>1. WaitOK' BY StillWaits, Zenon DEF Done
  <1>2. Return(t) /\ UNCHANGED <<locks, whole, table>> BY Zenon DEF Done
  <1> QED BY <1>1, <1>2, ReturnStep, QuietStep, StillTable, Zenon

LEMMA CheckDeadlockStep ==
  ASSUME LockInv, NEW t \in Threads, CheckDeadlock(t)
  PROVE  LockInv' /\ Effect
  <1>1. call[t].pc = "check" /\ UNCHANGED <<locks, waitFor, whole, table>> BY Zenon DEF CheckDeadlock
  <1>2. call[t] \in FcntlCalls BY <1>1, KindOfCall, Zenon DEF LockInv
  <1>3. call[t].on \in Owners BY <1>1, <1>2, FcntlFields, Zenon
  <1>4. PICK pc \in {"done", "register"} :
          LockGoto(t, pc) /\ (pc = "register" => call[t].on # call[t].owner)
    BY Zenon DEF CheckDeadlock
  <1>5. pc \in FcntlPcs BY Zenon DEF FcntlPcs
  <1>6. call' \in [Threads -> Calls] /\ SleepersStay BY <1>1, <1>2, <1>3, <1>4, <1>5, GotoStep, Zenon
  <1> QED BY <1>1, <1>6, QuietStep, StillTable, StillWaiting, Zenon

LEMMA SetWaiterStep ==
  ASSUME LockInv, NEW t \in Threads, SetWaiter(t)
  PROVE  LockInv' /\ Effect
  <1>1. call[t].pc = "register" /\ UNCHANGED <<locks, whole, table>> BY Zenon DEF SetWaiter
  <1>2. call[t] \in FcntlCalls BY <1>1, KindOfCall, Zenon DEF LockInv
  <1>3. call[t].on \in Owners /\ call[t].on # call[t].owner BY <1>1, <1>2, FcntlFields, Zenon
  <1>4. WaitOK' BY <1>3, Zenon DEF LockInv, WaitOK, SetWaiter
  <1>5. LockGoto(t, "sleep") BY Zenon DEF SetWaiter
  <1>6. call' \in [Threads -> Calls] /\ SleepersStay BY <1>1, <1>2, <1>5, GotoStep, Zenon DEF FcntlPcs
  <1> QED BY <1>1, <1>4, <1>6, QuietStep, StillTable, Zenon

LEMMA SleepOnLockStep ==
  ASSUME LockInv, NEW t \in Threads, SleepOnLock(t)
  PROVE  LockInv' /\ Effect
  <1>1. call[t].pc = "sleep" /\ UNCHANGED <<locks, waitFor, whole, table>> BY Zenon DEF SleepOnLock
  <1> SUFFICES call' \in [Threads -> Calls] /\ SleepersStay
    BY <1>1, QuietStep, StillTable, StillWaiting, Zenon
  <1>2. \/ call[t] \in FcntlCalls /\ call[t].api = "fcntl"
        \/ call[t] \in FlockCalls /\ call[t].api = "flock"
    BY <1>1, KindOfCall, Zenon DEF LockInv
  <1>3. CASE call[t] \in FcntlCalls /\ call[t].api = "fcntl"
    <2>1. PICK pc \in {"asleep", "apply"} : LockGoto(t, pc) BY <1>3, Zenon DEF SleepOnLock
    <2> QED BY <1>1, <1>3, <2>1, GotoStep, Zenon DEF FcntlPcs
  <1>4. CASE call[t] \in FlockCalls /\ call[t].api = "flock"
    <2>1. PICK pc \in {"asleep", "try"} : LockGoto(t, pc) BY <1>4, Zenon DEF SleepOnLock
    <2> QED BY <1>1, <1>4, <2>1, FlockGotoStep, Zenon DEF FlockPcs
  <1> QED BY <1>2, <1>3, <1>4, Zenon

LEMMA InterruptLockStep ==
  ASSUME LockInv, NEW t \in Threads, InterruptLock(t)
  PROVE  LockInv' /\ Effect
  <1>1. call[t].pc = "asleep" /\ UNCHANGED <<locks, waitFor, whole, table>> BY Zenon DEF InterruptLock
  <1> SUFFICES call' \in [Threads -> Calls] /\ SleepersStay
    BY <1>1, QuietStep, StillTable, StillWaiting, Zenon
  <1>2. \/ call[t] \in FcntlCalls /\ call[t].api = "fcntl"
        \/ call[t] \in FlockCalls /\ call[t].api = "flock"
    BY <1>1, KindOfCall, Zenon DEF LockInv
  <1>3. CASE call[t] \in FcntlCalls /\ call[t].api = "fcntl"
    <2>1. LockGoto(t, "done") BY <1>3, Zenon DEF InterruptLock
    <2> QED BY <1>1, <1>3, <2>1, GotoStep, Zenon DEF FcntlPcs
  <1>4. CASE call[t] \in FlockCalls /\ call[t].api = "flock"
    <2>1. Return(t) BY <1>4, Zenon DEF InterruptLock
    <2> QED BY <2>1, ReturnStep, Zenon
  <1> QED BY <1>2, <1>3, <1>4

LEMMA ReenterLockStep ==
  ASSUME LockInv, NEW t \in Threads, ReenterLock(t)
  PROVE  LockInv' /\ Effect
  <1>1. call[t].pc = "reenter" /\ UNCHANGED <<locks, waitFor, whole, table>> BY Zenon DEF ReenterLock
  <1> SUFFICES call' \in [Threads -> Calls] /\ SleepersStay
    BY <1>1, QuietStep, StillTable, StillWaiting, Zenon
  <1>2. \/ call[t] \in FcntlCalls /\ call[t].api = "fcntl"
        \/ call[t] \in FlockCalls /\ call[t].api = "flock"
    BY <1>1, KindOfCall, Zenon DEF LockInv
  <1>3. CASE Return(t) BY <1>3, ReturnStep, Zenon
  <1>4. CASE call[t] \in FcntlCalls /\ call[t].api = "fcntl" /\ ~Return(t)
    <2>1. LockGoto(t, "apply") BY <1>4, Zenon DEF ReenterLock
    <2> QED BY <1>1, <1>4, <2>1, GotoStep, Zenon DEF FcntlPcs
  <1>5. CASE call[t] \in FlockCalls /\ call[t].api = "flock" /\ ~Return(t)
    <2>1. LockGoto(t, "convert") BY <1>5, Zenon DEF ReenterLock
    <2> QED BY <1>1, <1>5, <2>1, FlockGotoStep, Zenon DEF FlockPcs
  <1> QED BY <1>2, <1>3, <1>4, <1>5, Zenon

LEMMA ApplyUnlockStep ==
  ASSUME LockInv, NEW t \in Threads, ApplyUnlock(t)
  PROVE  LockInv' /\ Effect
  <1>1. call[t].pc = "unlock" /\ UNCHANGED <<waitFor, whole, table>> BY Zenon DEF ApplyUnlock
  <1>2. call[t] \in FcntlCalls BY <1>1, KindOfCall, Zenon DEF LockInv
  <1>3. IsRange(call[t]) /\ call[t].file \in Files /\ call[t].owner \in Owners BY <1>2, FcntlFields, Zenon
  <1>4. PICK c, ms : c = call[t] /\ ms = locks' BY Zenon
  <1>5. Normal(locks) /\ Compatible(locks) /\ IsRange(c) /\ ms = Unlocked(locks, c)
    BY <1>3, <1>4, Zenon DEF LockInv, ApplyUnlock
  <1>6. Normal(ms) /\ Compatible(ms) BY <1>5, UnlockNormal, UnlockCompatible, Zenon
  <1>7. Byte!Clear(c.file, c.owner, Byte!Range(c.lo, c.hi)) BY <1>3, <1>4, <1>5, ByteUnlock, Zenon
  <1>8. Byte!Next
    <2>1. c.lo \in Bytes /\ c.hi \in 1..Inf /\ c.file \in Files /\ c.owner \in Owners
      BY <1>3, <1>4, Zenon DEF IsRange, Bytes
    <2> QED BY <1>7, <2>1, NextClear, Zenon
  <1>9. LockGoto(t, "wake") BY Zenon DEF ApplyUnlock
  <1>10. call' \in [Threads -> Calls] /\ SleepersStay BY <1>1, <1>2, <1>9, GotoStep, Zenon DEF FcntlPcs
  <1>11. WholeOK' BY <1>1, Zenon DEF LockInv, WholeOK
  <1>12. Normal(locks)' /\ Compatible(locks)' BY <1>4, <1>6, Zenon
  <1> QED BY <1>1, <1>8, <1>10, <1>11, <1>12, StillTable, StillWaiting, Zenon DEF LockInv, Effect

-----------------------------------------------------------------------------
(* Steps that wake *)

\* The caller went on to cs, and the sleepers on the files fs are woken.
LEMMA WakeStep ==
  ASSUME LockInv, NEW fs, NEW cs \in [Threads -> Calls],
         \A s \in Threads : cs[s].pc = "asleep" => cs[s] = call[s],
         call' = Woken(fs, cs)
  PROVE  /\ call' \in [Threads -> Calls] /\ SleepersStay
         /\ \A s \in Threads : call'[s].pc = "asleep" => call[s].file \notin fs
  <1>1. PICK ds : ds = call' BY Zenon
  <1>2. /\ ds \in [Threads -> Calls]
        /\ \A t \in Threads : ds[t].pc = "asleep" => ds[t] = cs[t] /\ cs[t].file \notin fs
    BY <1>1, WokenCalls
  <1> QED BY <1>1, <1>2, Zenon DEF SleepersStay

\* ... and the locks that went away were on those files.
LEMMA LossStep ==
  ASSUME LockInv, NEW fs, NEW cs \in [Threads -> Calls],
         \A s \in Threads : cs[s].pc = "asleep" => cs[s] = call[s],
         call' = Woken(fs, cs),
         locks' \subseteq locks, whole' \subseteq whole,
         \A l \in (locks \ locks') \cup (whole \ whole') : l.file \in fs,
         WaitOK', TableOK', Byte!Next \/ UNCHANGED ByteHeld
  PROVE  LockInv' /\ Effect
  <1>1. /\ call' \in [Threads -> Calls] /\ SleepersStay
        /\ \A s \in Threads : call'[s].pc = "asleep" => call[s].file \notin fs
    BY WakeStep, Zenon
  <1>2. SleepersTold BY <1>1, Zenon DEF SleepersTold
  <1>3. PICK ms : ms = locks' BY Zenon
  <1>4. Normal(ms) /\ Compatible(ms) BY <1>3, FewerLocks, Zenon DEF LockInv
  <1>5. Normal(locks)' /\ Compatible(locks)' BY <1>3, <1>4, Zenon
  <1>6. WholeOK' BY Zenon DEF LockInv, WholeOK
  <1> QED BY <1>1, <1>2, <1>5, <1>6, Zenon DEF LockInv, Effect

LEMMA WakeAfterUnlockStep ==
  ASSUME LockInv, NEW t \in Threads, WakeAfterUnlock(t)
  PROVE  LockInv' /\ Effect
  <1>1. PICK cs : cs = [call EXCEPT ![t] = Idle] BY Zenon
  <1>2. /\ cs \in [Threads -> Calls]
        /\ \A s \in Threads : cs[s].pc = "asleep" => cs[s] = call[s]
    BY <1>1, IdleCall, Zenon DEF LockInv
  <1>3. call' = Woken({call[t].file}, cs) /\ UNCHANGED <<locks, whole, table>>
    BY <1>1, Zenon DEF WakeAfterUnlock
  <1>4. call' \in [Threads -> Calls] /\ SleepersStay BY <1>2, <1>3, WakeStep, Zenon
  <1>5. WaitOK' BY StillWaits, Zenon DEF WakeAfterUnlock
  <1> QED BY <1>3, <1>4, <1>5, QuietStep, StillTable, Zenon

LEMMA ReleasePosixStep ==
  ASSUME LockInv, NEW t \in Threads, ReleasePosix(t)
  PROVE  LockInv' /\ Effect
  <1>1. call[t].pc = "posix" /\ UNCHANGED <<whole, table>> BY Zenon DEF ReleasePosix
  <1>2. call[t] \in CloseCalls BY <1>1, KindOfCall, Zenon DEF LockInv
  <1>3. PICK o \in Owners : o = <<"posix", ProcOf[t]>> BY Posix, Zenon
  <1>4. PICK f \in Files : f = call[t].file BY <1>2, Zenon DEF CloseCalls
  <1>5. PICK own : own = {l \in locks : l.file = f /\ l.owner = o} BY Zenon
  <1>6. PICK d \in Calls : d = [call[t] EXCEPT !.pc = "drop"] /\ d.pc # "asleep"
    <2>1. [call[t] EXCEPT !.pc = "drop"] \in CloseCalls /\ [call[t] EXCEPT !.pc = "drop"].pc = "drop"
      BY <1>2, Zenon DEF CloseCalls
    <2> QED BY <2>1, Zenon DEF Calls
  <1>7. PICK cs : cs = [call EXCEPT ![t] = d] BY Zenon
  <1>8. /\ locks' = locks \ own
        /\ call' = IF own = {} THEN cs ELSE Woken({f}, cs)
        /\ waitFor' = [waitFor EXCEPT ![o] = None]
    BY <1>3, <1>4, <1>5, <1>6, <1>7, Zenon DEF ReleasePosix
  <1>9. /\ cs \in [Threads -> Calls]
        /\ \A s \in Threads : cs[s].pc = "asleep" => cs[s] = call[s]
    BY <1>6, <1>7, Zenon DEF LockInv
  <1>10. WaitOK' BY <1>8, StillWaits, Zenon
  <1>11. CASE own = {}
    <2>1. locks' = locks /\ call' = [call EXCEPT ![t] = d] BY <1>7, <1>8, <1>11, Zenon
    <2>2. call' \in [Threads -> Calls] /\ SleepersStay BY <1>1, <1>6, <2>1, CallStep, Zenon
    <2> QED BY <1>1, <1>10, <2>1, <2>2, QuietStep, StillTable, Zenon
  <1>12. CASE own # {}
    <2>1. locks' = locks \ {l \in locks : l.file = f /\ l.owner = o} BY <1>5, <1>8, Zenon
    <2>2. Byte!Clear(f, o, Byte!Range(0, Inf)) BY <2>1, ByteRelease, Zenon DEF LockInv
    <2>3. 0 \in Bytes /\ Inf \in 1..Inf BY FlocksAssumption DEF Bytes
    <2>4. Byte!Next BY <2>2, <2>3, NextClear, Zenon
    <2>5. call' = Woken({f}, cs) BY <1>8, <1>12, Zenon
    <2>6. \A l \in (locks \ locks') \cup (whole \ whole') : l.file \in {f} BY <1>1, <2>1, Zenon
    <2>7. locks' \subseteq locks /\ whole' \subseteq whole BY <1>1, <2>1, Zenon
    <2> QED BY <1>1, <1>9, <1>10, <2>4, <2>5, <2>6, <2>7, LossStep, StillTable, Zenon
  <1> QED BY <1>11, <1>12, Zenon

\* release_file_locks_for_ofd() for descriptions that nobody refers to.
LEMMA ReleaseOfdsStep ==
  ASSUME LockInv, NEW S \in SUBSET Ofds, NEW cs \in [Threads -> Calls],
         \A s \in Threads : cs[s].pc = "asleep" => cs[s] = call[s],
         ReleaseOfds(S, cs), TableOK'
  PROVE  LockInv' /\ Effect
  <1>1. PICK rec : rec = {l \in locks : \E o \in S : l.owner = <<"ofd", o>>} BY Zenon
  <1>2. PICK wh : wh = {l \in whole : l.owner \in S} BY Zenon
  <1>3. PICK fs : fs = {l.file : l \in rec \cup wh} BY Zenon
  <1>4. /\ locks' = locks \ rec /\ whole' = whole \ wh /\ call' = Woken(fs, cs)
        /\ waitFor' = [w \in Owners |-> IF w[1] = "ofd" /\ w[2] \in S THEN None ELSE waitFor[w]]
    BY <1>1, <1>2, <1>3, Zenon DEF ReleaseOfds
  <1>5. PICK Os : Os = {<<"ofd", o>> : o \in S} BY Zenon
  <1>6. Os \in SUBSET Owners BY <1>5 DEF Owners
  <1>7. locks' = locks \ {l \in locks : l.owner \in Os} BY <1>1, <1>4, <1>5, Zenon
  <1>8. Byte!ClearAll(Os) BY <1>6, <1>7, ByteReleaseAll, Zenon DEF LockInv
  <1>9. Byte!Next BY <1>6, <1>8, Zenon DEF Byte!Next
  <1>10. WaitOK' BY <1>4, Zenon DEF LockInv, WaitOK
  <1>11. \A l \in (locks \ locks') \cup (whole \ whole') : l.file \in fs BY <1>3, <1>4, Zenon
  <1>12. locks' \subseteq locks /\ whole' \subseteq whole BY <1>4, Zenon
  <1> QED BY <1>4, <1>9, <1>10, <1>11, <1>12, LossStep, Zenon

LEMMA DropFdStep ==
  ASSUME LockInv, NEW t \in Threads, DropFd(t)
  PROVE  LockInv' /\ Effect
  <1>1. call[t].pc = "drop" /\ UNCHANGED table BY Zenon DEF DropFd
  <1>2. call[t] \in CloseCalls BY <1>1, KindOfCall, Zenon DEF LockInv
  <1>3. PICK S \in SUBSET Ofds : S = IF Refs(call[t].o) = 1 THEN {call[t].o} ELSE {}
    BY <1>2, Zenon DEF CloseCalls
  <1>4. PICK cs : cs = [call EXCEPT ![t] = Idle] BY Zenon
  <1>5. ReleaseOfds(S, cs) BY <1>3, <1>4, Zenon DEF DropFd
  <1>6. /\ cs \in [Threads -> Calls]
        /\ \A s \in Threads : cs[s].pc = "asleep" => cs[s] = call[s]
    BY <1>4, IdleCall, Zenon DEF LockInv
  <1> QED BY <1>1, <1>5, <1>6, ReleaseOfdsStep, StillTable, Zenon

LEMMA ExitTableStep ==
  ASSUME LockInv, NEW t \in Threads, ExitTable(t)
  PROVE  LockInv' /\ Effect
  <1>1. call[t].pc = "exit" BY Zenon DEF ExitTable
  <1>2. call[t] \in EndCalls BY <1>1, KindOfCall, Zenon DEF LockInv
  <1>3. PICK S \in SUBSET Ofds :
          S = {o \in {p \in Ofds : table[ProcOf[t]][p] > 0} : Refs(o) = table[ProcOf[t]][o]}
    BY Zenon
  <1>4. PICK d \in Calls : d = [call[t] EXCEPT !.pc = "gone"] /\ d.pc # "asleep"
    <2>1. [call[t] EXCEPT !.pc = "gone"] \in EndCalls /\ [call[t] EXCEPT !.pc = "gone"].pc = "gone"
      BY <1>2, Zenon DEF EndCalls
    <2> QED BY <2>1, Zenon DEF Calls
  <1>5. PICK cs : cs = [call EXCEPT ![t] = d] BY Zenon
  <1>6. ReleaseOfds(S, cs) /\ table' = [table EXCEPT ![ProcOf[t]] = [o \in Ofds |-> 0]]
    BY <1>3, <1>4, <1>5, Zenon DEF ExitTable
  <1>7. /\ cs \in [Threads -> Calls]
        /\ \A s \in Threads : cs[s].pc = "asleep" => cs[s] = call[s]
    BY <1>4, <1>5, Zenon DEF LockInv
  <1>8. TableOK'
    <2>1. [o \in Ofds |-> 0] \in [Ofds -> 0..MaxDup] BY FlocksAssumption
    <2> QED BY <1>6, <2>1, Zenon DEF TableOK, LockInv
  <1> QED BY <1>6, <1>7, <1>8, ReleaseOfdsStep, Zenon

LEMMA ExitLocksStep ==
  ASSUME LockInv, NEW t \in Threads, ExitLocks(t)
  PROVE  LockInv' /\ Effect
  <1>1. PICK o \in Owners : o = <<"posix", ProcOf[t]>> BY Posix, Zenon
  <1>2. PICK own : own = {l \in locks : l.owner = o} BY Zenon
  <1>3. PICK fs : fs = {l.file : l \in own} BY Zenon
  <1>4. PICK cs : cs = [s \in Threads |-> IF ProcOf[s] # ProcOf[t] THEN call[s]
                                          ELSE [pc |-> IF s = t THEN "exit" ELSE "gone"]]
    BY Zenon
  <1>5. /\ locks' = locks \ own /\ call' = Woken(fs, cs) /\ UNCHANGED <<whole, table>>
        /\ waitFor' = [waitFor EXCEPT ![o] = None]
    BY <1>1, <1>2, <1>3, <1>4, Zenon DEF ExitLocks
  <1>6. /\ cs \in [Threads -> Calls]
        /\ \A s \in Threads : cs[s].pc = "asleep" => cs[s] = call[s]
    <2>1. ASSUME NEW s \in Threads
          PROVE  cs[s] \in Calls /\ (cs[s].pc = "asleep" => cs[s] = call[s])
      <3>1. CASE ProcOf[s] # ProcOf[t] BY <1>4, <3>1, Zenon DEF LockInv
      <3>2. CASE ProcOf[s] = ProcOf[t]
        <4>1. PICK pc \in {"exit", "gone"} : cs[s] = [pc |-> pc] BY <1>4, <3>2, Zenon
        <4> QED BY <4>1 DEF Calls, EndCalls
      <3> QED BY <3>1, <3>2, Zenon
    <2>2. cs = [s \in Threads |-> cs[s]] BY <1>4, Zenon
    <2> QED BY <2>1, <2>2, Zenon
  <1>7. PICK Os : Os = {o} BY Zenon
  <1>8. Os \in SUBSET Owners /\ locks' = locks \ {l \in locks : l.owner \in Os} BY <1>2, <1>5, <1>7, Zenon
  <1>9. Byte!ClearAll(Os) BY <1>8, ByteReleaseAll, Zenon DEF LockInv
  <1>10. Byte!Next BY <1>8, <1>9, Zenon DEF Byte!Next
  <1>11. WaitOK' BY <1>5, StillWaits, Zenon
  <1>12. \A l \in (locks \ locks') \cup (whole \ whole') : l.file \in fs BY <1>3, <1>5, Zenon
  <1>13. locks' \subseteq locks /\ whole' \subseteq whole BY <1>5, Zenon
  <1> QED BY <1>5, <1>6, <1>10, <1>11, <1>12, <1>13, LossStep, StillTable, Zenon

-----------------------------------------------------------------------------
(* flock() and descriptors *)

LEMMA FlockStep ==
  ASSUME LockInv, NEW t \in Threads, NEW o \in Ofds, NEW op \in FileOps, Flock(t, o, op)
  PROVE  LockInv' /\ Effect
  <1>1. call[t].pc = "idle" /\ UNCHANGED <<locks, waitFor, whole, table>> BY Zenon DEF Flock
  <1>2. op.kind \in {"R", "W", "U"} /\ op.wait \in BOOLEAN BY FlocksAssumption, Zenon
  <1>3. PICK pc \in {"release", "convert"} : pc = IF op.kind = "U" THEN "release" ELSE "convert"
    BY Zenon
  <1>4. PICK d : d = [pc |-> pc, api |-> "flock", o |-> o, file |-> FileOf[o], kind |-> op.kind,
                      owner |-> o, wait |-> op.wait]
    BY Zenon
  <1>5. d \in FlockCalls BY <1>2, <1>3, <1>4, Zenon DEF FlockCalls, FlockRec, FlockPcs, Files
  <1>6. d \in Calls BY <1>5, Zenon DEF Calls
  <1>7. call' = [call EXCEPT ![t] = d] BY <1>3, <1>4, Zenon DEF Flock
  <1>8. call' \in [Threads -> Calls] /\ SleepersStay BY <1>1, <1>6, <1>7, CallStep, Zenon
  <1> QED BY <1>1, <1>8, QuietStep, StillTable, StillWaiting, Zenon

LEMMA FlockReleaseStep ==
  ASSUME LockInv, NEW t \in Threads, FlockRelease(t)
  PROVE  LockInv' /\ Effect
  <1>1. PICK own : own = OwnWhole(call[t]) BY Zenon
  <1>2. PICK cs : cs = [call EXCEPT ![t] = Idle] BY Zenon
  <1>3. /\ whole' = whole \ own /\ UNCHANGED <<locks, waitFor, table>>
        /\ call' = IF own = {} THEN cs ELSE Woken({call[t].file}, cs)
    BY <1>1, <1>2, Zenon DEF FlockRelease
  <1>4. CASE own = {}
    <2>1. Return(t) /\ whole' = whole BY <1>2, <1>3, <1>4, Zenon DEF Return
    <2> QED BY <1>3, <2>1, ReturnStep, QuietStep, StillTable, StillWaiting, Zenon
  <1>5. CASE own # {}
    <2>1. /\ cs \in [Threads -> Calls]
          /\ \A s \in Threads : cs[s].pc = "asleep" => cs[s] = call[s]
      BY <1>2, IdleCall DEF LockInv
    <2>2. PICK fs : fs = {call[t].file} BY Zenon
    <2>3. call' = Woken(fs, cs) BY <1>3, <1>5, <2>2, Zenon
    <2>4. \A l \in (locks \ locks') \cup (whole \ whole') : l.file \in fs
      BY <1>1, <1>3, <2>2, Zenon DEF OwnWhole
    <2>5. locks' \subseteq locks /\ whole' \subseteq whole BY <1>3, Zenon
    <2> QED BY <1>3, <2>1, <2>3, <2>4, <2>5, LossStep, SameBytes, StillTable, StillWaiting, Zenon
  <1> QED BY <1>4, <1>5, Zenon

LEMMA FlockTryStep ==
  ASSUME LockInv, NEW t \in Threads, FlockTry(t)
  PROVE  LockInv' /\ Effect
  <1>1. PICK c : c = call[t] OBVIOUS
  <1>2. c.pc \in {"convert", "try"} /\ UNCHANGED <<locks, waitFor, table>> BY <1>1, Zenon DEF FlockTry
  <1>3. c \in FlockCalls BY <1>1, <1>2, KindOfCall, Zenon DEF LockInv
  <1>4. c.file \in Files /\ c.owner \in Ofds /\ c.kind \in {"R", "W"} BY <1>2, <1>3, FlockFields, Zenon
  <1>5. PICK kept : kept = IF c.pc = "convert" THEN whole \ OwnWhole(c) ELSE whole BY Zenon
  <1>6. call' \in [Threads -> Calls] /\ SleepersStay
    <2>1. LockGoto(t, "sleep") \/ Return(t) BY <1>1, Zenon DEF FlockTry
    <2>2. ASSUME LockGoto(t, "sleep") PROVE call' \in [Threads -> Calls] /\ SleepersStay
      BY <1>1, <1>2, <1>3, <2>2, FlockGotoStep, Zenon DEF FlockPcs
    <2> QED BY <2>1, <2>2, ReturnStep, Zenon
  <1>7. PICK new : new = [file |-> c.file, owner |-> c.owner, kind |-> c.kind] BY Zenon
  <1>8. \/ whole' = kept
        \/ ~WholeConflict(c) /\ whole' = kept \cup {new}
    BY <1>1, <1>5, <1>7, Zenon DEF FlockTry
  <1>9. kept \subseteq whole BY <1>5, Zenon
  <1>10. WholeOK'
    <2>0. WholeOK BY Zenon DEF LockInv
    <2>1. CASE whole' = kept BY <1>9, <2>0, <2>1, Zenon DEF WholeOK
    <2>2. CASE ~WholeConflict(c) /\ whole' = kept \cup {new}
      <3>1. new \in WholeRec BY <1>4, <1>7, Zenon DEF WholeRec
      <3>2. new.file = c.file /\ new.owner = c.owner /\ new.kind = c.kind BY <1>7, Zenon
      <3>3. \A l \in whole : l.file = c.file /\ l.owner # c.owner => ~KindsConflict(l.kind, c.kind)
        BY <2>2, Zenon DEF WholeConflict
      <3>4. \A l \in whole : l.file = c.file /\ l.owner # c.owner => ~KindsConflict(c.kind, l.kind)
        BY <3>3, Zenon DEF KindsConflict
      <3>5. whole' \subseteq WholeRec BY <1>9, <2>0, <2>2, <3>1, Zenon DEF WholeOK
      <3>6. ASSUME NEW l \in whole', NEW m \in whole', l.file = m.file, l.owner # m.owner
            PROVE  ~KindsConflict(l.kind, m.kind)
        <4>1. l \in whole \/ l = new BY <1>9, <2>2, Zenon
        <4>2. m \in whole \/ m = new BY <1>9, <2>2, Zenon
        <4>3. CASE l \in whole /\ m \in whole BY <2>0, <3>6, <4>3, Zenon DEF WholeOK
        <4>4. CASE l \in whole /\ m = new BY <3>2, <3>3, <3>6, <4>4, Zenon
        <4>5. CASE l = new /\ m \in whole BY <3>2, <3>4, <3>6, <4>5, Zenon
        <4>6. CASE l = new /\ m = new BY <3>6, <4>6, Zenon
        <4> QED BY <4>1, <4>2, <4>3, <4>4, <4>5, <4>6, Zenon
      <3> QED BY <3>5, <3>6, Zenon DEF WholeOK
    <2> QED BY <1>8, <2>1, <2>2, Zenon
  <1>11. SleepersTold \/ \E s \in Threads : call[s].pc \in {"apply", "convert", "unlock"}
    <2>1. CASE c.pc = "convert" BY <1>1, <2>1, Zenon
    <2>2. CASE c.pc = "try"
      <3>1. whole \subseteq whole' /\ locks' = locks BY <1>2, <1>5, <1>8, <2>2, Zenon
      <3> QED BY <3>1, Zenon DEF SleepersTold
    <2> QED BY <1>2, <2>1, <2>2, Zenon
  <1>12. Normal(locks)' /\ Compatible(locks)' BY <1>2, Zenon DEF LockInv
  <1> QED BY <1>2, <1>6, <1>10, <1>11, <1>12, SameBytes, StillTable, StillWaiting, Zenon DEF LockInv, Effect

LEMMA DupFdStep ==
  ASSUME LockInv, NEW t \in Threads, NEW o \in Ofds, DupFd(t, o)
  PROVE  LockInv' /\ Effect
  <1>1. /\ table[ProcOf[t]][o] \in 1..(MaxDup - 1)
        /\ table' = [table EXCEPT ![ProcOf[t]][o] = table[ProcOf[t]][o] + 1]
        /\ UNCHANGED <<locks, waitFor, whole, call>>
    BY Zenon DEF DupFd
  <1>2. PICK n \in 0..MaxDup : n = table[ProcOf[t]][o] + 1 BY <1>1, FlocksAssumption
  <1>3. TableOK' BY <1>1, <1>2, Posix, Zenon DEF LockInv, TableOK
  <1>4. call' \in [Threads -> Calls] /\ SleepersStay BY <1>1, Zenon DEF LockInv, SleepersStay
  <1> QED BY <1>1, <1>3, <1>4, QuietStep, StillWaiting, Zenon

LEMMA ForkTableStep ==
  ASSUME LockInv, NEW t \in Threads, NEW q \in Procs, ForkTable(t, q)
  PROVE  LockInv' /\ Effect
  <1>1. /\ table' = [table EXCEPT ![q] = table[ProcOf[t]]]
        /\ UNCHANGED <<locks, waitFor, whole, call>>
    BY Zenon DEF ForkTable
  <1>2. TableOK' BY <1>1, Posix, Zenon DEF LockInv, TableOK
  <1>3. call' \in [Threads -> Calls] /\ SleepersStay BY <1>1, Zenon DEF LockInv, SleepersStay
  <1> QED BY <1>1, <1>2, <1>3, QuietStep, StillWaiting, Zenon

LEMMA CloseFdStep ==
  ASSUME LockInv, NEW t \in Threads, NEW o \in Ofds, CloseFd(t, o)
  PROVE  LockInv' /\ Effect
  <1>1. /\ table[ProcOf[t]][o] > 0 /\ call[t].pc = "idle"
        /\ table' = [table EXCEPT ![ProcOf[t]][o] = table[ProcOf[t]][o] - 1]
        /\ UNCHANGED <<locks, waitFor, whole>>
    BY Zenon DEF CloseFd
  <1>2. table[ProcOf[t]][o] \in 0..MaxDup BY Posix, Zenon DEF LockInv, TableOK
  <1>3. PICK n \in 0..MaxDup : n = table[ProcOf[t]][o] - 1 BY <1>1, <1>2, FlocksAssumption
  <1>4. TableOK' BY <1>1, <1>3, Posix, Zenon DEF LockInv, TableOK
  <1>5. PICK d \in CloseCalls :
          d = [pc |-> "posix", api |-> "close", o |-> o, file |-> FileOf[o]]
    BY Zenon DEF CloseCalls, Files
  <1>6. d \in Calls /\ call' = [call EXCEPT ![t] = d] BY <1>5, Zenon DEF Calls, CloseFd
  <1>7. call' \in [Threads -> Calls] /\ SleepersStay BY <1>1, <1>6, CallStep, Zenon
  <1> QED BY <1>1, <1>4, <1>7, QuietStep, StillWaiting, Zenon

-----------------------------------------------------------------------------
(* The specification *)

LEMMA LockInitInv == LockInit => LockInv /\ Byte!Init
  <1> SUFFICES ASSUME LockInit PROVE LockInv /\ Byte!Init BY Zenon
  <1>1. locks = {} /\ whole = {} BY Zenon DEF LockInit
  <1>2. Normal(locks) /\ Compatible(locks) /\ WholeOK BY <1>1, Zenon DEF Normal, Compatible, WholeOK
  <1>3. WaitOK BY Zenon DEF LockInit, WaitOK
  <1>4. TableOK
    <2>1. \A p \in Procs, o \in Ofds : (IF OpenAt[o] = p THEN 1 ELSE 0) \in 0..MaxDup
      BY FlocksAssumption
    <2> QED BY <2>1, Zenon DEF LockInit, TableOK
  <1>5. call \in [Threads -> Calls] BY IdleCall, Zenon DEF LockInit
  <1>6. Byte!Init
    <2>1. \A f \in Files, b \in Bytes : Cell(locks, f, b) = [o \in Owners |-> "none"]
      BY <1>1, Zenon DEF Cell, HeldAt
    <2>2. \A f \in Files : Row(locks, f) = [b \in Bytes |-> [o \in Owners |-> "none"]]
      BY <2>1, Zenon DEF Row
    <2>3. Held(locks) = [f \in Files |-> [b \in Bytes |-> [o \in Owners |-> "none"]]]
      BY <2>2, Zenon DEF Held
    <2> QED BY <2>3, ByteHeldIs, Zenon DEF Byte!Init, Bytes
  <1> QED BY <1>2, <1>3, <1>4, <1>5, <1>6, Zenon DEF LockInv

LEMMA LockStutter ==
  ASSUME LockInv, UNCHANGED lockVars
  PROVE  LockInv' /\ Effect
  <1>1. UNCHANGED <<locks, waitFor, whole, table, call>> BY Zenon DEF lockVars
  <1>2. call' \in [Threads -> Calls] /\ SleepersStay BY <1>1, Zenon DEF LockInv, SleepersStay
  <1> QED BY <1>1, <1>2, QuietStep, StillTable, StillWaiting, Zenon

LEMMA LockNextInv ==
  ASSUME LockInv, [LockNext]_lockVars
  PROVE  LockInv' /\ Effect
  <1>1. ASSUME NEW t \in Threads, LockStep(t) PROVE LockInv' /\ Effect
    BY <1>1, ApplyLockStep, DoneStep, CheckDeadlockStep, SetWaiterStep, SleepOnLockStep,
       InterruptLockStep, ReenterLockStep, ApplyUnlockStep, WakeAfterUnlockStep,
       FlockReleaseStep, FlockTryStep, ReleasePosixStep, DropFdStep, ExitLocksStep, ExitTableStep
    DEF LockStep
  <1>2. ASSUME NEW t \in Threads, LockCall(t) PROVE LockInv' /\ Effect
    BY <1>2, FcntlStep, FlockStep, DupFdStep, CloseFdStep, ForkTableStep, Zenon DEF LockCall
  <1> QED BY <1>1, <1>2, LockStutter, Zenon DEF LockNext

LEMMA LockSpecInv == LockSpec => []LockInv
  <1>1. LockInit => LockInv BY LockInitInv, Zenon
  <1>2. LockInv /\ [LockNext]_lockVars => LockInv' BY LockNextInv, Zenon
  <1> QED BY <1>1, <1>2, PTL DEF LockSpec

(* find_lock_conflict() keeps incompatible locks apart, and               *)
(* apply_file_unlock() and push_merged_file_lock() keep every owner's      *)
(* ranges disjoint and merged, whatever the threads on the other CPUs do   *)
(* between two critical sections of a call.                                *)
THEOREM LocksWellFormed == LockSpec => [](LockTypeOK /\ LocksCompatible /\ LocksCanonical)
  <1>1. LockInv => LockTypeOK /\ LocksCompatible /\ LocksCanonical
    <2> SUFFICES ASSUME LockInv PROVE LockTypeOK /\ LocksCompatible /\ LocksCanonical BY Zenon
    <2>1. \A l \in locks : /\ l.file \in Files /\ l.owner \in Owners /\ l.kind \in {"R", "W"}
                           /\ l.lo \in 0..(Inf - 1) /\ l.hi \in 1..Inf /\ NonEmpty(l)
      BY Zenon DEF LockInv, Normal, LockRec
    <2>2. \A l \in whole : l.file \in Files /\ l.owner \in Ofds /\ l.kind \in {"R", "W"}
      BY Zenon DEF LockInv, WholeOK, WholeRec
    <2>3. \A o \in Owners : waitFor[o] \in (Owners \ {o}) \cup {None} BY Zenon DEF LockInv, WaitOK
    <2>4. \A p \in Procs, o \in Ofds : table[p][o] \in 0..MaxDup BY Zenon DEF LockInv, TableOK
    <2>5. LocksCompatible BY Zenon DEF LockInv, Compatible, WholeOK, LocksCompatible
    <2>6. LocksCanonical BY Zenon DEF LockInv, Normal, LocksCanonical
    <2> QED BY <2>1, <2>2, <2>3, <2>4, <2>5, <2>6, Zenon DEF LockTypeOK
  <1> QED BY <1>1, LockSpecInv, PTL

(* Splitting and merging ranges grants, keeps and loses exactly the bytes  *)
(* a table with one entry per byte would: each step of the record lock     *)
(* table is a step of ByteLocks or none.                                   *)
THEOREM RangesAreBytes == LockSpec => RefinesByteLocks
  <1>1. LockInit => Byte!Init BY LockInitInv, Zenon
  <1>2. LockInv /\ [LockNext]_lockVars => [Byte!Next]_ByteHeld BY LockNextInv, Zenon DEF Effect
  <1> QED BY <1>1, <1>2, LockSpecInv, PTL DEF LockSpec, RefinesByteLocks, Byte!Spec

(* Closing, exiting and LOCK_UN wake every sleeper whose last conflict     *)
(* they end: only an fcntl() that replaces or removes a range, or flock()  *)
(* giving up its old lock, can leave one asleep.                           *)
THEOREM ReleasesWake == LockSpec => ReleaseWakes
  <1>1. ASSUME LockInv, [LockNext]_lockVars, NEW t \in Threads,
               Asleep(t), Asleep(t)', HasConflict(t), ~HasConflict(t)'
        PROVE  \E s \in Threads : call[s].pc \in {"apply", "convert", "unlock"}
    <2>1. Effect BY <1>1, LockNextInv, Zenon
    <2>2. call'[t] = call[t] BY <1>1, <2>1, Zenon DEF Effect, SleepersStay, Asleep
    <2>3. CASE call[t].api = "fcntl"
      <3>1. PICK l \in Conflicts(call[t]) : TRUE BY <1>1, <2>3, Zenon DEF HasConflict
      <3>a. Conflicts(call[t])' = {} BY <1>1, <2>2, <2>3, Zenon DEF HasConflict
      <3>b. l \in locks' => l \in Conflicts(call[t])' BY <2>2, <3>1, Zenon DEF Conflicts, KindsConflict, Overlap
      <3>2. l \notin locks' BY <3>a, <3>b, Zenon
      <3>3. l \in locks /\ l.file = call[t].file BY <3>1, Zenon DEF Conflicts
      <3> QED BY <1>1, <2>1, <3>2, <3>3, Zenon DEF Effect, SleepersTold, Asleep
    <2>4. CASE call[t].api # "fcntl"
      <3>1. PICK l \in whole : /\ l.file = call[t].file /\ l.owner # call[t].owner
                               /\ KindsConflict(l.kind, call[t].kind)
        BY <1>1, <2>4, Zenon DEF HasConflict, WholeConflict
      <3>2. l \notin whole' BY <1>1, <2>2, <2>4, <3>1, Zenon DEF HasConflict, WholeConflict
      <3> QED BY <1>1, <2>1, <3>1, <3>2, Zenon DEF Effect, SleepersTold, Asleep
    <2> QED BY <2>3, <2>4, Zenon
  <1>2. LockInv /\ [LockNext]_lockVars =>
          [\A t \in Threads :
             Asleep(t) /\ Asleep(t)' /\ HasConflict(t) /\ ~HasConflict(t)'
                => \E s \in Threads : call[s].pc \in {"apply", "convert", "unlock"}]_lockVars
    BY <1>1, Zenon
  <1> QED BY <1>2, LockSpecInv, PTL DEF LockSpec, ReleaseWakes
=============================================================================
