----------------------------- MODULE ByteLocks -----------------------------
(***************************************************************************)
(* What fcntl() record locks promise: every byte of a file has, for every  *)
(* owner, no lock, a read lock or a write lock, and a request takes effect *)
(* on all its bytes at once.  FileLocks, whose ranges are split and merged *)
(* the way syscall/fs.rs does it, implements this specification.           *)
(***************************************************************************)
EXTENDS Naturals

CONSTANTS Files, Owners, Bytes

VARIABLE held

Range(lo, hi) == {b \in Bytes : lo <= b /\ b < hi}

Compatible(mine, other) == other = "none" \/ (mine = "R" /\ other = "R")

Init == held = [f \in Files |-> [b \in Bytes |-> [o \in Owners |-> "none"]]]

Put(f, o, S, k) ==
    held' = [held EXCEPT ![f] = [b \in Bytes |->
                IF b \in S THEN [@[b] EXCEPT ![o] = k] ELSE @[b]]]

SetLock(f, o, S, k) ==
    /\ \A b \in S, other \in Owners \ {o} : Compatible(k, held[f][b][other])
    /\ Put(f, o, S, k)

Clear(f, o, S) == Put(f, o, S, "none")

(* an exiting process or closed descriptions drop their locks everywhere   *)
ClearAll(Os) ==
    held' = [f \in Files |-> [b \in Bytes |-> [o \in Owners |->
                IF o \in Os THEN "none" ELSE held[f][b][o]]]]

Next ==
    \/ \E Os \in SUBSET Owners : ClearAll(Os)
    \/ \E o \in Owners, f \in Files, lo \in Bytes, hi \in {b + 1 : b \in Bytes} :
          \/ Clear(f, o, Range(lo, hi))
          \/ \E k \in {"R", "W"} : SetLock(f, o, Range(lo, hi), k)

Spec == Init /\ [][Next]_held
=============================================================================
