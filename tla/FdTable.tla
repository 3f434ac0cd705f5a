------------------------------ MODULE FdTable ------------------------------
(***************************************************************************)
(* FileDescriptorTable (fs/fd.rs): the slots of one process, the hint that *)
(* says where to look for the lowest free one, and the count of slots to   *)
(* be closed by execve().  Every operation runs under the table's lock.    *)
(* A slot holds a descriptor: an open file description and the offset that *)
(* FileDescriptor::clone() copies.                                         *)
(***************************************************************************)
EXTENDS Integers, FiniteSets

CONSTANTS
    MAX_FD_NUM,
    Descriptions,    \* open file descriptions
    MaxPos,          \* bound on offsets
    Empty            \* no descriptor

ASSUME MaxFdAssumption == MAX_FD_NUM \in Nat \ {0}
ASSUME MaxPosAssumption == MaxPos \in Nat
ASSUME EmptyAssumption == Empty \notin [of : Descriptions, pos : 0 .. MaxPos]

VARIABLES
    fds,             \* the slots
    fdFlags,         \* FD_CLOEXEC of each slot
    hint,            \* next_fd_hint
    cloexecCount     \* cloexec_count

fdVars == <<fds, fdFlags, hint, cloexecCount>>

Slots == 0 .. MAX_FD_NUM - 1
Descs == [of : Descriptions, pos : 0 .. MaxPos]
Used(i) == fds[i] # Empty

Lowest(i, S) == i \in S /\ \A j \in S : i <= j
Smaller(a, b) == IF a <= b THEN a ELSE b

-----------------------------------------------------------------------------

(* count_cloexec(), and the saturating subtraction of it                   *)
Counted(flag) == IF flag THEN 1 ELSE 0
Less(n, flag) == IF n > Counted(flag) THEN n - Counted(flag) ELSE 0

SetSlot_HintAlways(i, d, flag) ==
    /\ fds' = [fds EXCEPT ![i] = d]
    /\ fdFlags' = [fdFlags EXCEPT ![i] = flag]
    /\ cloexecCount' = Less(cloexecCount, fdFlags[i]) + Counted(flag)
    /\ hint' = Smaller(i + 1, MAX_FD_NUM)

(* set_slot(): the hint follows the slot that is filled                    *)
SetSlot(i, d, flag) ==
    /\ fds' = [fds EXCEPT ![i] = d]
    /\ fdFlags' = [fdFlags EXCEPT ![i] = flag]
    /\ cloexecCount' = Less(cloexecCount, fdFlags[i]) + Counted(flag)
    /\ hint' = IF hint = MAX_FD_NUM \/ i <= hint THEN Smaller(i + 1, MAX_FD_NUM) ELSE hint

(* clear_slot() *)
ClearSlot(i) ==
    /\ fds' = [fds EXCEPT ![i] = Empty]
    /\ fdFlags' = [fdFlags EXCEPT ![i] = FALSE]
    /\ cloexecCount' = Less(cloexecCount, fdFlags[i])
    /\ hint' = Smaller(i, hint)

(* alloc_slot_from(): the slots looked at first, and those looked at when  *)
(* there is none free among them                                           *)
ScanStart(start, limit) == IF start = 0 THEN Smaller(hint, limit) ELSE start
FreeIn(lo, hi) == {i \in Slots : lo <= i /\ i < hi /\ ~Used(i)}

Picks(i, start, limit) ==
    LET top   == Smaller(limit, MAX_FD_NUM)
        scan  == ScanStart(start, top)
        first == FreeIn(scan, top)
    IN  /\ start < top
        /\ \/ Lowest(i, first)
           \/ first = {} /\ Lowest(i, FreeIn(start, scan))

Alloc(start, limit, d, flag) == \E i \in Slots : Picks(i, start, limit) /\ SetSlot(i, d, flag)

(* free() and remove() *)
Free(i) == Used(i) /\ ClearSlot(i)

(* set_fd_flags() *)
SetFdFlags(i, flag) ==
    /\ Used(i)
    /\ fdFlags' = [fdFlags EXCEPT ![i] = flag]
    /\ cloexecCount' = Less(cloexecCount, fdFlags[i]) + Counted(flag)
    /\ UNCHANGED <<fds, hint>>

(* close_on_exec(): nothing is looked at when the count says so.  Clearing *)
(* the slots from 0 up moves the hint to the lowest of them.               *)
Closing == {i \in Slots : Used(i) /\ fdFlags[i]}

CloseOnExec ==
    IF cloexecCount = 0 THEN UNCHANGED fdVars
    ELSE /\ fds' = [i \in Slots |-> IF i \in Closing THEN Empty ELSE fds[i]]
         /\ fdFlags' = [i \in Slots |-> IF i \in Closing THEN FALSE ELSE fdFlags[i]]
         /\ cloexecCount' = IF cloexecCount > Cardinality(Closing)
                            THEN cloexecCount - Cardinality(Closing) ELSE 0
         /\ hint' \in {hint} \cup Closing
         /\ hint' <= hint /\ \A i \in Closing : hint' <= i

(* close_all() *)
CloseAll ==
    /\ fds' = [i \in Slots |-> Empty]
    /\ fdFlags' = [i \in Slots |-> FALSE]
    /\ hint' = 0
    /\ cloexecCount' = 0

(* dup_below() and dup2_below(): the clone has the offset of its original  *)
(* and no flags.  dup2() closes the target first: the two steps are one,   *)
(* and the slot that is filled is the slot that was cleared.               *)
Dup(i, limit) == Used(i) /\ Alloc(0, limit, fds[i], FALSE)

Dup2Hint(j) ==
    LET h == IF Used(j) THEN Smaller(j, hint) ELSE hint
    IN  IF h = MAX_FD_NUM \/ j <= h THEN Smaller(j + 1, MAX_FD_NUM) ELSE h

Dup2(i, j) ==
    /\ Used(i) /\ i # j
    /\ fds' = [fds EXCEPT ![j] = fds[i]]
    /\ fdFlags' = [fdFlags EXCEPT ![j] = FALSE]
    /\ cloexecCount' = Less(cloexecCount, fdFlags[j])
    /\ hint' = Dup2Hint(j)

(* a read or a seek moves the offset in the slot it goes through           *)
MovePos(i, p) ==
    /\ Used(i)
    /\ fds' = [fds EXCEPT ![i].pos = p]
    /\ UNCHANGED <<fdFlags, hint, cloexecCount>>

-----------------------------------------------------------------------------

FdInit ==
    /\ fds = [i \in Slots |-> Empty]
    /\ fdFlags = [i \in Slots |-> FALSE]
    /\ hint = 0
    /\ cloexecCount = 0

FdNext ==
    \/ \E start, limit \in 0 .. MAX_FD_NUM, d \in Descriptions, flag \in BOOLEAN :
         /\ \A i \in Slots : Used(i) => fds[i].of # d
         /\ Alloc(start, limit, [of |-> d, pos |-> 0], flag)
    \/ \E i \in Slots :
         \/ Free(i)
         \/ \E flag \in BOOLEAN : SetFdFlags(i, flag)
         \/ \E limit \in 0 .. MAX_FD_NUM : Dup(i, limit)
         \/ \E j \in Slots : Dup2(i, j)
         \/ \E p \in 0 .. MaxPos : MovePos(i, p)
    \/ CloseOnExec
    \/ CloseAll

FdSpec == FdInit /\ [][FdNext]_fdVars

-----------------------------------------------------------------------------

(* Slots, flags, hint and count keep their types, and only a slot in use   *)
(* is marked for execve()                                                  *)
FdTypeOK ==
    /\ fds \in [Slots -> Descs \cup {Empty}]
    /\ fdFlags \in [Slots -> BOOLEAN]
    /\ hint \in 0 .. MAX_FD_NUM
    /\ cloexecCount \in Nat
    /\ \A i \in Slots : fdFlags[i] => Used(i)

(* No free slot lies below the hint, so an allocation that starts there    *)
(* returns the lowest free descriptor, as open() and dup() promise         *)
HintBelowFree == \A i \in Slots : i < hint => Used(i)

(* What alloc_slot_from() picks is the lowest free slot from `start' up,   *)
(* and it finds one whenever there is one below the limit                  *)
PicksLowest ==
    \A start, limit \in 0 .. MAX_FD_NUM : \A i \in Slots :
        Picks(i, start, limit) <=> Lowest(i, FreeIn(start, limit))

(* cloexec_count is the number of marked slots: close_on_exec(), which     *)
(* does nothing when it is zero, never leaves a marked descriptor open     *)
CloexecCounted == cloexecCount = Cardinality({i \in Slots : fdFlags[i]})

(* Together: open() and dup() get the lowest free descriptor and exec      *)
(* closes every marked one, whatever calls came before                     *)
FdTableExact == FdTypeOK /\ HintBelowFree /\ PicksLowest /\ CloexecCounted

=============================================================================
