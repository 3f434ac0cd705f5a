------------------------------ MODULE MCMemory ------------------------------
(***************************************************************************)
(* Memory below the address spaces: physical frames (FrameAllocator), the  *)
(* kernel heap (HeapCache), the runs of resident pages in a VMA            *)
(* (ResidentRuns) and translations shared by CPUs (TlbShootdown).  A       *)
(* behaviour exercises one family of calls, `fam', with `left' calls still *)
(* to make; the components the family does not touch keep their initial    *)
(* state.  The families "frames" and "runs" make any number of calls.      *)
(***************************************************************************)
EXTENDS FrameAllocator, HeapCache, ResidentRuns, TlbShootdown, TLC

VARIABLES fam, left

Families == [frames |-> 0, heap |-> 5, runs |-> 0, tlb |-> 6]

MCFrames == 4..7

-----------------------------------------------------------------------------

MemInit ==
    /\ fam \in DOMAIN Families /\ left = Families[fam]
    /\ Init /\ HeapInit /\ RunsInit
    /\ \E rv \in BOOLEAN : (fam # "tlb" => rv) /\ TlbInit(rv)

OneCall == left > 0 /\ left' = left - 1

MemNext ==
    /\ fam' = fam
    /\ \/ /\ fam = "frames" /\ Next
          /\ UNCHANGED <<heapVars, runVars, tlbVars, left>>
       \/ /\ fam = "heap"
          /\ \E c \in HCpus : \/ HeapStep(c) /\ UNCHANGED left
                              \/ OneCall /\ HeapCall(c)
          /\ UNCHANGED <<vars, runVars, tlbVars>>
       \/ /\ fam = "runs" /\ RunsNext
          /\ UNCHANGED <<vars, heapVars, tlbVars, left>>
       \/ /\ fam = "tlb"
          /\ \E c \in TCpus : \/ TlbStep(c) /\ UNCHANGED left
                              \/ OneCall /\ TlbCall(c)
          /\ UNCHANGED <<vars, heapVars, runVars>>

MemSpec == MemInit /\ [][MemNext]_<<vars, heapVars, runVars, tlbVars, fam, left>>

MemSymmetry == Permutations(Handles)

=============================================================================
