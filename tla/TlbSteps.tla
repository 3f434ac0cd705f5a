------------------------------- MODULE TlbSteps -------------------------------
(***************************************************************************)
(* The inductive invariant of TlbShootdown, and the steps that keep it     *)
(* without editing a space: entering and leaving one, posting, sampling    *)
(* and waiting; and a space that gets its ASID.                            *)
(***************************************************************************)
EXTENDS TlbShootdown, TLAPS

-----------------------------------------------------------------------------
(* The inductive invariant *)

Entering == {"mark", "flush", "change"}
Editing == {"generation", "post", "sample", "fence", "fenced", "lock", "resample", "wait"}
Making == {"recycle", "reuse"}
OnlyRiscv == {"trap", "generation", "fence", "fenced"}
OnlyLoong == {"ipi", "lock", "resample", "wait"}

Edits(k, s) == tc[k].at \in Editing /\ tc[k].sp = s
Holds(c, s) == tc[c].at \in Entering \cup Editing /\ tc[c].sp = s

\* What one CPU's control point says of its registers.
CpuOK(c) ==
    /\ tc[c].at \in {"kernel", "ipi"} \cup Making => tc[c].satp = NoRoot /\ tc[c].active = NoRoot
    /\ tc[c].at \in {"kernel", "ipi"} => tc[c].sp = NoRoot
    /\ tc[c].at \in Entering \cup Editing \cup Making \cup {"user", "trap"} => tc[c].sp \in Roots
    /\ tc[c].at \in Entering => tc[c].satp = NoRoot /\ tc[c].active = tc[c].sp
    /\ tc[c].at \in {"user", "trap"} => tc[c].satp = tc[c].sp /\ tc[c].active = tc[c].sp
    /\ tc[c].at \in Editing /\ tc[c].back = "kernel" => tc[c].satp = NoRoot /\ tc[c].active = NoRoot
    /\ tc[c].at \in Editing /\ tc[c].back = "trap"
         => riscv /\ tc[c].satp = tc[c].sp /\ tc[c].active = tc[c].sp
    /\ tc[c].at \in OnlyRiscv => riscv
    /\ tc[c].at \in OnlyLoong \/ tc[c].ipi => ~riscv
    /\ tc[c].at = "generation" => tc[c].todo = TCpus \ {c}
    /\ tc[c].at # "reuse" /\ tc[c].at # "recycle" => tc[c].taken = <<>>

\* What it says of the space it works on; the lock of a space names whoever
\* enters or edits it.
SpOK(c) ==
    /\ tc[c].at \in Entering \cup Editing => sps[tc[c].sp].lock = c
    /\ tc[c].at \in Entering \cup Editing \cup {"user", "trap"} => sps[tc[c].sp].live
    /\ tc[c].at \in Editing => sps[tc[c].sp].done < sps[tc[c].sp].ver
    /\ tc[c].at \in Making => ~sps[tc[c].sp].live /\ sps[tc[c].sp].ver < MaxVer
LocksOK == \A s \in Roots : sps[s].lock # NoRoot => Holds(sps[s].lock, s)
MakersApart ==
    \A c, d \in TCpus : c # d /\ tc[c].at \in Making /\ tc[d].at \in Making => tc[c].sp # tc[d].sp
DoneOK == \A s \in Roots : sps[s].live /\ (\A k \in TCpus : ~Edits(k, s)) => sps[s].done = sps[s].ver

ControlOK ==
    /\ riscv \in BOOLEAN /\ gen \in Nat /\ shoot \in TCpus \cup {NoRoot}
    /\ \A c \in TCpus : CpuOK(c) /\ SpOK(c)
    /\ LocksOK /\ MakersApart /\ DoneOK
    /\ tlb \in [TCpus -> SUBSET [asid : 0..MaxAsid, root : Roots, ver : 0..MaxVer]]

\* An ASID has one place: a live space, or one position of one list.
In(a, q) == \E i \in 1..Len(q) : q[i] = a
Once(q) == \A i, j \in 1..Len(q) : q[i] = q[j] => i = j
Owns(s, a) == sps[s].live /\ sps[s].asid = a

AsidOK(a) ==
    /\ In(a, pool.reusable) \/ In(a, pool.retired) \/ (\E c \in TCpus : In(a, tc[c].taken))
         \/ (\E s \in Roots : Owns(s, a)) => a < pool.next
    /\ In(a, pool.reusable) => ~In(a, pool.retired)
    /\ In(a, pool.reusable) \/ In(a, pool.retired) =>
         /\ \A c \in TCpus : ~In(a, tc[c].taken)
         /\ \A s \in Roots : ~Owns(s, a)
    /\ \A c \in TCpus : In(a, tc[c].taken) =>
         /\ \A d \in TCpus \ {c} : ~In(a, tc[d].taken)
         /\ \A s \in Roots : ~Owns(s, a)
    /\ \A s, r \in Roots : Owns(s, a) /\ Owns(r, a) => s = r
AsidsOK ==
    /\ Once(pool.reusable) /\ Once(pool.retired) /\ \A c \in TCpus : Once(tc[c].taken)
    /\ \A a \in 1..MaxAsid : AsidOK(a)

\* RISC-V: an entry outlives the stay in its space, but not the flush that
\* makes its ASID reusable; LoongArch: only entries of the space the CPU is in.
EntriesOK ==
    \A c \in TCpus : \A e \in tlb[c] :
        /\ e.asid = 0 \/ ~riscv =>
             tc[c].satp \in Roots /\ e.root = tc[c].satp /\ e.asid = sps[tc[c].satp].asid
        /\ e.asid # 0 /\ riscv =>
             /\ e.asid < pool.next /\ ~In(e.asid, pool.reusable)
             /\ \A d \in TCpus : tc[d].at = "reuse" => ~In(e.asid, tc[d].taken)
             /\ \A s \in Roots : Owns(s, e.asid) => e.root = s

\* A generation that is still to be posted to a CPU is news to it.
GensOK ==
    /\ \A c \in TCpus : tc[c].req <= gen /\ tc[c].ack <= gen /\ tc[c].mine <= gen
    /\ \A k, j \in TCpus : k # j /\ tc[k].at = "post" /\ tc[j].at = "post" => tc[k].mine # tc[j].mine
    /\ \A k, d \in TCpus : tc[k].at = "post" /\ d \in tc[k].todo =>
         /\ d # k /\ tc[k].mine # tc[d].ack /\ tc[k].mine # tc[d].req
         /\ tc[d].at = "flush" => tc[k].mine # tc[d].mine

\* An entry older than its space's page table, under the space's ASID.
Old(e, s) == e.root = s /\ e.asid = sps[s].asid /\ sps[s].live /\ e.ver < sps[s].ver

\* The editor of s has not yet told c; it has not yet had c flush.
UntoldBy(k, c, s) ==
    tc[k].sp = s /\ (tc[k].at = "generation" \/ (tc[k].at = "post" /\ c \in tc[k].todo))
Untold(c, s) == \E k \in TCpus \ {c} : UntoldBy(k, c, s)
UnflushedBy(k, c, s) ==
    /\ Edits(k, s)
    /\ riscv => \/ tc[k].at \in {"generation", "post", "sample"}
                \/ tc[k].at = "fence" /\ c \in tc[k].todo
    /\ ~riscv => /\ tc[k].at \in {"post", "wait"} => c \in tc[k].todo
                 /\ tc[k].at = "wait" => tc[k].mine # tc[c].ack
Unflushed(c, s) == \E k \in TCpus \ {c} : UnflushedBy(k, c, s)

\* RISC-V: a CPU with an old entry has a generation to answer, or will get one.
OldIsNews ==
    riscv => \A c \in TCpus, s \in Roots : \A e \in tlb[c] :
        Old(e, s) => tc[c].req # tc[c].ack \/ Untold(c, s)

\* Whoever is in a space has at most the last version but one in its TLB, and
\* that only while the editor has still to make it flush.
InsideOK ==
    \A c \in TCpus, s \in Roots : tc[c].satp = s =>
        \A e \in tlb[c] : e.asid = sps[s].asid =>
            /\ e.ver >= sps[s].done
            /\ e.ver < sps[s].ver => Unflushed(c, s)

\* Nobody is about to install the root of a space it has old entries of.
ChangeOK ==
    \A c \in TCpus, s \in Roots : tc[c].at = "change" /\ tc[c].sp = s /\ riscv =>
        \A e \in tlb[c] : ~Old(e, s)

\* Everybody in the space is among the targets, and has the interrupt.
TargetsBy(k) ==
    tc[k].at \in {"post", "wait"} /\ ~riscv =>
        \A d \in TCpus \ {k} : tc[d].active = tc[k].sp =>
            /\ d \in tc[k].todo /\ tc[d].ack # tc[k].mine
            /\ tc[k].at = "wait" => tc[d].ipi
TargetsOK == \A k \in TCpus : TargetsBy(k)

TlbInv == /\ TlbTypeOK /\ ControlOK /\ AsidsOK /\ EntriesOK /\ GensOK
          /\ OldIsNews /\ InsideOK /\ ChangeOK /\ TargetsOK

-----------------------------------------------------------------------------
(* Updates *)

CpuRec == [at : {"kernel", "mark", "flush", "change", "user", "trap", "ipi",
                 "generation", "post", "sample", "fence", "fenced", "lock",
                 "resample", "wait", "recycle", "reuse"},
           satp : Roots \cup {NoRoot}, active : Roots \cup {NoRoot},
           req : Nat, ack : Nat, ipi : BOOLEAN, sp : Roots \cup {NoRoot},
           mine : Nat, todo : SUBSET TCpus, back : {"kernel", "trap"},
           taken : Seq(1..MaxAsid)]
SpRec == [live : BOOLEAN, asid : 0..MaxAsid, ver : 0..MaxVer, done : 0..MaxVer,
          lock : TCpus \cup {NoRoot}]
PoolRec == [next : 1..(MaxAsid + 1), reusable : Seq(1..MaxAsid), retired : Seq(1..MaxAsid)]
TlbRec == [asid : 0..MaxAsid, root : Roots, ver : 0..MaxVer]

LEMMA Types ==
  TlbTypeOK <=> /\ tc \in [TCpus -> CpuRec]
                /\ sps \in [Roots -> SpRec]
                /\ pool \in PoolRec
  BY Zenon DEF TlbTypeOK, CpuRec, SpRec, PoolRec

LEMMA TypesNext ==
  TlbTypeOK' <=> /\ tc' \in [TCpus -> CpuRec]
                 /\ sps' \in [Roots -> SpRec]
                 /\ pool' \in PoolRec
  BY Zenon DEF TlbTypeOK, CpuRec, SpRec, PoolRec

LEMMA CpuSame ==
  ASSUME NEW d, CpuOK(d), tc'[d] = tc[d], riscv' = riscv
  PROVE  CpuOK(d)'
  BY Zenon DEF CpuOK

LEMMA SpSame ==
  ASSUME NEW d, CpuOK(d), SpOK(d), tc'[d] = tc[d],
         tc[d].sp \in Roots => /\ sps'[tc[d].sp].live = sps[tc[d].sp].live
                               /\ sps'[tc[d].sp].ver = sps[tc[d].sp].ver
                               /\ Holds(d, tc[d].sp) => sps'[tc[d].sp] = sps[tc[d].sp]
  PROVE  SpOK(d)'
  <1>1. CASE tc[d].at \in Entering \cup Editing \cup Making \cup {"user", "trap"}
    <2>1. tc[d].sp \in Roots BY <1>1, Zenon DEF CpuOK
    <2> QED BY <2>1, Zenon DEF SpOK, Holds
  <1>2. CASE tc[d].at \notin Entering \cup Editing \cup Making \cup {"user", "trap"}
    BY <1>2, Zenon DEF SpOK
  <1> QED BY <1>1, <1>2, Zenon

LEMMA KernelCpu ==
  ASSUME NEW c, CpuOK(c), tc[c].at \in {"kernel", "reuse"}, riscv' = riscv,
         tc'[c].at = "kernel", tc'[c].sp = NoRoot, tc'[c].taken = <<>>,
         tc'[c].satp = tc[c].satp, tc'[c].active = tc[c].active, tc'[c].ipi = tc[c].ipi
  PROVE  CpuOK(c)' /\ SpOK(c)'
  <1>1. CpuOK(c)' BY Zenon DEF CpuOK, Entering, Editing, Making, OnlyRiscv, OnlyLoong
  <1>2. SpOK(c)' BY Zenon DEF SpOK, Entering, Editing, Making
  <1> QED BY <1>1, <1>2, Zenon

LEMMA CpuSet ==
  ASSUME tc \in [TCpus -> CpuRec], NEW c \in TCpus, NEW new \in CpuRec, Cpu(c, new)
  PROVE  /\ tc' \in [TCpus -> CpuRec] /\ tc'[c] = new
         /\ \A d \in TCpus \ {c} : tc'[d] = tc[d]
  BY Zenon DEF Cpu

LEMMA SpSet ==
  ASSUME sps \in [Roots -> SpRec], NEW s \in Roots, NEW new \in SpRec, Sp(s, new)
  PROVE  /\ sps' \in [Roots -> SpRec] /\ sps'[s] = new
         /\ \A r \in Roots \ {s} : sps'[r] = sps[r]
  BY DEF Sp

\* Only CPU c moves.
Moves(c) == tc' \in [TCpus -> CpuRec] /\ \A d \in TCpus \ {c} : tc'[d] = tc[d]

\* The owners of the ASIDs stay, and also the contents of their page tables.
SameOwners == \A s \in Roots : sps'[s].live = sps[s].live /\ sps'[s].asid = sps[s].asid
SameSpaces == SameOwners /\ \A s \in Roots : sps'[s].ver = sps[s].ver

-----------------------------------------------------------------------------
(* What a step of one CPU leaves alone *)

LEMMA OneHolder ==
  ASSUME TlbInv, NEW c \in TCpus, NEW d \in TCpus, NEW s \in Roots, Holds(c, s), Holds(d, s)
  PROVE  c = d
  <1>1. SpOK(c) /\ SpOK(d) BY Zenon DEF TlbInv, ControlOK
  <1> QED BY <1>1, Zenon DEF SpOK, Holds

LEMMA ControlKept ==
  ASSUME TlbInv, NEW c \in TCpus, Moves(c), UNCHANGED <<riscv, sps>>, gen' \in Nat,
         shoot' \in TCpus \cup {NoRoot},
         \A d \in TCpus : tlb'[d] \subseteq tlb[d], tlb' \in [TCpus -> SUBSET TlbRec],
         CpuOK(c)', SpOK(c)',
         \A s \in Roots : Holds(c, s) => Holds(c, s)',
         \A s \in Roots : Edits(c, s)  => Edits(c, s)',
         tc'[c].at \in Making => tc[c].at \in Making /\ tc'[c].sp = tc[c].sp
  PROVE  ControlOK'
  <1>0. ControlOK BY Zenon DEF TlbInv
  <1>1. \A d \in TCpus : CpuOK(d)' /\ SpOK(d)'
    <2>1. ASSUME NEW d \in TCpus, d # c PROVE CpuOK(d)' /\ SpOK(d)'
      <3>1. tc'[d] = tc[d] /\ riscv' = riscv /\ sps' = sps /\ CpuOK(d) /\ SpOK(d)
        BY <1>0, <2>1, Zenon DEF Moves, ControlOK
      <3> QED BY <3>1 DEF CpuOK, SpOK
    <2> QED BY <2>1, Zenon
  <1>2. LocksOK'
    <2>1. ASSUME NEW s \in Roots, sps[s].lock # NoRoot PROVE Holds(sps[s].lock, s)'
      <3>1. PICK d : d = sps[s].lock BY Zenon
      <3>2. d \in TCpus BY <2>1, <3>1, Types, Zenon DEF TlbInv, SpRec
      <3>3. Holds(d, s) BY <1>0, <2>1, <3>1, Zenon DEF ControlOK, LocksOK
      <3>4. Holds(d, s)' BY <3>2, <3>3, Zenon DEF Holds, Moves
      <3> QED BY <3>1, <3>4, Zenon
    <2> QED BY <2>1, Zenon DEF LocksOK
  <1>3. MakersApart' BY <1>0 DEF ControlOK, MakersApart, Moves
  <1>4. DoneOK'
    <2>1. \A k \in TCpus, s \in Roots : Edits(k, s) => Edits(k, s)' BY Zenon DEF Edits, Moves
    <2> QED BY <1>0, <2>1, Zenon DEF ControlOK, DoneOK
  <1> QED BY <1>0, <1>1, <1>2, <1>3, <1>4, Zenon DEF ControlOK, TlbRec

LEMMA AsidsKept ==
  ASSUME TlbInv, UNCHANGED pool, SameOwners, \A d \in TCpus : tc'[d].taken = tc[d].taken
  PROVE  AsidsOK'
  <1>1. AsidsOK /\ pool' = pool BY Zenon DEF TlbInv
  <1>2. \A s \in Roots, a \in 1..MaxAsid : Owns(s, a)' <=> Owns(s, a) BY Zenon DEF Owns, SameOwners
  <1> QED BY <1>1, <1>2, Zenon DEF AsidsOK, AsidOK

LEMMA EntriesKept ==
  ASSUME TlbInv, NEW c \in TCpus, Moves(c), UNCHANGED <<riscv, pool>>, SameOwners,
         \A d \in TCpus : tlb'[d] \subseteq tlb[d],
         tlb'[c] = {} \/ tc'[c].satp = tc[c].satp \/ (riscv /\ \A e \in tlb'[c] : e.asid # 0),
         tc'[c].at # "reuse"
  PROVE  EntriesOK'
  <1>1. EntriesOK /\ pool' = pool /\ riscv' = riscv BY Zenon DEF TlbInv
  <1>2. \A s \in Roots : \A a : Owns(s, a)' <=> Owns(s, a) BY Zenon DEF Owns, SameOwners
  <1>3. \A d \in TCpus : tc'[d].at = "reuse" => tc[d].at = "reuse" /\ tc'[d].taken = tc[d].taken
    BY Zenon DEF Moves
  <1> SUFFICES ASSUME NEW d \in TCpus, NEW e \in tlb'[d]
               PROVE  /\ e.asid = 0 \/ ~riscv =>
                           tc'[d].satp \in Roots /\ e.root = tc'[d].satp /\ e.asid = sps'[tc'[d].satp].asid
                      /\ e.asid # 0 /\ riscv =>
                           /\ e.asid < pool.next /\ ~In(e.asid, pool.reusable)
                           /\ \A x \in TCpus : tc'[x].at = "reuse" => ~In(e.asid, tc'[x].taken)
                           /\ \A s \in Roots : Owns(s, e.asid)' => e.root = s
    BY <1>1 DEF EntriesOK
  <1>4. e \in tlb[d] BY Zenon
  <1>5. ASSUME e.asid = 0 \/ ~riscv
        PROVE  tc'[d].satp \in Roots /\ e.root = tc'[d].satp /\ e.asid = sps'[tc'[d].satp].asid
    <2>1. tc'[d].satp = tc[d].satp BY <1>5, Zenon DEF Moves
    <2> QED BY <1>1, <1>4, <1>5, <2>1 DEF EntriesOK, SameOwners
  <1>6. ASSUME e.asid # 0, riscv
        PROVE  /\ e.asid < pool.next /\ ~In(e.asid, pool.reusable)
               /\ \A x \in TCpus : tc'[x].at = "reuse" => ~In(e.asid, tc'[x].taken)
               /\ \A s \in Roots : Owns(s, e.asid)' => e.root = s
    BY <1>1, <1>2, <1>3, <1>4, <1>6, Zenon DEF EntriesOK
  <1> QED BY <1>5, <1>6, Zenon

LEMMA GensKept ==
  ASSUME TlbInv, NEW c \in TCpus, Moves(c), gen' \in Nat, gen' >= gen,
         tc'[c].req = tc[c].req,
         tc'[c].ack \in {tc[c].ack, tc[c].req} \/ (tc[c].at = "flush" /\ tc'[c].ack = tc[c].mine),
         tc'[c].mine \in {tc[c].mine, tc[c].req},
         tc'[c].at = "flush" => tc'[c].mine = tc[c].req,
         tc'[c].at # "post"
  PROVE  GensOK'
  <1>1. GensOK BY Zenon DEF TlbInv
  <1>2. tc \in [TCpus -> CpuRec] /\ gen \in Nat BY Types, Zenon DEF TlbInv, ControlOK
  <1>3. \A d \in TCpus : tc[d].req \in Nat /\ tc[d].ack \in Nat /\ tc[d].mine \in Nat
    BY <1>2, Zenon DEF CpuRec
  <1>4. \A d \in TCpus : tc'[d].req <= gen' /\ tc'[d].ack <= gen' /\ tc'[d].mine <= gen'
    <2>1. \A d \in TCpus : tc[d].req <= gen' /\ tc[d].ack <= gen' /\ tc[d].mine <= gen'
      BY <1>1, <1>2, <1>3 DEF GensOK
    <2> QED BY <2>1, Zenon DEF Moves
  <1>5. \A k \in TCpus : tc'[k].at = "post" => k # c /\ tc'[k] = tc[k] BY Zenon DEF Moves
  <1>6. \A k, j \in TCpus : k # j /\ tc'[k].at = "post" /\ tc'[j].at = "post"
                              => tc'[k].mine # tc'[j].mine
    BY <1>1, <1>5 DEF GensOK
  <1>7. ASSUME NEW k \in TCpus, NEW d \in TCpus, tc'[k].at = "post", d \in tc'[k].todo
        PROVE  /\ d # k /\ tc'[k].mine # tc'[d].ack /\ tc'[k].mine # tc'[d].req
               /\ tc'[d].at = "flush" => tc'[k].mine # tc'[d].mine
    <2>1. /\ d # k /\ tc[k].mine # tc[d].ack /\ tc[k].mine # tc[d].req
          /\ tc[d].at = "flush" => tc[k].mine # tc[d].mine
      BY <1>1, <1>5, <1>7 DEF GensOK
    <2> QED BY <1>5, <1>7, <2>1, Zenon DEF Moves
  <1> QED BY <1>4, <1>6, <1>7, Zenon DEF GensOK

LEMMA OldKept ==
  ASSUME TlbInv, NEW c \in TCpus, Moves(c), UNCHANGED riscv, SameSpaces,
         \A d \in TCpus : tlb'[d] \subseteq tlb[d],
         tlb'[c] = {} \/ (tc'[c].req = tc[c].req /\ tc'[c].ack = tc[c].ack),
         riscv => \A d \in TCpus \ {c}, s \in Roots : UntoldBy(c, d, s) => UntoldBy(c, d, s)'
  PROVE  OldIsNews'
  <1> SUFFICES ASSUME riscv, NEW d \in TCpus, NEW s \in Roots, NEW e \in tlb'[d], Old(e, s)'
               PROVE  tc'[d].req # tc'[d].ack \/ Untold(d, s)'
    BY Zenon DEF OldIsNews
  <1>1. e \in tlb[d] /\ Old(e, s) BY Zenon DEF Old, SameSpaces, SameOwners
  <1>2. tc[d].req # tc[d].ack \/ Untold(d, s) BY <1>1, Zenon DEF TlbInv, OldIsNews
  <1>3. tc'[d].req = tc[d].req /\ tc'[d].ack = tc[d].ack BY Zenon DEF Moves
  <1>4. Untold(d, s) => Untold(d, s)'
    <2>1. \A k \in TCpus \ {c} : UntoldBy(k, d, s) => UntoldBy(k, d, s)' BY Zenon DEF UntoldBy, Moves
    <2> QED BY <2>1, Zenon DEF Untold
  <1> QED BY <1>2, <1>3, <1>4, Zenon

LEMMA InsideKept ==
  ASSUME TlbInv, NEW c \in TCpus, Moves(c), UNCHANGED riscv, SameSpaces,
         \A s \in Roots : sps'[s].done = sps[s].done,
         \A d \in TCpus : tlb'[d] \subseteq tlb[d],
         \/ tlb'[c] = {} \/ tc'[c].satp = NoRoot
         \/ (tc'[c].satp = tc[c].satp /\ tc'[c].ack = tc[c].ack),
         \A d \in TCpus \ {c} : \A s \in Roots :
            tlb'[d] # {} /\ tc[d].satp = s /\ UnflushedBy(c, d, s) => UnflushedBy(c, d, s)'
  PROVE  InsideOK'
  <1>1. InsideOK /\ NoRoot \notin Roots BY TlbAssumption, Zenon DEF TlbInv
  <1> SUFFICES ASSUME NEW d \in TCpus, NEW s \in Roots, tc'[d].satp = s, NEW e \in tlb'[d],
                      e.asid = sps'[s].asid
               PROVE  /\ e.ver >= sps'[s].done
                      /\ e.ver < sps'[s].ver => Unflushed(d, s)'
    BY Zenon DEF InsideOK
  <1>3. tc[d].satp = s /\ tc'[d].ack = tc[d].ack BY <1>1, Zenon DEF Moves
  <1>4. e \in tlb[d] /\ e.asid = sps[s].asid BY Zenon DEF SameSpaces, SameOwners
  <1>5. e.ver >= sps[s].done /\ (e.ver < sps[s].ver => Unflushed(d, s))
    BY <1>1, <1>3, <1>4, Zenon DEF InsideOK
  <1>6. Unflushed(d, s) => Unflushed(d, s)'
    <2>1. \A k \in TCpus \ {d} : UnflushedBy(k, d, s) => UnflushedBy(k, d, s)'
      <3>1. CASE d = c BY <1>3, <3>1, Zenon DEF UnflushedBy, Edits, Moves
      <3>2. CASE d # c
        <4>1. UnflushedBy(c, d, s) => UnflushedBy(c, d, s)' BY <1>3, <1>4, <3>2, Zenon
        <4>2. \A k \in TCpus \ {d, c} : UnflushedBy(k, d, s) => UnflushedBy(k, d, s)'
          BY <1>3, <3>2, Zenon DEF UnflushedBy, Edits, Moves
        <4> QED BY <4>1, <4>2, Zenon
      <3> QED BY <3>1, <3>2, Zenon
    <2> QED BY <2>1, Zenon DEF Unflushed
  <1> QED BY <1>5, <1>6, Zenon DEF SameSpaces

LEMMA ChangeKept ==
  ASSUME TlbInv, NEW c \in TCpus, Moves(c), UNCHANGED riscv, SameSpaces,
         \A d \in TCpus : tlb'[d] \subseteq tlb[d],
         tc'[c].at = "change" => (tc[c].at = "change" /\ tc'[c].sp = tc[c].sp) \/ tlb'[c] = {}
  PROVE  ChangeOK'
  <1>1. ChangeOK /\ \A d \in TCpus : CpuOK(d) BY Zenon DEF TlbInv, ControlOK
  <1> SUFFICES ASSUME NEW d \in TCpus, NEW s \in Roots, tc'[d].at = "change", tc'[d].sp = s, riscv,
                      NEW e \in tlb'[d]
               PROVE  ~Old(e, s)'
    BY Zenon DEF ChangeOK
  <1>2. tc[d].at = "change" /\ tc[d].sp = s /\ e \in tlb[d] BY Zenon DEF Moves
  <1>4. ~Old(e, s) BY <1>1, <1>2, Zenon DEF ChangeOK
  <1> QED BY <1>4, Zenon DEF Old, SameSpaces, SameOwners

LEMMA TargetsKept ==
  ASSUME TlbInv, NEW c \in TCpus, Moves(c), UNCHANGED riscv, TargetsBy(c)',
         \/ tc'[c].active = NoRoot \/ riscv
         \/ (tc'[c].active = tc[c].active /\ tc'[c].ack = tc[c].ack /\ (tc[c].ipi => tc'[c].ipi))
         \/ (\E s \in Roots : tc'[c].active = s /\ Holds(c, s))
  PROVE  TargetsOK'
  <1>1. TargetsOK /\ \A d \in TCpus : CpuOK(d) BY Zenon DEF TlbInv, ControlOK
  <1> SUFFICES ASSUME NEW k \in TCpus \ {c}, NEW d \in TCpus \ {k}, tc[k].at \in {"post", "wait"}, ~riscv,
                      tc'[d].active = tc[k].sp
               PROVE  /\ d \in tc[k].todo /\ tc'[d].ack # tc[k].mine
                      /\ tc[k].at = "wait" => tc'[d].ipi
    <2>1. \A k \in TCpus \ {c} : tc'[k] = tc[k] BY Zenon DEF Moves
    <2> QED BY <2>1 DEF TargetsOK, TargetsBy
  <1>3. tc[k].sp \in Roots BY <1>1, Zenon DEF CpuOK, Editing
  <1>4. /\ tc'[d].active = tc[d].active /\ tc'[d].ack = tc[d].ack /\ (tc[d].ipi => tc'[d].ipi)
    <2>1. \A s \in Roots : Holds(c, s) /\ s = tc[k].sp => k = c
      <3>1. Holds(k, tc[k].sp) BY Zenon DEF Holds, Editing
      <3> QED BY <1>3, <3>1, OneHolder, Zenon
    <2> QED BY <1>3, <2>1, TlbAssumption, Zenon DEF Moves
  <1> QED BY <1>1, <1>4, Zenon DEF TargetsOK, TargetsBy

LEMMA SatpActive ==
  ASSUME TlbInv, NEW d \in TCpus, tc[d].satp \in Roots
  PROVE  tc[d].active = tc[d].satp
  <1>1. CpuOK(d) /\ tc[d] \in CpuRec BY Types, Zenon DEF TlbInv, ControlOK
  <1>2. NoRoot \notin Roots BY TlbAssumption, Zenon
  <1> QED BY <1>1, <1>2, Zenon DEF CpuOK, CpuRec, Entering, Editing, Making

LEMMA GensPost ==
  ASSUME TlbInv, NEW c \in TCpus, Moves(c), gen' = gen + 1,
         tc'[c].req = tc[c].req, tc'[c].ack = tc[c].ack, tc'[c].mine = gen + 1,
         tc'[c].at = "post", c \notin tc'[c].todo
  PROVE  GensOK'
  <1>1. GensOK BY Zenon DEF TlbInv
  <1>2. tc \in [TCpus -> CpuRec] /\ gen \in Nat BY Types, Zenon DEF TlbInv, ControlOK
  <1>3. \A d \in TCpus : tc[d].req \in Nat /\ tc[d].ack \in Nat /\ tc[d].mine \in Nat
    BY <1>2, Zenon DEF CpuRec
  <1>4. \A d \in TCpus : /\ tc'[d].req <= gen /\ tc'[d].ack <= gen
                         /\ tc'[d].req \in Nat /\ tc'[d].ack \in Nat
    BY <1>1, <1>3, Zenon DEF GensOK, Moves
  <1>5. \A d \in TCpus \ {c} : tc'[d].mine <= gen /\ tc'[d].mine \in Nat
    BY <1>1, <1>3, Zenon DEF GensOK, Moves
  <1>6. \A d \in TCpus : tc'[d].req <= gen' /\ tc'[d].ack <= gen' /\ tc'[d].mine <= gen'
    BY <1>2, <1>4, <1>5
  <1>7. \A d \in TCpus \ {c} : tc'[d].mine # gen + 1 BY <1>2, <1>5
  <1>8. \A d \in TCpus : tc'[d].req # gen + 1 /\ tc'[d].ack # gen + 1 BY <1>2, <1>4
  <1>9. \A k, j \in TCpus : k # j /\ tc'[k].at = "post" /\ tc'[j].at = "post"
                              => tc'[k].mine # tc'[j].mine
    BY <1>1, <1>7 DEF GensOK, Moves
  <1>10. ASSUME NEW k \in TCpus, NEW d \in TCpus, tc'[k].at = "post", d \in tc'[k].todo
         PROVE  /\ d # k /\ tc'[k].mine # tc'[d].ack /\ tc'[k].mine # tc'[d].req
                /\ tc'[d].at = "flush" => tc'[k].mine # tc'[d].mine
    <2>1. CASE k = c BY <1>7, <1>8, <1>10, <2>1, Zenon
    <2>2. CASE k # c
      <3>1. /\ d # k /\ tc[k].mine # tc[d].ack /\ tc[k].mine # tc[d].req
            /\ tc[d].at = "flush" => tc[k].mine # tc[d].mine
        BY <1>1, <1>10, <2>2 DEF GensOK, Moves
      <3> QED BY <2>2, <3>1, Zenon DEF Moves
    <2> QED BY <2>1, <2>2, Zenon
  <1> QED BY <1>6, <1>9, <1>10, Zenon DEF GensOK

LEMMA NobodyHolds ==
  ASSUME TlbInv, NEW s \in Roots, sps[s].lock = NoRoot, NEW d \in TCpus
  PROVE  ~Holds(d, s)
  <1>1. SpOK(d) BY Zenon DEF TlbInv, ControlOK
  <1> QED BY <1>1, TlbAssumption, Zenon DEF SpOK, Holds

LEMMA ControlLocks ==
  ASSUME TlbInv, NEW c \in TCpus, Moves(c), UNCHANGED riscv, NEW s \in Roots,
         sps' \in [Roots -> SpRec], \A r \in Roots \ {s} : sps'[r] = sps[r], SameSpaces,
         gen' \in Nat, shoot' \in TCpus \cup {NoRoot}, tlb' \in [TCpus -> SUBSET TlbRec],
         CpuOK(c)', SpOK(c)', \A d \in TCpus \ {c} : ~Holds(d, s),
         \A r \in Roots \ {s} : Holds(c, r) => Holds(c, r)',
         \A r \in Roots \ {s} : Edits(c, r) => Edits(c, r)',
         sps'[s].lock = NoRoot \/ (sps'[s].lock = c /\ Holds(c, s)'),
         Edits(c, s)' \/ sps'[s].done = sps'[s].ver,
         tc'[c].at \in Making => tc[c].at \in Making /\ tc'[c].sp = tc[c].sp
  PROVE  ControlOK'
  <1>0. ControlOK BY Zenon DEF TlbInv
  <1>1. \A d \in TCpus : CpuOK(d)' /\ SpOK(d)'
    <2>1. ASSUME NEW d \in TCpus, d # c PROVE CpuOK(d)' /\ SpOK(d)'
      <3>1. tc'[d] = tc[d] /\ riscv' = riscv /\ CpuOK(d) /\ SpOK(d) /\ ~Holds(d, s)
        BY <1>0, <2>1, Zenon DEF Moves, ControlOK
      <3>2. CpuOK(d)' BY <3>1, CpuSame, Zenon
      <3>4. \A r \in Roots : sps'[r].live = sps[r].live /\ sps'[r].ver = sps[r].ver
        BY Zenon DEF SameSpaces, SameOwners
      <3>5. Holds(d, tc[d].sp) => tc[d].sp # s BY <3>1, Zenon
      <3>3. SpOK(d)' BY <3>1, <3>4, <3>5, SpSame, Zenon
      <3> QED BY <3>2, <3>3, Zenon
    <2> QED BY <2>1, Zenon
  <1>2. LocksOK'
    <2>1. ASSUME NEW r \in Roots, r # s, NEW d, d = sps[r].lock, d # NoRoot PROVE Holds(d, r)'
      <3>2. d \in TCpus BY <2>1, Types, Zenon DEF TlbInv, SpRec
      <3>3. Holds(d, r) BY <1>0, <2>1, Zenon DEF ControlOK, LocksOK
      <3> QED BY <2>1, <3>2, <3>3, Zenon DEF Holds, Moves
    <2>2. ASSUME NEW r \in Roots, NEW d, d = sps'[r].lock, d # NoRoot PROVE Holds(d, r)'
      BY <2>1, <2>2, Zenon
    <2> QED BY <2>2, Zenon DEF LocksOK
  <1>3. MakersApart' BY <1>0 DEF ControlOK, MakersApart, Moves
  <1>4. DoneOK'
    <2>1. \A k \in TCpus, r \in Roots \ {s} : Edits(k, r) => Edits(k, r)' BY Zenon DEF Edits, Moves
    <2>2. ASSUME NEW r \in Roots, sps'[r].live, \A k \in TCpus : ~Edits(k, r)'
          PROVE  sps'[r].done = sps'[r].ver
      <3>1. CASE r = s BY <2>2, <3>1, Zenon
      <3>2. CASE r # s BY <1>0, <2>1, <2>2, <3>2, Zenon DEF ControlOK, DoneOK
      <3> QED BY <3>1, <3>2, Zenon
    <2> QED BY <2>2, Zenon DEF DoneOK
  <1> QED BY <1>0, <1>1, <1>2, <1>3, <1>4, Zenon DEF ControlOK, TlbRec

-----------------------------------------------------------------------------
(* Lists of ASIDs *)

LEMMA InAppend ==
  ASSUME NEW S, NEW q \in Seq(S), NEW x \in S, NEW w, w = Append(q, x)
  PROVE  /\ \A a : In(a, w) <=> In(a, q) \/ a = x
         /\ Once(q) /\ ~In(x, q) => Once(w)
  <1>1. /\ Len(w) = Len(q) + 1 /\ Len(q) \in Nat
        /\ \A i \in 1..Len(q) : w[i] = q[i]
        /\ w[Len(q) + 1] = x
    OBVIOUS
  <1>2. \A i \in 1..Len(w) : i \in 1..Len(q) \/ i = Len(q) + 1 BY <1>1
  <1>3. \A i \in 1..Len(q) : i \in 1..Len(w) BY <1>1
  <1>4. Len(q) + 1 \in 1..Len(w) BY <1>1
  <1>6. \A a : In(a, w) <=> In(a, q) \/ a = x BY <1>1, <1>2, <1>3, <1>4, Zenon DEF In
  <1>7. Once(q) /\ ~In(x, q) => Once(w) BY <1>1, <1>2 DEF Once, In
  <1> QED BY <1>6, <1>7, Zenon

LEMMA InConcat ==
  ASSUME NEW S, NEW q \in Seq(S), NEW r \in Seq(S)
  PROVE  /\ \A a : In(a, q \o r) <=> In(a, q) \/ In(a, r)
         /\ Once(q) /\ Once(r) /\ (\A a : In(a, q) => ~In(a, r)) => Once(q \o r)
  <1>1. /\ Len(q \o r) = Len(q) + Len(r) /\ Len(q) \in Nat /\ Len(r) \in Nat
        /\ \A i \in 1..Len(q) : (q \o r)[i] = q[i]
        /\ \A i \in 1..Len(r) : (q \o r)[Len(q) + i] = r[i]
    OBVIOUS
  <1> DEFINE w == q \o r
  <1> HIDE DEF w
  <1>2. \A i \in 1..Len(w) : i \in 1..Len(q) \/ \E j \in 1..Len(r) : i = Len(q) + j
    <2> SUFFICES ASSUME NEW i \in 1..Len(w), i \notin 1..Len(q)
                 PROVE  \E j \in 1..Len(r) : i = Len(q) + j
      BY Zenon
    <2>1. i - Len(q) \in 1..Len(r) /\ i = Len(q) + (i - Len(q)) BY <1>1 DEF w
    <2> QED BY <2>1, Zenon
  <1>3. /\ \A i \in 1..Len(q) : i \in 1..Len(w) /\ w[i] = q[i]
        /\ \A j \in 1..Len(r) : Len(q) + j \in 1..Len(w) /\ w[Len(q) + j] = r[j]
    BY <1>1 DEF w
  <1>6. \A a : In(a, w) <=> In(a, q) \/ In(a, r)
    <2>1. ASSUME NEW a, In(a, w) PROVE In(a, q) \/ In(a, r)
      <3>1. PICK i \in 1..Len(w) : w[i] = a BY <2>1, Zenon DEF In
      <3> QED BY <1>2, <1>3, <3>1, Zenon DEF In
    <2>2. ASSUME NEW a, In(a, q) \/ In(a, r) PROVE In(a, w) BY <1>3, <2>2, Zenon DEF In
    <2> QED BY <2>1, <2>2, Zenon
  <1>7. ASSUME Once(q), Once(r), \A a : In(a, q) => ~In(a, r) PROVE Once(w)
    <2> SUFFICES ASSUME NEW i \in 1..Len(w), NEW j \in 1..Len(w), w[i] = w[j] PROVE i = j
      BY Zenon DEF Once
    <2>1. CASE i \in 1..Len(q) /\ j \in 1..Len(q) BY <1>3, <1>7, <2>1, Zenon DEF Once
    <2>2. ASSUME NEW k \in 1..Len(r), NEW l \in 1..Len(r), i = Len(q) + k, j = Len(q) + l
          PROVE  i = j
      BY <1>3, <1>7, <2>2 DEF Once
    <2>3. ASSUME NEW k \in 1..Len(q), NEW l \in 1..Len(r), w[k] = w[Len(q) + l] PROVE FALSE
      BY <1>3, <1>7, <2>3, ZenonT(30) DEF In
    <2> QED BY <1>2, <2>1, <2>2, <2>3, Zenon
  <1> QED BY <1>6, <1>7, Zenon DEF w

LEMMA Prefix ==
  ASSUME NEW S, NEW q \in Seq(S), NEW n \in Int, \A i \in 1..n : q[i] \in S, 0 <= n
  PROVE  /\ SubSeq(q, 1, n) \in Seq(S) /\ Len(SubSeq(q, 1, n)) = n
         /\ \A i \in 1..n : SubSeq(q, 1, n)[i] = q[i]
  OBVIOUS

LEMMA InFront ==
  ASSUME NEW S, NEW q \in Seq(S), q # <<>>, Once(q)
  PROVE  LET f == SubSeq(q, 1, Len(q) - 1)
         IN  /\ f \in Seq(S) /\ Once(f) /\ Len(q) \in 1..Len(q) /\ q[Len(q)] \in S
             /\ \A a : In(a, f) <=> In(a, q) /\ a # q[Len(q)]
  <1> DEFINE f == SubSeq(q, 1, Len(q) - 1)
  <1>1. Len(q) \in Nat /\ Len(q) # 0 OBVIOUS
  <1>2. Len(q) - 1 \in Nat /\ Len(q) \in 1..Len(q) /\ Len(q) - 1 <= Len(q) BY <1>1
  <1>3. /\ f \in Seq(S) /\ Len(f) = Len(q) - 1
        /\ \A i \in 1..(Len(q) - 1) : f[i] = q[i]
    <2>1. Len(q) - 1 \in Int /\ 0 <= Len(q) - 1 /\ \A i \in 1..(Len(q) - 1) : q[i] \in S BY <1>1
    <2> QED BY <2>1, Prefix, Zenon
  <1>4. \A i \in 1..Len(q) : i \in 1..(Len(q) - 1) \/ i = Len(q) BY <1>1
  <1>5. \A i \in 1..(Len(q) - 1) : i \in 1..Len(q) /\ i # Len(q) BY <1>1
  <1> HIDE DEF f
  <1>6. Once(f) BY <1>3, <1>5, Zenon DEF Once
  <1>7. \A a : In(a, f) <=> In(a, q) /\ a # q[Len(q)]
    BY <1>2, <1>3, <1>4, <1>5, Zenon DEF In, Once
  <1>8. q[Len(q)] \in S BY <1>2
  <1> QED BY <1>2, <1>3, <1>6, <1>7, <1>8, Zenon DEF f

-----------------------------------------------------------------------------
(* ASIDs given out, taken back and used again *)

LEMMA InNone == \A a : ~In(a, <<>>)
  BY DEF In

LEMMA TakenFrom ==
  ASSUME NEW p \in PoolRec, Once(p.reusable), \A a \in 1..MaxAsid : In(a, p.reusable) => a < p.next
  PROVE  /\ Taken(p).asid \in 0..MaxAsid /\ Taken(p).pool \in PoolRec
         /\ Taken(p).pool.retired = p.retired /\ Once(Taken(p).pool.reusable)
         /\ \A a \in 1..MaxAsid : In(a, Taken(p).pool.reusable) <=> In(a, p.reusable) /\ a # Taken(p).asid
         /\ Taken(p).pool.next >= p.next
         /\ Taken(p).asid # 0 => /\ Taken(p).asid < Taken(p).pool.next
                                 /\ In(Taken(p).asid, p.reusable) \/ Taken(p).asid = p.next
  <1>0. /\ p.reusable \in Seq(1..MaxAsid) /\ p.retired \in Seq(1..MaxAsid)
        /\ p.next \in 1..(MaxAsid + 1) /\ MaxAsid \in Nat
    BY TlbAssumption, Zenon DEF PoolRec
  <1>1. CASE p.reusable # <<>>
    <2> DEFINE q == p.reusable
               f == SubSeq(q, 1, Len(q) - 1)
               b == q[Len(q)]
    <2>1. /\ f \in Seq(1..MaxAsid) /\ Once(f) /\ Len(q) \in 1..Len(q) /\ b \in 1..MaxAsid
          /\ \A a : In(a, f) <=> In(a, q) /\ a # b
      BY <1>0, <1>1, InFront, Zenon
    <2>2. Taken(p) = [asid |-> b, pool |-> [p EXCEPT !.reusable = f]] BY <1>1, Zenon DEF Taken
    <2> HIDE DEF f, b
    <2>3. In(b, q) BY <2>1, Zenon DEF In, b
    <2> HIDE DEF q
    <2>4. Taken(p).asid = b /\ Taken(p).pool = [p EXCEPT !.reusable = f] BY <2>2
    <2>5. [p EXCEPT !.reusable = f] \in PoolRec BY <1>0, <2>1, Zenon DEF PoolRec
    <2>6. Taken(p).pool.reusable = f /\ Taken(p).pool.next = p.next /\ Taken(p).pool.retired = p.retired
      BY <2>4, Zenon DEF PoolRec
    <2>7. b < p.next BY <2>1, <2>3, Zenon DEF q
    <2>8. b \in 0..MaxAsid /\ p.next >= p.next BY <1>0, <2>1
    <2> QED BY <2>1, <2>3, <2>4, <2>5, <2>6, <2>7, <2>8, Zenon DEF q
  <1>2. CASE p.reusable = <<>> /\ p.next <= MaxAsid
    <2>1. Taken(p) = [asid |-> p.next, pool |-> [p EXCEPT !.next = p.next + 1]] BY <1>2, Zenon DEF Taken
    <2>2. Taken(p).asid = p.next /\ Taken(p).pool = [p EXCEPT !.next = p.next + 1] BY <2>1
    <2>3. p.next + 1 \in 1..(MaxAsid + 1) /\ p.next \in 0..MaxAsid /\ p.next < p.next + 1 /\ p.next + 1 >= p.next
      BY <1>0, <1>2
    <2>4. [p EXCEPT !.next = p.next + 1] \in PoolRec BY <2>3, Zenon DEF PoolRec
    <2>5. /\ Taken(p).pool.reusable = p.reusable /\ Taken(p).pool.next = p.next + 1
          /\ Taken(p).pool.retired = p.retired
      BY <2>2, Zenon DEF PoolRec
    <2> QED BY <1>2, <2>2, <2>3, <2>4, <2>5, InNone, Zenon
  <1>3. CASE p.reusable = <<>> /\ ~(p.next <= MaxAsid)
    <2>1. Taken(p) = [asid |-> 0, pool |-> p] BY <1>3, Zenon DEF Taken
    <2>2. Taken(p).asid = 0 /\ Taken(p).pool = p BY <2>1
    <2>3. 0 \in 0..MaxAsid /\ p.next >= p.next BY <1>0
    <2> QED BY <1>3, <2>2, <2>3, InNone, Zenon
  <1> QED BY <1>1, <1>2, <1>3, Zenon

\* CPU c, at the end of MemorySet::new(), gives the space s the identifier b
\* that it takes from the pool p, and the version v.
Unborn(c, s) ==
    tc[c].at \in {"kernel", "reuse"} /\ ~sps[s].live /\ \A d \in TCpus \ {c} : tc[d].sp # s
BornCpu(c) ==
    /\ tc' \in [TCpus -> CpuRec] /\ \A d \in TCpus \ {c} : tc'[d] = tc[d]
    /\ tc'[c].at = "kernel" /\ tc'[c].sp = NoRoot /\ tc'[c].taken = <<>>
    /\ tc'[c].satp = tc[c].satp /\ tc'[c].active = tc[c].active /\ tc'[c].req = tc[c].req
    /\ tc'[c].ack = tc[c].ack /\ tc'[c].ipi = tc[c].ipi /\ tc'[c].mine = tc[c].mine
    /\ riscv' = riscv /\ tlb' = tlb /\ gen' = gen /\ shoot' = shoot
BornPool(c, p, b) ==
    /\ p.next = pool.next /\ p.retired = pool.retired /\ Once(p.reusable)
    /\ \A a \in 1..MaxAsid : In(a, p.reusable) <=> In(a, pool.reusable) \/ In(a, tc[c].taken)
    /\ b = Taken(p).asid /\ pool' = Taken(p).pool
BornSp(s, b, v) ==
    /\ sps' \in [Roots -> SpRec] /\ \A r \in Roots \ {s} : sps'[r] = sps[r]
    /\ sps'[s].live /\ sps'[s].asid = b /\ sps'[s].ver = v /\ sps'[s].done = v
    /\ sps'[s].lock = sps[s].lock

LEMMA BornControl ==
  ASSUME ControlOK, NEW c \in TCpus, NEW s \in Roots, NEW b, NEW v, Unborn(c, s),
         BornCpu(c), BornSp(s, b, v), sps \in [Roots -> SpRec]
  PROVE  ControlOK'
  <1>1. CpuOK(c) /\ \A d \in TCpus : CpuOK(d) /\ SpOK(d) BY Zenon DEF ControlOK
  <1>2. CpuOK(c)' /\ SpOK(c)' BY <1>1, KernelCpu, Zenon DEF Unborn, BornCpu
  <1>3. ASSUME NEW d \in TCpus, d # c PROVE CpuOK(d)' /\ SpOK(d)'
    <2>1. tc'[d] = tc[d] /\ riscv' = riscv BY <1>3, Zenon DEF BornCpu
    <2>2. tc[d].sp \in Roots => sps'[tc[d].sp] = sps[tc[d].sp] BY <1>3, Zenon DEF Unborn, BornSp
    <2>3. CpuOK(d)' BY <1>1, <2>1, CpuSame, Zenon
    <2>4. SpOK(d)' BY <1>1, <2>1, <2>2, SpSame, Zenon
    <2> QED BY <2>3, <2>4, Zenon
  <1>4. \A d \in TCpus, r \in Roots : Holds(d, r) => Holds(d, r)'
    <2>1. tc[c].at \notin Entering \cup Editing BY Zenon DEF Unborn, Entering, Editing
    <2> QED BY <2>1, Zenon DEF Holds, BornCpu
  <1>5. LocksOK'
    <2>1. ASSUME NEW r \in Roots, NEW d, d = sps[r].lock, d # NoRoot PROVE Holds(d, r)'
      <3>1. d \in TCpus BY <2>1, Zenon DEF SpRec
      <3>2. Holds(d, r) BY <2>1, Zenon DEF ControlOK, LocksOK
      <3> QED BY <1>4, <3>1, <3>2, Zenon
    <2>2. \A r \in Roots : sps'[r].lock = sps[r].lock BY Zenon DEF BornSp
    <2> QED BY <2>1, <2>2, Zenon DEF LocksOK
  <1>6. MakersApart'
    <2>1. \A d \in TCpus : tc'[d].at \in Making => tc'[d] = tc[d] BY Zenon DEF BornCpu, Making
    <2> QED BY <2>1, Zenon DEF ControlOK, MakersApart
  <1>7. DoneOK'
    <2>1. \A k \in TCpus, r \in Roots : Edits(k, r) => Edits(k, r)'
      <3>1. tc[c].at \notin Editing BY Zenon DEF Unborn, Editing
      <3> QED BY <3>1, Zenon DEF Edits, BornCpu
    <2>2. DoneOK BY Zenon DEF ControlOK
    <2>3. ASSUME NEW r \in Roots, sps'[r].live, \A k \in TCpus : ~Edits(k, r)'
          PROVE  sps'[r].done = sps'[r].ver
      <3>1. CASE r = s BY <3>1, Zenon DEF BornSp
      <3>2. CASE r # s
        <4>1. sps'[r] = sps[r] BY <3>2, Zenon DEF BornSp
        <4> QED BY <2>1, <2>2, <2>3, <4>1, Zenon DEF DoneOK
      <3> QED BY <3>1, <3>2, Zenon
    <2> QED BY <2>3, Zenon DEF DoneOK
  <1>8. /\ riscv' \in BOOLEAN /\ gen' \in Nat /\ shoot' \in TCpus \cup {NoRoot}
        /\ tlb' \in [TCpus -> SUBSET [asid : 0..MaxAsid, root : Roots, ver : 0..MaxVer]]
    BY Zenon DEF ControlOK, BornCpu
  <1> QED BY <1>2, <1>3, <1>5, <1>6, <1>7, <1>8, Zenon DEF ControlOK

\* What becomes of the identifiers.
BornAsid(c, s, b) ==
    /\ b \in 0..MaxAsid /\ pool' \in PoolRec /\ pool'.retired = pool.retired
    /\ Once(pool'.reusable) /\ pool'.next >= pool.next
    /\ \A a \in 1..MaxAsid : In(a, pool'.reusable)
                               <=> (In(a, pool.reusable) \/ In(a, tc[c].taken)) /\ a # b
    /\ b # 0 => b < pool'.next /\ (In(b, pool.reusable) \/ In(b, tc[c].taken) \/ b = pool.next)
    /\ pool.next \in Nat /\ pool'.next \in Nat

LEMMA BornTakes ==
  ASSUME AsidsOK, NEW c \in TCpus, NEW s \in Roots, NEW p \in PoolRec, NEW b, BornPool(c, p, b),
         pool \in PoolRec
  PROVE  BornAsid(c, s, b)
  <1>0. MaxAsid \in Nat BY TlbAssumption, Zenon
  <1>1. \A a \in 1..MaxAsid : In(a, p.reusable) => a < p.next BY Zenon DEF AsidsOK, AsidOK, BornPool
  <1>2. /\ p.next = pool.next /\ p.retired = pool.retired /\ Once(p.reusable)
        /\ b = Taken(p).asid /\ pool' = Taken(p).pool
    BY Zenon DEF BornPool
  <1>3. /\ b \in 0..MaxAsid /\ pool' \in PoolRec /\ pool'.retired = pool.retired
        /\ Once(pool'.reusable) /\ pool'.next >= pool.next
        /\ \A a \in 1..MaxAsid : In(a, pool'.reusable) <=> In(a, p.reusable) /\ a # b
        /\ b # 0 => b < pool'.next /\ (In(b, p.reusable) \/ b = pool.next)
    BY <1>1, <1>2, TakenFrom, Zenon
  <1>4. b # 0 => b \in 1..MaxAsid BY <1>0, <1>3
  <1>5. pool.next \in Nat /\ pool'.next \in Nat
    <2>1. pool.next \in 1..(MaxAsid + 1) /\ pool'.next \in 1..(MaxAsid + 1) BY <1>3, Zenon DEF PoolRec
    <2> QED BY <1>0, <2>1
  <1> QED BY <1>3, <1>4, <1>5, Zenon DEF BornPool, BornAsid

\* An identifier that is taken was free.
LEMMA BornFree ==
  ASSUME AsidsOK, NEW c \in TCpus, NEW s \in Roots, NEW b, BornAsid(c, s, b), b # 0
  PROVE  /\ b \in 1..MaxAsid /\ ~In(b, pool.retired) /\ \A r \in Roots : ~Owns(r, b)
         /\ \A d \in TCpus \ {c} : ~In(b, tc[d].taken)
  <1>1. b \in 1..MaxAsid BY TlbAssumption DEF BornAsid
  <1>2. CASE b = pool.next
    <2>1. pool.next \in Nat /\ ~(pool.next < pool.next) BY DEF BornAsid
    <2> QED BY <1>1, <1>2, <2>1, Zenon DEF AsidsOK, AsidOK
  <1>3. CASE In(b, pool.reusable) BY <1>1, <1>3, Zenon DEF AsidsOK, AsidOK
  <1>4. CASE In(b, tc[c].taken) BY <1>1, <1>4, Zenon DEF AsidsOK, AsidOK
  <1>5. b = pool.next \/ In(b, pool.reusable) \/ In(b, tc[c].taken) BY Zenon DEF BornAsid
  <1> QED BY <1>2, <1>3, <1>4, <1>5, <1>1, Zenon

LEMMA BornOwns ==
  ASSUME NEW c \in TCpus, NEW s \in Roots, NEW b, NEW v, Unborn(c, s), BornSp(s, b, v)
  PROVE  /\ \A r \in Roots \ {s} : \A a : Owns(r, a)' <=> Owns(r, a)
         /\ \A a : Owns(s, a)' <=> a = b
         /\ \A a : ~Owns(s, a)
  BY Zenon DEF Owns, Unborn, BornSp

LEMMA BornAsids ==
  ASSUME AsidsOK, NEW c \in TCpus, NEW s \in Roots, NEW b, NEW v, Unborn(c, s),
         BornCpu(c), BornAsid(c, s, b), BornSp(s, b, v)
  PROVE  AsidsOK'
  <1>1. Once(pool'.reusable) /\ Once(pool'.retired) /\ \A d \in TCpus : Once(tc'[d].taken)
    <2>1. Once(<<>>) BY DEF Once
    <2>2. \A d \in TCpus : tc'[d].taken = <<>> \/ tc'[d].taken = tc[d].taken BY Zenon DEF BornCpu
    <2>3. Once(pool'.reusable) /\ pool'.retired = pool.retired BY Zenon DEF BornAsid
    <2> QED BY <2>1, <2>2, <2>3, Zenon DEF AsidsOK
  <1>2. ASSUME NEW a \in 1..MaxAsid PROVE AsidOK(a)'
    <2>1. a \in Nat /\ a # 0 OBVIOUS
    <2>2. AsidOK(a) BY Zenon DEF AsidsOK
    <2>3. \A d \in TCpus : In(a, tc'[d].taken) => d # c /\ In(a, tc[d].taken) BY InNone, Zenon DEF BornCpu
    <2>4. \A r \in Roots : Owns(r, a)' => (r = s /\ a = b) \/ (r # s /\ Owns(r, a)) BY BornOwns, Zenon
    <2>5. In(a, pool'.reusable) => (In(a, pool.reusable) \/ In(a, tc[c].taken)) /\ a # b BY Zenon DEF BornAsid
    <2>6. a = b => /\ ~In(a, pool.retired) /\ \A r \in Roots : ~Owns(r, a)
                   /\ \A d \in TCpus \ {c} : ~In(a, tc[d].taken)
      BY <2>1, BornFree, Zenon
    <2>7. pool'.retired = pool.retired BY Zenon DEF BornAsid
    <2>8. a < pool.next => a < pool'.next BY <2>1 DEF BornAsid
    <2>9. a = b => a < pool'.next BY <2>1, Zenon DEF BornAsid
    <2>10. In(a, pool'.reusable) \/ In(a, pool'.retired) \/ (\E d \in TCpus : In(a, tc'[d].taken))
             \/ (\E r \in Roots : Owns(r, a)') => a < pool'.next
      BY <2>2, <2>3, <2>4, <2>5, <2>7, <2>8, <2>9, Zenon DEF AsidOK
    <2>11. In(a, pool'.reusable) => ~In(a, pool'.retired) BY <2>2, <2>5, <2>7, Zenon DEF AsidOK
    <2>12. In(a, pool'.reusable) \/ In(a, pool'.retired) =>
              /\ \A d \in TCpus : ~In(a, tc'[d].taken)
              /\ \A r \in Roots : ~Owns(r, a)'
      BY <2>2, <2>3, <2>4, <2>5, <2>6, <2>7, Zenon DEF AsidOK
    <2>13. \A d \in TCpus : In(a, tc'[d].taken) =>
              /\ \A x \in TCpus \ {d} : ~In(a, tc'[x].taken)
              /\ \A r \in Roots : ~Owns(r, a)'
      BY <2>2, <2>3, <2>4, <2>6, Zenon DEF AsidOK
    <2>14. \A r, x \in Roots : Owns(r, a)' /\ Owns(x, a)' => r = x BY <2>2, <2>4, <2>6, Zenon DEF AsidOK
    <2> QED BY <2>10, <2>11, <2>12, <2>13, <2>14, Zenon DEF AsidOK
  <1> QED BY <1>1, <1>2, Zenon DEF AsidsOK

LEMMA NotBelowItself == \A n \in Nat : ~(n < n)
  OBVIOUS

\* No TLB entry can be mistaken for one of the new space.
LEMMA BornUnseen ==
  ASSUME TlbInv, NEW c \in TCpus, NEW s \in Roots, NEW b, Unborn(c, s), BornAsid(c, s, b),
         NEW d \in TCpus, NEW e \in tlb[d]
  PROVE  /\ e.asid # 0 /\ riscv => e.asid # b
         /\ e.asid = 0 \/ ~riscv =>
              d # c /\ tc[d].satp \in Roots \ {s} /\ e.root = tc[d].satp /\ e.asid = sps[tc[d].satp].asid
  <1>0. EntriesOK BY Zenon DEF TlbInv
  <1>1. CpuOK(c) /\ CpuOK(d) /\ tc[d] \in CpuRec BY Types, Zenon DEF TlbInv, ControlOK
  <1>2. /\ tc[c].satp = NoRoot /\ NoRoot \notin Roots
        /\ tc[c].at = "kernel" => tc[c].taken = <<>>
    BY <1>1, TlbAssumption, Zenon DEF CpuOK, Making, Unborn
  <1>3. tc[d].satp \in Roots => tc[d].sp = tc[d].satp
    BY <1>1, <1>2, Zenon DEF CpuOK, CpuRec, Entering, Editing, Making
  <1>4. ASSUME e.asid # 0, riscv, e.asid = b PROVE FALSE
    <2>1. e.asid < pool.next /\ ~In(b, pool.reusable) /\ (tc[c].at = "reuse" => ~In(b, tc[c].taken))
      BY <1>0, <1>4, Zenon DEF EntriesOK
    <2>2. ~In(b, tc[c].taken) BY <1>2, <2>1, InNone, Zenon DEF Unborn
    <2>3. b = pool.next /\ pool.next \in Nat BY <1>4, <2>1, <2>2, Zenon DEF BornAsid
    <2> QED BY <1>4, <2>1, <2>3, NotBelowItself, Zenon
  <1>5. ASSUME e.asid = 0 \/ ~riscv
        PROVE  d # c /\ tc[d].satp \in Roots \ {s} /\ e.root = tc[d].satp /\ e.asid = sps[tc[d].satp].asid
    <2>1. tc[d].satp \in Roots /\ e.root = tc[d].satp /\ e.asid = sps[tc[d].satp].asid
      BY <1>0, <1>5, Zenon DEF EntriesOK
    <2> QED BY <1>2, <1>3, <2>1, Zenon DEF Unborn
  <1> QED BY <1>4, <1>5, Zenon

LEMMA BornEntries ==
  ASSUME TlbInv, NEW c \in TCpus, NEW s \in Roots, NEW b, NEW v, Unborn(c, s),
         BornCpu(c), BornAsid(c, s, b), BornSp(s, b, v)
  PROVE  EntriesOK'
  <1>0. EntriesOK /\ tlb' = tlb /\ riscv' = riscv BY Zenon DEF TlbInv, BornCpu
  <1> SUFFICES ASSUME NEW d \in TCpus, NEW e \in tlb[d]
               PROVE  /\ e.asid = 0 \/ ~riscv =>
                           tc'[d].satp \in Roots /\ e.root = tc'[d].satp /\ e.asid = sps'[tc'[d].satp].asid
                      /\ e.asid # 0 /\ riscv =>
                           /\ e.asid < pool'.next /\ ~In(e.asid, pool'.reusable)
                           /\ \A x \in TCpus : tc'[x].at = "reuse" => ~In(e.asid, tc'[x].taken)
                           /\ \A r \in Roots : Owns(r, e.asid)' => e.root = r
    BY <1>0 DEF EntriesOK
  <1>1. ASSUME e.asid = 0 \/ ~riscv
        PROVE  tc'[d].satp \in Roots /\ e.root = tc'[d].satp /\ e.asid = sps'[tc'[d].satp].asid
    <2>1. d # c /\ tc[d].satp \in Roots \ {s} /\ e.root = tc[d].satp /\ e.asid = sps[tc[d].satp].asid
      BY <1>1, BornUnseen, Zenon
    <2>2. tc'[d] = tc[d] /\ sps'[tc[d].satp] = sps[tc[d].satp] BY <2>1, Zenon DEF BornCpu, BornSp
    <2> QED BY <2>1, <2>2, Zenon
  <1>2. ASSUME e.asid # 0, riscv
        PROVE  /\ e.asid < pool'.next /\ ~In(e.asid, pool'.reusable)
               /\ \A x \in TCpus : tc'[x].at = "reuse" => ~In(e.asid, tc'[x].taken)
               /\ \A r \in Roots : Owns(r, e.asid)' => e.root = r
    <2>0. e.asid \in 1..MaxAsid /\ e.asid # b
      <3>1. e.asid \in 0..MaxAsid BY DEF TlbInv, ControlOK
      <3>2. e.asid # b BY <1>2, BornUnseen
      <3> QED BY <1>2, <3>1, <3>2, TlbAssumption
    <2>1. /\ e.asid < pool.next /\ ~In(e.asid, pool.reusable)
          /\ \A x \in TCpus : tc[x].at = "reuse" => ~In(e.asid, tc[x].taken)
          /\ \A r \in Roots : Owns(r, e.asid) => e.root = r
      BY <1>0, <1>2, Zenon DEF EntriesOK
    <2>2. e.asid < pool'.next BY <2>0, <2>1 DEF BornAsid
    <2>3. ~In(e.asid, tc[c].taken)
      <3>1. CpuOK(c) BY Zenon DEF TlbInv, ControlOK
      <3>2. tc[c].at = "kernel" => tc[c].taken = <<>> BY <3>1, Zenon DEF CpuOK
      <3> QED BY <2>1, <3>2, InNone, Zenon DEF Unborn
    <2>4. ~In(e.asid, pool'.reusable) BY <2>0, <2>1, <2>3, Zenon DEF BornAsid
    <2>5. \A x \in TCpus : tc'[x].at = "reuse" => ~In(e.asid, tc'[x].taken) BY <2>1, Zenon DEF BornCpu
    <2>6. \A r \in Roots : Owns(r, e.asid)' => e.root = r
      <3>1. \A r \in Roots \ {s} : Owns(r, e.asid)' <=> Owns(r, e.asid) BY BornOwns, Zenon
      <3>2. Owns(s, e.asid)' <=> e.asid = b BY BornOwns, Zenon
      <3> QED BY <2>0, <2>1, <3>1, <3>2, Zenon
    <2> QED BY <2>2, <2>4, <2>5, <2>6, Zenon
  <1> QED BY <1>1, <1>2, Zenon

LEMMA BornOld ==
  ASSUME TlbInv, NEW c \in TCpus, NEW s \in Roots, NEW b, NEW v, Unborn(c, s),
         BornCpu(c), BornAsid(c, s, b), BornSp(s, b, v)
  PROVE  OldIsNews' /\ InsideOK' /\ ChangeOK'
  <1>0. OldIsNews /\ InsideOK /\ ChangeOK /\ tlb' = tlb /\ riscv' = riscv BY Zenon DEF TlbInv, BornCpu
  <1>1. \A r \in Roots \ {s} : sps'[r] = sps[r] BY Zenon DEF BornSp
  <1>2. /\ \A d \in TCpus \ {c} : tc'[d] = tc[d]
        /\ tc'[c].req = tc[c].req /\ tc'[c].ack = tc[c].ack
        /\ tc[c].at \in {"kernel", "reuse"} /\ tc'[c].at = "kernel" /\ tc'[c].sp = NoRoot
    BY Zenon DEF BornCpu, Unborn
  <1>3. NoRoot \notin Roots BY TlbAssumption, Zenon
  <1>4. \A k \in TCpus, d \in TCpus, r \in Roots : UntoldBy(k, d, r) => UntoldBy(k, d, r)'
    <2> SUFFICES ASSUME NEW k \in TCpus, NEW d \in TCpus, NEW r \in Roots, UntoldBy(k, d, r)
                 PROVE  UntoldBy(k, d, r)'
      BY Zenon
    <2>1. tc'[k] = tc[k] BY <1>2, Zenon DEF UntoldBy
    <2> QED BY <2>1, Zenon DEF UntoldBy
  <1>5. \A k, d \in TCpus, r \in Roots : tc'[d] = tc[d] /\ UnflushedBy(k, d, r) => UnflushedBy(k, d, r)'
    <2> SUFFICES ASSUME NEW k \in TCpus, NEW d \in TCpus, NEW r \in Roots, tc'[d] = tc[d],
                        UnflushedBy(k, d, r)
                 PROVE  UnflushedBy(k, d, r)'
      BY Zenon
    <2>1. tc[k].at \in Editing BY Zenon DEF UnflushedBy, Edits
    <2>2. tc'[k] = tc[k] BY <1>2, <2>1, Zenon DEF Editing
    <2> QED BY <1>0, <2>2, Zenon DEF UnflushedBy, Edits
  <1>6. ASSUME NEW d \in TCpus, NEW e \in tlb[d], riscv PROVE ~Old(e, s)'
    <2>1. ASSUME e.root = s, e.asid = b PROVE FALSE
      <3>1. e.asid = 0 BY <1>6, <2>1, BornUnseen
      <3> QED BY <1>6, <2>1, <3>1, BornUnseen
    <2>2. sps'[s].asid = b BY Zenon DEF BornSp
    <2> QED BY <2>1, <2>2, Zenon DEF Old
  <1>7. OldIsNews'
    <2> SUFFICES ASSUME riscv, NEW d \in TCpus, NEW r \in Roots, NEW e \in tlb[d], Old(e, r)'
                 PROVE  tc'[d].req # tc'[d].ack \/ Untold(d, r)'
      BY <1>0, Zenon DEF OldIsNews
    <2>1. r # s /\ sps'[r] = sps[r] BY <1>1, <1>6, Zenon
    <2>2. Old(e, r) BY <2>1, Zenon DEF Old
    <2>3. tc[d].req # tc[d].ack \/ Untold(d, r) BY <1>0, <2>2, Zenon DEF OldIsNews
    <2>4. tc'[d].req = tc[d].req /\ tc'[d].ack = tc[d].ack BY <1>2, Zenon
    <2>5. Untold(d, r) => Untold(d, r)' BY <1>4, Zenon DEF Untold
    <2> QED BY <2>3, <2>4, <2>5, Zenon
  <1>8. InsideOK'
    <2> SUFFICES ASSUME NEW d \in TCpus, NEW r \in Roots, tc'[d].satp = r, NEW e \in tlb[d],
                        e.asid = sps'[r].asid
                 PROVE  /\ e.ver >= sps'[r].done
                        /\ e.ver < sps'[r].ver => Unflushed(d, r)'
      BY <1>0, Zenon DEF InsideOK
    <2>1. CpuOK(c) /\ CpuOK(d) /\ tc[d] \in CpuRec BY Types, Zenon DEF TlbInv, ControlOK
    <2>2. d # c
      <3>1. tc'[c].satp = tc[c].satp /\ tc[c].satp = NoRoot
        BY <2>1, Zenon DEF CpuOK, Making, BornCpu, Unborn
      <3> QED BY <1>3, <3>1, Zenon
    <2>3. tc'[d] = tc[d] BY <1>2, <2>2, Zenon
    <2>4. tc[d].sp = r BY <1>3, <2>1, <2>3, Zenon DEF CpuOK, CpuRec, Entering, Editing, Making
    <2>5. r # s /\ sps'[r] = sps[r] BY <1>1, <2>2, <2>4, Zenon DEF Unborn
    <2>6. e.ver >= sps[r].done /\ (e.ver < sps[r].ver => Unflushed(d, r))
      BY <1>0, <2>3, <2>5, Zenon DEF InsideOK
    <2>7. Unflushed(d, r) => Unflushed(d, r)' BY <1>5, <2>3, Zenon DEF Unflushed
    <2> QED BY <2>5, <2>6, <2>7, Zenon
  <1>9. ChangeOK'
    <2> SUFFICES ASSUME NEW d \in TCpus, NEW r \in Roots, tc'[d].at = "change", tc'[d].sp = r, riscv,
                        NEW e \in tlb[d]
                 PROVE  ~Old(e, r)'
      BY <1>0, Zenon DEF ChangeOK
    <2>1. d # c /\ tc'[d] = tc[d] BY <1>2, Zenon
    <2>2. r # s /\ sps'[r] = sps[r] BY <1>1, <2>1, Zenon DEF Unborn
    <2>3. ~Old(e, r) BY <1>0, <2>1, Zenon DEF ChangeOK
    <2> QED BY <2>2, <2>3, Zenon DEF Old
  <1> QED BY <1>7, <1>8, <1>9, Zenon

LEMMA BornGens ==
  ASSUME TlbInv, NEW c \in TCpus, gen \in Nat, BornCpu(c)
  PROVE  GensOK'
  <1>1. Moves(c) BY Zenon DEF Moves, BornCpu
  <1>2. gen' \in Nat /\ gen' >= gen BY DEF BornCpu
  <1>3. tc'[c].req = tc[c].req BY Zenon DEF BornCpu
  <1>4. tc'[c].ack \in {tc[c].ack, tc[c].req}
    <2>1. tc'[c].ack = tc[c].ack BY Zenon DEF BornCpu
    <2> QED BY ONLY <2>1, Zenon
  <1>5. tc'[c].mine \in {tc[c].mine, tc[c].req}
    <2>1. tc'[c].mine = tc[c].mine BY Zenon DEF BornCpu
    <2> QED BY ONLY <2>1, Zenon
  <1>6. tc'[c].at = "kernel" BY Zenon DEF BornCpu
  <1>7. (tc'[c].at = "flush" => tc'[c].mine = tc[c].req) /\ tc'[c].at # "post"
    BY ONLY <1>6, Zenon
  <1> QED BY <1>1, <1>2, <1>3, <1>4, <1>5, <1>7, GensKept, Zenon

LEMMA BornInv ==
  ASSUME TlbInv, NEW c \in TCpus, NEW s \in Roots, NEW p \in PoolRec, NEW b, NEW v, Unborn(c, s),
         BornCpu(c), BornPool(c, p, b), BornSp(s, b, v)
  PROVE  TlbInv'
  <1>1. /\ ControlOK /\ AsidsOK /\ tc \in [TCpus -> CpuRec] /\ sps \in [Roots -> SpRec] /\ pool \in PoolRec
    BY Types, Zenon DEF TlbInv
  <1>2. BornAsid(c, s, b) BY <1>1, BornTakes, Zenon
  <1>3. TlbTypeOK'
    <2>1. tc' \in [TCpus -> CpuRec] BY Zenon DEF BornCpu
    <2>2. sps' \in [Roots -> SpRec] BY Zenon DEF BornSp
    <2>3. pool' \in PoolRec BY <1>2, Zenon DEF BornAsid
    <2> QED BY <2>1, <2>2, <2>3, TypesNext, Zenon
  <1>4. ControlOK' BY <1>1, BornControl, Zenon
  <1>5. AsidsOK' BY <1>1, <1>2, BornAsids, Zenon
  <1>6. EntriesOK' BY <1>2, BornEntries, Zenon
  <1>7. OldIsNews' /\ InsideOK' /\ ChangeOK' BY <1>2, BornOld, Zenon
  <1>8. Moves(c) BY Zenon DEF Moves, BornCpu
  <1>9. GensOK'
    <2>1. gen \in Nat BY <1>1, Zenon DEF ControlOK
    <2> QED BY <2>1, BornGens, Zenon
  <1>10. TargetsOK'
    <2>1. TargetsBy(c)' BY Zenon DEF TargetsBy, BornCpu
    <2>2. tc'[c].active = NoRoot /\ riscv' = riscv
      <3>1. CpuOK(c) BY Zenon DEF TlbInv, ControlOK
      <3> QED BY <3>1, Zenon DEF CpuOK, Making, BornCpu, Unborn
    <2> QED BY <1>8, <2>1, <2>2, TargetsKept, Zenon
  <1> QED BY <1>3, <1>4, <1>5, <1>6, <1>7, <1>9, <1>10, Zenon DEF TlbInv

-----------------------------------------------------------------------------
(* A step of one CPU that leaves the spaces and the ASIDs alone *)

SameRegs(c) == tc'[c].satp = tc[c].satp /\ tc'[c].active = tc[c].active /\ tc'[c].sp = tc[c].sp
SameGens(c) == tc'[c].req = tc[c].req /\ tc'[c].ack = tc[c].ack /\ tc'[c].mine = tc[c].mine
SameCall(c) == /\ tc'[c].ipi = tc[c].ipi /\ tc'[c].todo = tc[c].todo /\ tc'[c].back = tc[c].back
               /\ tc'[c].taken = tc[c].taken

LEMMA MoveInv ==
  ASSUME TlbInv, NEW c \in TCpus, Moves(c), tc'[c].taken = tc[c].taken,
         UNCHANGED <<riscv, sps, pool>>, gen' \in Nat, shoot' \in TCpus \cup {NoRoot},
         NEW left \in SUBSET tlb[c], tlb' = [tlb EXCEPT ![c] = left],
         CpuOK(c)', SpOK(c)', tc'[c].at \notin Making,
         \A s \in Roots : Holds(c, s) => Holds(c, s)',
         \A s \in Roots : Edits(c, s) => Edits(c, s)',
         left = {} \/ (tc'[c].satp = tc[c].satp /\ tc'[c].ack = tc[c].ack)
           \/ (riscv /\ tc'[c].satp = NoRoot /\ tc'[c].ack = tc[c].ack /\ \A e \in left : e.asid # 0),
         tc'[c].req = tc[c].req, GensOK', ChangeOK', TargetsBy(c)',
         riscv => \A d \in TCpus \ {c}, s \in Roots : UntoldBy(c, d, s) => UntoldBy(c, d, s)',
         \A d \in TCpus \ {c} : \A s \in Roots :
            tc[d].satp = s /\ UnflushedBy(c, d, s) => UnflushedBy(c, d, s)',
         \/ tc'[c].active = NoRoot \/ riscv
         \/ (tc'[c].active = tc[c].active /\ tc'[c].ack = tc[c].ack /\ (tc[c].ipi => tc'[c].ipi))
         \/ (\E s \in Roots : tc'[c].active = s /\ Holds(c, s))
  PROVE  TlbInv'
  <1>0. sps \in [Roots -> SpRec] /\ pool \in PoolRec BY Types, Zenon DEF TlbInv
  <1>1. SameOwners /\ SameSpaces BY Zenon DEF SameOwners, SameSpaces
  <1>a. /\ tlb' \in [TCpus -> SUBSET TlbRec] /\ tlb'[c] = left
        /\ \A d \in TCpus : tlb'[d] \subseteq tlb[d]
    <2>1. tlb \in [TCpus -> SUBSET TlbRec] BY Zenon DEF TlbInv, ControlOK, TlbRec
    <2> QED BY <2>1, Zenon
  <1>2. TlbTypeOK' BY <1>0, TypesNext, Zenon DEF Moves
  <1>3. ControlOK' BY <1>a, ControlKept, Zenon
  <1>4. AsidsOK'
    <2>1. \A d \in TCpus : tc'[d].taken = tc[d].taken BY Zenon DEF Moves
    <2> QED BY <1>1, <2>1, AsidsKept, Zenon
  <1>5. EntriesOK'
    <2>1. tc'[c].at # "reuse" BY Zenon DEF Making
    <2> QED BY <1>1, <1>a, <2>1, EntriesKept, Zenon
  <1>6. OldIsNews' BY <1>1, <1>a, OldKept, Zenon
  <1>7. InsideOK' BY <1>1, <1>a, InsideKept, Zenon
  <1>8. TargetsOK' BY TargetsKept, Zenon
  <1> QED BY <1>2, <1>3, <1>4, <1>5, <1>6, <1>7, <1>8, Zenon DEF TlbInv

-----------------------------------------------------------------------------
(* Entering and leaving a space *)

LEMMA MarkReadInv ==
  ASSUME TlbInv, NEW c \in TCpus, tc[c].at = "mark", NEW nxt \in {"flush", "change"},
         nxt = "change" => tc[c].req = tc[c].ack, Cpu(c, [tc[c] EXCEPT !.mine = tc[c].req, !.at = nxt]),
         UNCHANGED <<riscv, tlb, sps, pool, gen, shoot>>
  PROVE  TlbInv'
  <1>0. /\ CpuOK(c) /\ SpOK(c) /\ tc \in [TCpus -> CpuRec] /\ GensOK /\ gen \in Nat
        /\ tlb \in [TCpus -> SUBSET TlbRec] /\ shoot \in TCpus \cup {NoRoot}
    BY Types, Zenon DEF TlbInv, ControlOK, TlbRec
  <1>2. /\ Moves(c) /\ tc'[c].at = nxt /\ SameRegs(c) /\ tc'[c].req = tc[c].req
        /\ tc'[c].ack = tc[c].ack /\ tc'[c].mine = tc[c].req /\ SameCall(c)
    <2>0. tc[c] \in CpuRec BY <1>0, Zenon
    <2>1. [tc[c] EXCEPT !.mine = tc[c].req, !.at = nxt] \in CpuRec BY <2>0, Zenon DEF CpuRec
    <2>2. /\ tc' \in [TCpus -> CpuRec] /\ \A d \in TCpus \ {c} : tc'[d] = tc[d]
          /\ tc'[c] = [tc[c] EXCEPT !.mine = tc[c].req, !.at = nxt]
      BY <1>0, <2>1, CpuSet, Zenon
    <2> QED BY <2>0, <2>2, Zenon DEF CpuRec, Moves, SameRegs, SameCall
  <1>3. /\ CpuOK(c)' /\ SpOK(c)' /\ tc'[c].at \notin Making
        /\ \A s \in Roots : (Holds(c, s) => Holds(c, s)') /\ (Edits(c, s) => Edits(c, s)')
    <2>1. CpuOK(c)' BY <1>0, <1>2, Zenon DEF CpuOK, Entering, Editing, Making, OnlyRiscv, OnlyLoong, SameRegs, SameCall
    <2>2. SpOK(c)' BY <1>0, <1>2, Zenon DEF SpOK, CpuOK, Entering, Editing, Making, OnlyRiscv, OnlyLoong, SameRegs, SameCall
    <2> QED BY <1>2, <2>1, <2>2, Zenon DEF Holds, Edits, Entering, Editing, Making, SameRegs, SameCall
  <1>4. GensOK'
    BY <1>0, <1>2, GensKept DEF SameRegs, SameCall
  <1>5. ChangeOK'
    <2> SUFFICES ASSUME NEW d \in TCpus, NEW s \in Roots, tc'[d].at = "change", tc'[d].sp = s, riscv,
                        NEW e \in tlb[d]
                 PROVE  ~Old(e, s)'
      BY Zenon DEF ChangeOK
    <2>1. Old(e, s)' => Old(e, s) BY Zenon DEF Old
    <2>2. CASE d # c BY <1>2, <2>1, <2>2, Zenon DEF TlbInv, ChangeOK, Moves
    <2>3. CASE d = c
      <3>1. tc[c].req = tc[c].ack /\ tc[c].sp = s BY <1>2, <2>3, Zenon DEF SameRegs
      <3>2. Holds(c, s) BY <3>1, Zenon DEF Holds, Entering
      <3>3. ~Untold(c, s)
        <4>1. ASSUME NEW k \in TCpus \ {c}, UntoldBy(k, c, s) PROVE FALSE
          <5>1. Holds(k, s) BY <4>1, Zenon DEF UntoldBy, Holds, Editing
          <5> QED BY <3>2, <5>1, OneHolder, Zenon
        <4> QED BY <4>1, Zenon DEF Untold
      <3> QED BY <2>1, <2>3, <3>1, <3>3, Zenon DEF TlbInv, OldIsNews
    <2> QED BY <2>2, <2>3, Zenon
  <1>6. TargetsBy(c)'
    BY <1>0, <1>2, Zenon DEF TargetsBy, SameRegs, SameCall
  <1>7. /\ \A d \in TCpus \ {c}, s \in Roots : UntoldBy(c, d, s) => UntoldBy(c, d, s)'
        /\ \A d \in TCpus \ {c} : \A s \in Roots :
              tc[d].satp = s /\ UnflushedBy(c, d, s) => UnflushedBy(c, d, s)'
    BY <1>2, Zenon DEF UntoldBy, UnflushedBy, Edits, Editing, SameRegs, SameCall
  <1>8. tlb' = [tlb EXCEPT ![c] = tlb[c]] /\ tlb[c] \in SUBSET tlb[c] BY <1>0, Zenon
  <1> QED BY <1>0, <1>2, <1>3, <1>4, <1>5, <1>6, <1>7, <1>8, MoveInv, Zenon DEF SameRegs, SameCall

LEMMA MarkFlushInv ==
  ASSUME TlbInv, NEW c \in TCpus, MarkFlush(c)
  PROVE  TlbInv'
  <1>0. /\ CpuOK(c) /\ SpOK(c) /\ tc \in [TCpus -> CpuRec] /\ GensOK /\ gen \in Nat
        /\ tlb \in [TCpus -> SUBSET TlbRec] /\ shoot \in TCpus \cup {NoRoot}
    BY Types, Zenon DEF TlbInv, ControlOK, TlbRec
  <1>1. /\ Cpu(c, [tc[c] EXCEPT !.ack = tc[c].mine, !.at = "change"])
        /\ tc[c].at = "flush" /\ tlb' = [tlb EXCEPT ![c] = {}] /\ UNCHANGED <<riscv, sps, pool, gen, shoot>>
    BY <1>0, Zenon DEF MarkFlush
  <1>2. /\ Moves(c) /\ tc'[c].at = "change" /\ SameRegs(c) /\ tc'[c].req = tc[c].req
        /\ tc'[c].ack = tc[c].mine /\ tc'[c].mine = tc[c].mine /\ SameCall(c)
    <2>0. tc[c] \in CpuRec BY <1>0, Zenon
    <2>1. [tc[c] EXCEPT !.ack = tc[c].mine, !.at = "change"] \in CpuRec BY <2>0, Zenon DEF CpuRec
    <2>2. /\ tc' \in [TCpus -> CpuRec] /\ \A d \in TCpus \ {c} : tc'[d] = tc[d]
          /\ tc'[c] = [tc[c] EXCEPT !.ack = tc[c].mine, !.at = "change"]
      BY <1>0, <1>1, <2>1, CpuSet, Zenon
    <2> QED BY <2>0, <2>2, Zenon DEF CpuRec, Moves, SameRegs, SameCall
  <1>p. Holds(c, tc[c].sp) /\ tc[c].active = tc[c].sp /\ tc[c].sp \in Roots
    BY <1>0, <1>1, Zenon DEF Holds, Entering, CpuOK
  <1>3. /\ CpuOK(c)' /\ SpOK(c)' /\ tc'[c].at \notin Making
        /\ \A s \in Roots : (Holds(c, s) => Holds(c, s)') /\ (Edits(c, s) => Edits(c, s)')
    <2>1. CpuOK(c)' BY <1>0, <1>1, <1>2, Zenon DEF CpuOK, Entering, Editing, Making, OnlyRiscv, OnlyLoong, SameRegs, SameCall
    <2>2. SpOK(c)' BY <1>0, <1>1, <1>2, Zenon DEF SpOK, CpuOK, Entering, Editing, Making, OnlyRiscv, OnlyLoong, SameRegs, SameCall
    <2> QED BY <1>2, <1>1, <2>1, <2>2, Zenon DEF Holds, Edits, Entering, Editing, Making, SameRegs, SameCall
  <1>4. GensOK'
    BY <1>0, <1>1, <1>2, GensKept DEF SameRegs, SameCall
  <1>5. ChangeOK'
    <2>1. SameSpaces /\ \A d \in TCpus : tlb'[d] \subseteq tlb[d]
      BY <1>0, <1>1, Zenon DEF SameSpaces, SameOwners
    <2> QED BY <1>0, <1>1, <1>2, <2>1, ChangeKept, Zenon
  <1>6. TargetsBy(c)'
    BY <1>0, <1>1, <1>2, <1>p, Zenon DEF TargetsBy, SameRegs, SameCall
  <1>7. /\ \A d \in TCpus \ {c}, s \in Roots : UntoldBy(c, d, s) => UntoldBy(c, d, s)'
        /\ \A d \in TCpus \ {c} : \A s \in Roots :
              tc[d].satp = s /\ UnflushedBy(c, d, s) => UnflushedBy(c, d, s)'
    BY <1>2, <1>1, Zenon DEF UntoldBy, UnflushedBy, Edits, Editing, SameRegs, SameCall
  <1>8. tlb' = [tlb EXCEPT ![c] = {}] /\ {} \in SUBSET tlb[c] BY <1>0, <1>1, <1>p, Zenon
  <1> QED BY <1>0, <1>1, <1>2, <1>3, <1>4, <1>5, <1>6, <1>7, <1>8, <1>p, MoveInv, Zenon DEF SameRegs, SameCall

LEMMA TrapInv ==
  ASSUME TlbInv, NEW c \in TCpus, tc[c].at = "user", riscv, Cpu(c, [tc[c] EXCEPT !.at = "trap"]),
         UNCHANGED <<riscv, tlb, sps, pool, gen, shoot>>
  PROVE  TlbInv'
  <1>0. /\ CpuOK(c) /\ SpOK(c) /\ tc \in [TCpus -> CpuRec] /\ GensOK /\ gen \in Nat
        /\ tlb \in [TCpus -> SUBSET TlbRec] /\ shoot \in TCpus \cup {NoRoot}
    BY Types, Zenon DEF TlbInv, ControlOK, TlbRec
  <1>2. /\ Moves(c) /\ tc'[c].at = "trap" /\ SameRegs(c) /\ SameGens(c) /\ SameCall(c)
    <2>0. tc[c] \in CpuRec BY <1>0, Zenon
    <2>1. [tc[c] EXCEPT !.at = "trap"] \in CpuRec BY <2>0, Zenon DEF CpuRec
    <2>2. /\ tc' \in [TCpus -> CpuRec] /\ \A d \in TCpus \ {c} : tc'[d] = tc[d]
          /\ tc'[c] = [tc[c] EXCEPT !.at = "trap"]
      BY <1>0, <2>1, CpuSet, Zenon
    <2> QED BY <2>0, <2>2, Zenon DEF CpuRec, Moves, SameRegs, SameGens, SameCall
  <1>3. /\ CpuOK(c)' /\ SpOK(c)' /\ tc'[c].at \notin Making
        /\ \A s \in Roots : (Holds(c, s) => Holds(c, s)') /\ (Edits(c, s) => Edits(c, s)')
    <2>1. CpuOK(c)' BY <1>0, <1>2, Zenon DEF CpuOK, Entering, Editing, Making, OnlyRiscv, OnlyLoong, SameRegs, SameGens, SameCall
    <2>2. SpOK(c)' BY <1>0, <1>2, Zenon DEF SpOK, CpuOK, Entering, Editing, Making, OnlyRiscv, OnlyLoong, SameRegs, SameGens, SameCall
    <2> QED BY <1>2, <2>1, <2>2, Zenon DEF Holds, Edits, Entering, Editing, Making, SameRegs, SameGens, SameCall
  <1>4. GensOK'
    BY <1>0, <1>2, GensKept DEF SameRegs, SameGens, SameCall
  <1>5. ChangeOK'
    <2>1. SameSpaces /\ \A d \in TCpus : tlb'[d] \subseteq tlb[d]
      BY <1>0, Zenon DEF SameSpaces, SameOwners
    <2> QED BY <1>0, <1>2, <2>1, ChangeKept, Zenon
  <1>6. TargetsBy(c)'
    BY <1>0, <1>2, Zenon DEF TargetsBy, SameRegs, SameGens, SameCall
  <1>7. /\ \A d \in TCpus \ {c}, s \in Roots : UntoldBy(c, d, s) => UntoldBy(c, d, s)'
        /\ \A d \in TCpus \ {c} : \A s \in Roots :
              tc[d].satp = s /\ UnflushedBy(c, d, s) => UnflushedBy(c, d, s)'
    BY <1>2, Zenon DEF UntoldBy, UnflushedBy, Edits, Editing, SameRegs, SameGens, SameCall
  <1>8. tlb' = [tlb EXCEPT ![c] = tlb[c]] /\ tlb[c] \in SUBSET tlb[c] BY <1>0, Zenon
  <1> QED BY <1>0, <1>2, <1>3, <1>4, <1>5, <1>6, <1>7, <1>8, MoveInv, Zenon DEF SameRegs, SameGens, SameCall

LEMMA BackInv ==
  ASSUME TlbInv, NEW c \in TCpus, tc[c].at = "trap", Cpu(c, [tc[c] EXCEPT !.at = "user"]),
         UNCHANGED <<riscv, tlb, sps, pool, gen, shoot>>
  PROVE  TlbInv'
  <1>0. /\ CpuOK(c) /\ SpOK(c) /\ tc \in [TCpus -> CpuRec] /\ GensOK /\ gen \in Nat
        /\ tlb \in [TCpus -> SUBSET TlbRec] /\ shoot \in TCpus \cup {NoRoot}
    BY Types, Zenon DEF TlbInv, ControlOK, TlbRec
  <1>2. /\ Moves(c) /\ tc'[c].at = "user" /\ SameRegs(c) /\ SameGens(c) /\ SameCall(c)
    <2>0. tc[c] \in CpuRec BY <1>0, Zenon
    <2>1. [tc[c] EXCEPT !.at = "user"] \in CpuRec BY <2>0, Zenon DEF CpuRec
    <2>2. /\ tc' \in [TCpus -> CpuRec] /\ \A d \in TCpus \ {c} : tc'[d] = tc[d]
          /\ tc'[c] = [tc[c] EXCEPT !.at = "user"]
      BY <1>0, <2>1, CpuSet, Zenon
    <2> QED BY <2>0, <2>2, Zenon DEF CpuRec, Moves, SameRegs, SameGens, SameCall
  <1>3. /\ CpuOK(c)' /\ SpOK(c)' /\ tc'[c].at \notin Making
        /\ \A s \in Roots : (Holds(c, s) => Holds(c, s)') /\ (Edits(c, s) => Edits(c, s)')
    <2>1. CpuOK(c)' BY <1>0, <1>2, Zenon DEF CpuOK, Entering, Editing, Making, OnlyRiscv, OnlyLoong, SameRegs, SameGens, SameCall
    <2>2. SpOK(c)' BY <1>0, <1>2, Zenon DEF SpOK, CpuOK, Entering, Editing, Making, OnlyRiscv, OnlyLoong, SameRegs, SameGens, SameCall
    <2> QED BY <1>2, <2>1, <2>2, Zenon DEF Holds, Edits, Entering, Editing, Making, SameRegs, SameGens, SameCall
  <1>4. GensOK'
    BY <1>0, <1>2, GensKept DEF SameRegs, SameGens, SameCall
  <1>5. ChangeOK'
    <2>1. SameSpaces /\ \A d \in TCpus : tlb'[d] \subseteq tlb[d]
      BY <1>0, Zenon DEF SameSpaces, SameOwners
    <2> QED BY <1>0, <1>2, <2>1, ChangeKept, Zenon
  <1>6. TargetsBy(c)'
    BY <1>0, <1>2, Zenon DEF TargetsBy, SameRegs, SameGens, SameCall
  <1>7. /\ \A d \in TCpus \ {c}, s \in Roots : UntoldBy(c, d, s) => UntoldBy(c, d, s)'
        /\ \A d \in TCpus \ {c} : \A s \in Roots :
              tc[d].satp = s /\ UnflushedBy(c, d, s) => UnflushedBy(c, d, s)'
    BY <1>2, Zenon DEF UntoldBy, UnflushedBy, Edits, Editing, SameRegs, SameGens, SameCall
  <1>8. tlb' = [tlb EXCEPT ![c] = tlb[c]] /\ tlb[c] \in SUBSET tlb[c] BY <1>0, Zenon
  <1> QED BY <1>0, <1>2, <1>3, <1>4, <1>5, <1>6, <1>7, <1>8, MoveInv, Zenon DEF SameRegs, SameGens, SameCall

LEMMA LeftInv ==
  ASSUME TlbInv, NEW c \in TCpus, tc[c].at \in {"user", "trap"}, NEW left \in SUBSET tlb[c],
         left = {} \/ (riscv /\ \A e \in left : e.asid # 0), tlb' = [tlb EXCEPT ![c] = left],
         Cpu(c, [tc[c] EXCEPT !.at = "kernel", !.satp = NoRoot, !.active = NoRoot, !.sp = NoRoot]),
         UNCHANGED <<riscv, sps, pool, gen, shoot>>
  PROVE  TlbInv'
  <1>0. /\ CpuOK(c) /\ SpOK(c) /\ tc \in [TCpus -> CpuRec] /\ GensOK /\ gen \in Nat
        /\ tlb \in [TCpus -> SUBSET TlbRec] /\ shoot \in TCpus \cup {NoRoot}
    BY Types, Zenon DEF TlbInv, ControlOK, TlbRec
  <1>2. /\ Moves(c) /\ tc'[c].at = "kernel" /\ tc'[c].satp = NoRoot /\ tc'[c].active = NoRoot
        /\ tc'[c].sp = NoRoot /\ SameGens(c) /\ SameCall(c)
    <2>0. tc[c] \in CpuRec BY <1>0, Zenon
    <2>1. [tc[c] EXCEPT !.at = "kernel", !.satp = NoRoot, !.active = NoRoot, !.sp = NoRoot] \in CpuRec
      BY <2>0, Zenon DEF CpuRec
    <2>2. /\ tc' \in [TCpus -> CpuRec] /\ \A d \in TCpus \ {c} : tc'[d] = tc[d]
          /\ tc'[c] = [tc[c] EXCEPT !.at = "kernel", !.satp = NoRoot, !.active = NoRoot, !.sp = NoRoot]
      BY <1>0, <2>1, CpuSet, Zenon
    <2> QED BY <2>0, <2>2 DEF CpuRec, Moves, SameGens, SameCall
  <1>3. /\ CpuOK(c)' /\ SpOK(c)' /\ tc'[c].at \notin Making
        /\ \A s \in Roots : (Holds(c, s) => Holds(c, s)') /\ (Edits(c, s) => Edits(c, s)')
    <2>1. CpuOK(c)' BY <1>0, <1>2, Zenon DEF CpuOK, Entering, Editing, Making, OnlyRiscv, OnlyLoong, SameGens, SameCall
    <2>2. SpOK(c)' BY <1>0, <1>2, Zenon DEF SpOK, CpuOK, Entering, Editing, Making, OnlyRiscv, OnlyLoong, SameGens, SameCall
    <2> QED BY <1>2, <2>1, <2>2, Zenon DEF Holds, Edits, Entering, Editing, Making, SameGens, SameCall
  <1>4. GensOK'
    BY <1>0, <1>2, GensKept DEF SameGens, SameCall
  <1>5. ChangeOK'
    <2>1. SameSpaces /\ \A d \in TCpus : tlb'[d] \subseteq tlb[d]
      BY <1>0, Zenon DEF SameSpaces, SameOwners
    <2> QED BY <1>0, <1>2, <2>1, ChangeKept, Zenon
  <1>6. TargetsBy(c)'
    BY <1>0, <1>2, Zenon DEF TargetsBy, SameGens, SameCall
  <1>7. /\ \A d \in TCpus \ {c}, s \in Roots : UntoldBy(c, d, s) => UntoldBy(c, d, s)'
        /\ \A d \in TCpus \ {c} : \A s \in Roots :
              tc[d].satp = s /\ UnflushedBy(c, d, s) => UnflushedBy(c, d, s)'
    BY <1>2, Zenon DEF UntoldBy, UnflushedBy, Edits, Editing, SameGens, SameCall
  <1>8. tlb' = [tlb EXCEPT ![c] = left] /\ left \in SUBSET tlb[c] BY <1>0, Zenon
  <1> QED BY <1>0, <1>2, <1>3, <1>4, <1>5, <1>6, <1>7, <1>8, MoveInv, Zenon DEF SameGens, SameCall

LEMMA LeaveInv ==
  ASSUME TlbInv, NEW c \in TCpus, tc[c].at \in {"user", "trap"}, Leave(c)
  PROVE  TlbInv'
  <1>1. LeftTlb(c) \in SUBSET tlb[c] BY Zenon DEF LeftTlb
  <1>2. LeftTlb(c) = {} \/ (riscv /\ \A e \in LeftTlb(c) : e.asid # 0)
    <2>1. EntriesOK BY Zenon DEF TlbInv
    <2> QED BY <2>1, Zenon DEF LeftTlb, EntriesOK
  <1> QED BY <1>1, <1>2, LeftInv, Zenon DEF Leave

LEMMA TakeIpiInv ==
  ASSUME TlbInv, NEW c \in TCpus, TakeIpi(c)
  PROVE  TlbInv'
  <1>0. /\ CpuOK(c) /\ SpOK(c) /\ tc \in [TCpus -> CpuRec] /\ GensOK /\ gen \in Nat
        /\ tlb \in [TCpus -> SUBSET TlbRec] /\ shoot \in TCpus \cup {NoRoot}
    BY Types DEF TlbInv, ControlOK, TlbRec
  <1>1. /\ Cpu(c, [tc[c] EXCEPT !.ipi = FALSE, !.at = "ipi", !.satp = NoRoot, !.active = NoRoot, !.sp = NoRoot])
        /\ tc[c].at \in {"user", "kernel"} /\ tc[c].ipi
        /\ tlb' = [tlb EXCEPT ![c] = {}] /\ UNCHANGED <<riscv, sps, pool, gen, shoot>>
    BY <1>0, Zenon DEF TakeIpi
  <1>2. /\ Moves(c) /\ tc'[c].at = "ipi" /\ tc'[c].satp = NoRoot /\ tc'[c].active = NoRoot
        /\ tc'[c].sp = NoRoot /\ SameGens(c) /\ tc'[c].ipi = FALSE /\ tc'[c].todo = tc[c].todo
        /\ tc'[c].back = tc[c].back /\ tc'[c].taken = tc[c].taken
    <2>0. tc[c] \in CpuRec BY <1>0
    <2>1. [tc[c] EXCEPT !.ipi = FALSE, !.at = "ipi", !.satp = NoRoot, !.active = NoRoot, !.sp = NoRoot] \in CpuRec
      BY <2>0, Zenon DEF CpuRec
    <2>2. /\ tc' \in [TCpus -> CpuRec] /\ \A d \in TCpus \ {c} : tc'[d] = tc[d]
          /\ tc'[c] = [tc[c] EXCEPT !.ipi = FALSE, !.at = "ipi", !.satp = NoRoot, !.active = NoRoot, !.sp = NoRoot]
      BY <1>0, <1>1, <2>1, CpuSet, Zenon
    <2> QED BY <2>0, <2>2, Zenon DEF CpuRec, Moves, SameGens
  <1>3. /\ CpuOK(c)' /\ SpOK(c)' /\ tc'[c].at \notin Making
        /\ \A s \in Roots : (Holds(c, s) => Holds(c, s)') /\ (Edits(c, s) => Edits(c, s)')
    <2>1. CpuOK(c)' BY <1>0, <1>1, <1>2, Zenon DEF CpuOK, Entering, Editing, Making, OnlyRiscv, OnlyLoong, SameGens
    <2>2. SpOK(c)' BY <1>0, <1>1, <1>2, Zenon DEF SpOK, CpuOK, Entering, Editing, Making, OnlyRiscv, OnlyLoong, SameGens
    <2> QED BY <1>2, <1>1, <2>1, <2>2, Zenon DEF Holds, Edits, Entering, Editing, Making, SameGens
  <1>4. GensOK'
    BY <1>0, <1>1, <1>2, GensKept DEF SameGens
  <1>5. ChangeOK'
    <2>1. SameSpaces /\ \A d \in TCpus : tlb'[d] \subseteq tlb[d]
      BY <1>0, <1>1, Zenon DEF SameSpaces, SameOwners
    <2> QED BY <1>0, <1>1, <1>2, <2>1, ChangeKept, Zenon
  <1>6. TargetsBy(c)'
    BY <1>0, <1>1, <1>2, Zenon DEF TargetsBy, SameGens
  <1>7. /\ \A d \in TCpus \ {c}, s \in Roots : UntoldBy(c, d, s) => UntoldBy(c, d, s)'
        /\ \A d \in TCpus \ {c} : \A s \in Roots :
              tc[d].satp = s /\ UnflushedBy(c, d, s) => UnflushedBy(c, d, s)'
    BY <1>2, <1>1, Zenon DEF UntoldBy, UnflushedBy, Edits, Editing, SameGens
  <1>8. tlb' = [tlb EXCEPT ![c] = {}] /\ {} \in SUBSET tlb[c] BY <1>0, <1>1, Zenon
  <1> QED BY <1>0, <1>1, <1>2, <1>3, <1>4, <1>5, <1>6, <1>7, <1>8, MoveInv, Zenon DEF SameGens

LEMMA IpiAckInv ==
  ASSUME TlbInv, NEW c \in TCpus, IpiAck(c)
  PROVE  TlbInv'
  <1>0. /\ CpuOK(c) /\ SpOK(c) /\ tc \in [TCpus -> CpuRec] /\ GensOK /\ gen \in Nat
        /\ tlb \in [TCpus -> SUBSET TlbRec] /\ shoot \in TCpus \cup {NoRoot}
    BY Types DEF TlbInv, ControlOK, TlbRec
  <1>1. /\ Cpu(c, [tc[c] EXCEPT !.ack = tc[c].req, !.at = "kernel"])
        /\ tc[c].at = "ipi" /\ UNCHANGED <<riscv, tlb, sps, pool, gen, shoot>>
    BY <1>0, Zenon DEF IpiAck
  <1>2. /\ Moves(c) /\ tc'[c].at = "kernel" /\ SameRegs(c) /\ tc'[c].req = tc[c].req
        /\ tc'[c].ack = tc[c].req /\ tc'[c].mine = tc[c].mine /\ SameCall(c)
    <2>0. tc[c] \in CpuRec BY <1>0
    <2>1. [tc[c] EXCEPT !.ack = tc[c].req, !.at = "kernel"] \in CpuRec BY <2>0, Zenon DEF CpuRec
    <2>2. /\ tc' \in [TCpus -> CpuRec] /\ \A d \in TCpus \ {c} : tc'[d] = tc[d]
          /\ tc'[c] = [tc[c] EXCEPT !.ack = tc[c].req, !.at = "kernel"]
      BY <1>0, <1>1, <2>1, CpuSet, Zenon
    <2> QED BY <2>0, <2>2, Zenon DEF CpuRec, Moves, SameRegs, SameCall
  <1>p. tc[c].satp = NoRoot /\ tc[c].active = NoRoot /\ tlb[c] = {}
    <2>1. tc[c].satp = NoRoot /\ tc[c].active = NoRoot /\ ~riscv /\ NoRoot \notin Roots
      BY <1>0, <1>1, TlbAssumption, Zenon DEF CpuOK, OnlyLoong
    <2> QED BY <2>1, Zenon DEF TlbInv, EntriesOK
  <1>3. /\ CpuOK(c)' /\ SpOK(c)' /\ tc'[c].at \notin Making
        /\ \A s \in Roots : (Holds(c, s) => Holds(c, s)') /\ (Edits(c, s) => Edits(c, s)')
    <2>1. CpuOK(c)' BY <1>0, <1>1, <1>2, Zenon DEF CpuOK, Entering, Editing, Making, OnlyRiscv, OnlyLoong, SameRegs, SameCall
    <2>2. SpOK(c)' BY <1>0, <1>1, <1>2, Zenon DEF SpOK, CpuOK, Entering, Editing, Making, OnlyRiscv, OnlyLoong, SameRegs, SameCall
    <2> QED BY <1>2, <1>1, <2>1, <2>2, Zenon DEF Holds, Edits, Entering, Editing, Making, SameRegs, SameCall
  <1>4. GensOK'
    BY <1>0, <1>1, <1>2, GensKept DEF SameRegs, SameCall
  <1>5. ChangeOK'
    <2>1. SameSpaces /\ \A d \in TCpus : tlb'[d] \subseteq tlb[d]
      BY <1>0, <1>1, Zenon DEF SameSpaces, SameOwners
    <2> QED BY <1>0, <1>1, <1>2, <2>1, ChangeKept, Zenon
  <1>6. TargetsBy(c)'
    BY <1>0, <1>1, <1>2, <1>p, Zenon DEF TargetsBy, SameRegs, SameCall
  <1>7. /\ \A d \in TCpus \ {c}, s \in Roots : UntoldBy(c, d, s) => UntoldBy(c, d, s)'
        /\ \A d \in TCpus \ {c} : \A s \in Roots :
              tc[d].satp = s /\ UnflushedBy(c, d, s) => UnflushedBy(c, d, s)'
    BY <1>2, <1>1, Zenon DEF UntoldBy, UnflushedBy, Edits, Editing, SameRegs, SameCall
  <1>8. tlb' = [tlb EXCEPT ![c] = {}] /\ {} \in SUBSET tlb[c] BY <1>0, <1>1, <1>p, Zenon
  <1> QED BY <1>0, <1>1, <1>2, <1>3, <1>4, <1>5, <1>6, <1>7, <1>8, <1>p, MoveInv, Zenon DEF SameRegs, SameCall

-----------------------------------------------------------------------------
(* Shooting *)

LEMMA GenerationInv ==
  ASSUME TlbInv, NEW c \in TCpus, Generation(c)
  PROVE  TlbInv'
  <1>0. /\ CpuOK(c) /\ SpOK(c) /\ tc \in [TCpus -> CpuRec] /\ GensOK /\ gen \in Nat
        /\ tlb \in [TCpus -> SUBSET TlbRec] /\ shoot \in TCpus \cup {NoRoot}
    BY Types DEF TlbInv, ControlOK, TlbRec
  <1>1. /\ Cpu(c, [tc[c] EXCEPT !.at = "post", !.mine = gen + 1])
        /\ tc[c].at = "generation" /\ gen' = gen + 1 /\ UNCHANGED <<riscv, tlb, sps, pool, shoot>>
        /\ riscv /\ tc[c].todo = TCpus \ {c}
    BY <1>0, Zenon DEF Generation, NewGeneration, CpuOK, OnlyRiscv
  <1>2. /\ Moves(c) /\ tc'[c].at = "post" /\ SameRegs(c) /\ tc'[c].req = tc[c].req
        /\ tc'[c].ack = tc[c].ack /\ tc'[c].mine = gen + 1 /\ SameCall(c)
    <2>0. tc[c] \in CpuRec BY <1>0
    <2>3. gen + 1 \in Nat BY <1>0
    <2>1. [tc[c] EXCEPT !.at = "post", !.mine = gen + 1] \in CpuRec BY <2>0, <2>3, Zenon DEF CpuRec
    <2>2. /\ tc' \in [TCpus -> CpuRec] /\ \A d \in TCpus \ {c} : tc'[d] = tc[d]
          /\ tc'[c] = [tc[c] EXCEPT !.at = "post", !.mine = gen + 1]
      BY <1>0, <1>1, <2>1, CpuSet, Zenon
    <2> QED BY <2>0, <2>2 DEF CpuRec, Moves, SameRegs, SameCall
  <1>3. /\ CpuOK(c)' /\ SpOK(c)' /\ tc'[c].at \notin Making
        /\ \A s \in Roots : (Holds(c, s) => Holds(c, s)') /\ (Edits(c, s) => Edits(c, s)')
    <2>1. CpuOK(c)' BY <1>0, <1>1, <1>2, Zenon DEF CpuOK, Entering, Editing, Making, OnlyRiscv, OnlyLoong, SameRegs, SameCall
    <2>2. SpOK(c)' BY <1>0, <1>1, <1>2, Zenon DEF SpOK, CpuOK, Entering, Editing, Making, OnlyRiscv, OnlyLoong, SameRegs, SameCall
    <2> QED BY <1>2, <1>1, <2>1, <2>2, Zenon DEF Holds, Edits, Entering, Editing, Making, SameRegs, SameCall
  <1>4. GensOK'
    BY <1>0, <1>1, <1>2, GensPost, Zenon DEF SameCall
  <1>5. ChangeOK'
    <2>1. SameSpaces /\ \A d \in TCpus : tlb'[d] \subseteq tlb[d]
      BY <1>0, <1>1, Zenon DEF SameSpaces, SameOwners
    <2> QED BY <1>0, <1>1, <1>2, <2>1, ChangeKept, Zenon
  <1>6. TargetsBy(c)'
    BY <1>0, <1>1, <1>2, Zenon DEF TargetsBy, SameRegs, SameCall
  <1>7. /\ \A d \in TCpus \ {c}, s \in Roots : UntoldBy(c, d, s) => UntoldBy(c, d, s)'
        /\ \A d \in TCpus \ {c} : \A s \in Roots :
              tc[d].satp = s /\ UnflushedBy(c, d, s) => UnflushedBy(c, d, s)'
    BY <1>2, <1>1, Zenon DEF UntoldBy, UnflushedBy, Edits, Editing, SameRegs, SameCall
  <1>8. tlb' = [tlb EXCEPT ![c] = tlb[c]] /\ tlb[c] \in SUBSET tlb[c] /\ gen' \in Nat BY <1>0, <1>1
  <1> QED BY <1>0, <1>1, <1>2, <1>3, <1>4, <1>5, <1>6, <1>7, <1>8, MoveInv, Zenon DEF SameRegs, SameCall

LEMMA ShootLockInv ==
  ASSUME TlbInv, NEW c \in TCpus, ShootLock(c)
  PROVE  TlbInv'
  <1>0. /\ CpuOK(c) /\ SpOK(c) /\ tc \in [TCpus -> CpuRec] /\ GensOK /\ gen \in Nat
        /\ tlb \in [TCpus -> SUBSET TlbRec] /\ shoot \in TCpus \cup {NoRoot}
    BY Types DEF TlbInv, ControlOK, TlbRec
  <1>1. /\ Cpu(c, [tc[c] EXCEPT !.at = "resample"])
        /\ tc[c].at = "lock" /\ shoot' = c /\ UNCHANGED <<riscv, tlb, sps, pool, gen>>
    BY <1>0, Zenon DEF ShootLock
  <1>2. /\ Moves(c) /\ tc'[c].at = "resample" /\ SameRegs(c) /\ SameGens(c) /\ SameCall(c)
    <2>0. tc[c] \in CpuRec BY <1>0
    <2>1. [tc[c] EXCEPT !.at = "resample"] \in CpuRec BY <2>0, Zenon DEF CpuRec
    <2>2. /\ tc' \in [TCpus -> CpuRec] /\ \A d \in TCpus \ {c} : tc'[d] = tc[d]
          /\ tc'[c] = [tc[c] EXCEPT !.at = "resample"]
      BY <1>0, <1>1, <2>1, CpuSet, Zenon
    <2> QED BY <2>0, <2>2, Zenon DEF CpuRec, Moves, SameRegs, SameGens, SameCall
  <1>3. /\ CpuOK(c)' /\ SpOK(c)' /\ tc'[c].at \notin Making
        /\ \A s \in Roots : (Holds(c, s) => Holds(c, s)') /\ (Edits(c, s) => Edits(c, s)')
    <2>1. CpuOK(c)' BY <1>0, <1>1, <1>2, Zenon DEF CpuOK, Entering, Editing, Making, OnlyRiscv, OnlyLoong, SameRegs, SameGens, SameCall
    <2>2. SpOK(c)' BY <1>0, <1>1, <1>2, Zenon DEF SpOK, CpuOK, Entering, Editing, Making, OnlyRiscv, OnlyLoong, SameRegs, SameGens, SameCall
    <2> QED BY <1>2, <1>1, <2>1, <2>2, Zenon DEF Holds, Edits, Entering, Editing, Making, SameRegs, SameGens, SameCall
  <1>4. GensOK'
    BY <1>0, <1>1, <1>2, GensKept DEF SameRegs, SameGens, SameCall
  <1>5. ChangeOK'
    <2>1. SameSpaces /\ \A d \in TCpus : tlb'[d] \subseteq tlb[d]
      BY <1>0, <1>1, Zenon DEF SameSpaces, SameOwners
    <2> QED BY <1>0, <1>1, <1>2, <2>1, ChangeKept, Zenon
  <1>6. TargetsBy(c)'
    BY <1>0, <1>1, <1>2, Zenon DEF TargetsBy, SameRegs, SameGens, SameCall
  <1>7. /\ \A d \in TCpus \ {c}, s \in Roots : UntoldBy(c, d, s) => UntoldBy(c, d, s)'
        /\ \A d \in TCpus \ {c} : \A s \in Roots :
              tc[d].satp = s /\ UnflushedBy(c, d, s) => UnflushedBy(c, d, s)'
    BY <1>2, <1>1, Zenon DEF UntoldBy, UnflushedBy, Edits, Editing, SameRegs, SameGens, SameCall
  <1>8. tlb' = [tlb EXCEPT ![c] = tlb[c]] /\ tlb[c] \in SUBSET tlb[c] BY <1>0, <1>1, Zenon
  <1> QED BY <1>0, <1>1, <1>2, <1>3, <1>4, <1>5, <1>6, <1>7, <1>8, MoveInv, Zenon DEF SameRegs, SameGens, SameCall

LEMMA SampleOnInv ==
  ASSUME TlbInv, NEW c \in TCpus, tc[c].at = "sample", NEW nxt \in {"fence", "lock"}, riscv <=> nxt = "fence",
         NEW T \in SUBSET (TCpus \ {c}),
         \A d \in TCpus \ {c} : tc[d].active = tc[c].sp => d \in T, Cpu(c, [tc[c] EXCEPT !.at = nxt, !.todo = T]),
         UNCHANGED <<riscv, tlb, sps, pool, gen, shoot>>
  PROVE  TlbInv'
  <1>0. /\ CpuOK(c) /\ SpOK(c) /\ tc \in [TCpus -> CpuRec] /\ GensOK /\ gen \in Nat
        /\ tlb \in [TCpus -> SUBSET TlbRec] /\ shoot \in TCpus \cup {NoRoot}
    BY Types, Zenon DEF TlbInv, ControlOK, TlbRec
  <1>2. /\ Moves(c) /\ tc'[c].at = nxt /\ SameRegs(c) /\ SameGens(c) /\ tc'[c].ipi = tc[c].ipi
        /\ tc'[c].todo = T /\ tc'[c].back = tc[c].back /\ tc'[c].taken = tc[c].taken
    <2>0. tc[c] \in CpuRec BY <1>0, Zenon
    <2>1. [tc[c] EXCEPT !.at = nxt, !.todo = T] \in CpuRec BY <2>0, Zenon DEF CpuRec
    <2>2. /\ tc' \in [TCpus -> CpuRec] /\ \A d \in TCpus \ {c} : tc'[d] = tc[d]
          /\ tc'[c] = [tc[c] EXCEPT !.at = nxt, !.todo = T]
      BY <1>0, <2>1, CpuSet, Zenon
    <2> QED BY <2>0, <2>2, Zenon DEF CpuRec, Moves, SameRegs, SameGens
  <1>3. /\ CpuOK(c)' /\ SpOK(c)' /\ tc'[c].at \notin Making
        /\ \A s \in Roots : (Holds(c, s) => Holds(c, s)') /\ (Edits(c, s) => Edits(c, s)')
    <2>1. CpuOK(c)' BY <1>0, <1>2, Zenon DEF CpuOK, Entering, Editing, Making, OnlyRiscv, OnlyLoong, SameRegs, SameGens
    <2>2. SpOK(c)' BY <1>0, <1>2, Zenon DEF SpOK, CpuOK, Entering, Editing, Making, OnlyRiscv, OnlyLoong, SameRegs, SameGens
    <2> QED BY <1>2, <2>1, <2>2, Zenon DEF Holds, Edits, Entering, Editing, Making, SameRegs, SameGens
  <1>4. GensOK'
    BY <1>0, <1>2, GensKept DEF SameRegs, SameGens
  <1>5. ChangeOK'
    <2>1. SameSpaces /\ \A d \in TCpus : tlb'[d] \subseteq tlb[d]
      BY <1>0, Zenon DEF SameSpaces, SameOwners
    <2> QED BY <1>0, <1>2, <2>1, ChangeKept, Zenon
  <1>6. TargetsBy(c)'
    BY <1>0, <1>2, Zenon DEF TargetsBy, SameRegs, SameGens
  <1>7. /\ \A d \in TCpus \ {c}, s \in Roots : UntoldBy(c, d, s) => UntoldBy(c, d, s)'
        /\ \A d \in TCpus \ {c} : \A s \in Roots :
              tc[d].satp = s /\ UnflushedBy(c, d, s) => UnflushedBy(c, d, s)'
    <2>1. ASSUME NEW d \in TCpus \ {c}, NEW s \in Roots, tc[d].satp = s, UnflushedBy(c, d, s)
          PROVE  UnflushedBy(c, d, s)'
      <3>1. tc[d].active = s BY <2>1, SatpActive, Zenon
      <3> QED BY <1>2, <2>1, <3>1, Zenon DEF UnflushedBy, Edits, Editing, Moves, SameRegs, SameGens
    <2>2. \A d \in TCpus \ {c}, s \in Roots : UntoldBy(c, d, s) => UntoldBy(c, d, s)'
      BY <1>2, Zenon DEF UntoldBy, SameRegs
    <2> QED BY <2>1, <2>2, Zenon
  <1>8. tlb' = [tlb EXCEPT ![c] = tlb[c]] /\ tlb[c] \in SUBSET tlb[c] BY <1>0, Zenon
  <1> QED BY <1>0, <1>2, <1>3, <1>4, <1>5, <1>6, <1>7, <1>8, MoveInv, ZenonT(30) DEF SameRegs, SameGens

LEMMA ResampleOnInv ==
  ASSUME TlbInv, NEW c \in TCpus, tc[c].at = "resample",
         NEW T \in SUBSET (TCpus \ {c}),
         \A d \in TCpus \ {c} : tc[d].active = tc[c].sp => d \in T,
         gen' = gen + 1, Cpu(c, [tc[c] EXCEPT !.at = "post", !.mine = gen + 1, !.todo = T]),
         UNCHANGED <<riscv, tlb, sps, pool, shoot>>
  PROVE  TlbInv'
  <1>0. /\ CpuOK(c) /\ SpOK(c) /\ tc \in [TCpus -> CpuRec] /\ GensOK /\ gen \in Nat
        /\ tlb \in [TCpus -> SUBSET TlbRec] /\ shoot \in TCpus \cup {NoRoot}
    BY Types, Zenon DEF TlbInv, ControlOK, TlbRec
  <1>1. /\ Cpu(c, [tc[c] EXCEPT !.at = "post", !.mine = gen + 1, !.todo = T])
        /\ UNCHANGED <<riscv, tlb, sps, pool, shoot>> /\ ~riscv
    BY <1>0, Zenon DEF CpuOK, OnlyLoong
  <1>2. /\ Moves(c) /\ tc'[c].at = "post" /\ SameRegs(c) /\ tc'[c].req = tc[c].req
        /\ tc'[c].ack = tc[c].ack /\ tc'[c].mine = gen + 1 /\ tc'[c].ipi = tc[c].ipi
        /\ tc'[c].todo = T /\ tc'[c].back = tc[c].back /\ tc'[c].taken = tc[c].taken
    <2>0. tc[c] \in CpuRec BY <1>0, Zenon
    <2>3. gen + 1 \in Nat BY <1>0
    <2>1. [tc[c] EXCEPT !.at = "post", !.mine = gen + 1, !.todo = T] \in CpuRec BY <2>0, <2>3, Zenon DEF CpuRec
    <2>2. /\ tc' \in [TCpus -> CpuRec] /\ \A d \in TCpus \ {c} : tc'[d] = tc[d]
          /\ tc'[c] = [tc[c] EXCEPT !.at = "post", !.mine = gen + 1, !.todo = T]
      BY <1>0, <1>1, <2>1, CpuSet, Zenon
    <2> QED BY <2>0, <2>2, Zenon DEF CpuRec, Moves, SameRegs
  <1>3. /\ CpuOK(c)' /\ SpOK(c)' /\ tc'[c].at \notin Making
        /\ \A s \in Roots : (Holds(c, s) => Holds(c, s)') /\ (Edits(c, s) => Edits(c, s)')
    <2>1. CpuOK(c)' BY <1>0, <1>1, <1>2 DEF CpuOK, Entering, Editing, Making, OnlyRiscv, OnlyLoong, SameRegs
    <2>2. SpOK(c)' BY <1>0, <1>1, <1>2, Zenon DEF SpOK, CpuOK, Entering, Editing, Making, OnlyRiscv, OnlyLoong, SameRegs
    <2> QED BY <1>2, <1>1, <2>1, <2>2, Zenon DEF Holds, Edits, Entering, Editing, Making, SameRegs
  <1>4. GensOK'
    BY <1>0, <1>1, <1>2, GensPost, Zenon
  <1>5. ChangeOK'
    <2>1. SameSpaces /\ \A d \in TCpus : tlb'[d] \subseteq tlb[d]
      BY <1>0, <1>1, Zenon DEF SameSpaces, SameOwners
    <2> QED BY <1>0, <1>1, <1>2, <2>1, ChangeKept, Zenon
  <1>6. TargetsBy(c)'
    <2>1. ASSUME NEW d \in TCpus \ {c}, tc'[d].active = tc'[c].sp
          PROVE  d \in T /\ tc'[d].ack # gen + 1
      <3>1. d \in T BY <1>2, <2>1, Zenon DEF Moves, SameRegs
      <3>2. tc[d].ack <= gen /\ tc[d].ack \in Nat BY <1>0, Zenon DEF GensOK, CpuRec
      <3> QED BY <1>0, <1>2, <3>1, <3>2 DEF Moves
    <2> QED BY <1>2, <2>1, Zenon DEF TargetsBy
  <1>7. /\ \A d \in TCpus \ {c}, s \in Roots : UntoldBy(c, d, s) => UntoldBy(c, d, s)'
        /\ \A d \in TCpus \ {c} : \A s \in Roots :
              tc[d].satp = s /\ UnflushedBy(c, d, s) => UnflushedBy(c, d, s)'
    <2>1. ASSUME NEW d \in TCpus \ {c}, NEW s \in Roots, tc[d].satp = s, UnflushedBy(c, d, s)
          PROVE  UnflushedBy(c, d, s)'
      <3>1. tc[d].active = s BY <2>1, SatpActive, Zenon
      <3> QED BY <1>1, <1>2, <2>1, <3>1, Zenon DEF UnflushedBy, Edits, Editing, Moves, SameRegs, SameGens
    <2>2. \A d \in TCpus \ {c}, s \in Roots : UntoldBy(c, d, s) => UntoldBy(c, d, s)'
      BY <1>1, <1>2, Zenon DEF UntoldBy, SameRegs
    <2> QED BY <2>1, <2>2, Zenon
  <1>8. tlb' = [tlb EXCEPT ![c] = tlb[c]] /\ tlb[c] \in SUBSET tlb[c] /\ gen' \in Nat BY <1>0, <1>1
  <1> QED BY <1>0, <1>1, <1>2, <1>3, <1>4, <1>5, <1>6, <1>7, <1>8, MoveInv, ZenonT(30) DEF SameRegs

LEMMA WaitOnInv ==
  ASSUME TlbInv, NEW c \in TCpus, tc[c].at = "wait", NEW x \in TCpus, x \in tc[c].todo, Answered(c, x),
         Cpu(c, [tc[c] EXCEPT !.todo = tc[c].todo \ {x}]),
         UNCHANGED <<riscv, tlb, sps, pool, gen, shoot>>
  PROVE  TlbInv'
  <1>0. /\ CpuOK(c) /\ SpOK(c) /\ tc \in [TCpus -> CpuRec] /\ GensOK /\ gen \in Nat
        /\ tlb \in [TCpus -> SUBSET TlbRec] /\ shoot \in TCpus \cup {NoRoot}
    BY Types, Zenon DEF TlbInv, ControlOK, TlbRec
  <1>2. /\ Moves(c) /\ tc'[c].at = tc[c].at /\ SameRegs(c) /\ SameGens(c) /\ tc'[c].ipi = tc[c].ipi
        /\ tc'[c].todo = tc[c].todo \ {x} /\ tc'[c].back = tc[c].back /\ tc'[c].taken = tc[c].taken
    <2>0. tc[c] \in CpuRec BY <1>0, Zenon
    <2>1. [tc[c] EXCEPT !.todo = tc[c].todo \ {x}] \in CpuRec BY <2>0, Zenon DEF CpuRec
    <2>2. /\ tc' \in [TCpus -> CpuRec] /\ \A d \in TCpus \ {c} : tc'[d] = tc[d]
          /\ tc'[c] = [tc[c] EXCEPT !.todo = tc[c].todo \ {x}]
      BY <1>0, <2>1, CpuSet, Zenon
    <2> QED BY <2>0, <2>2, Zenon DEF CpuRec, Moves, SameRegs, SameGens
  <1>p. \A d \in TCpus \ {c} : tc[d].active = tc[c].sp =>
          d \in tc[c].todo \ {x} /\ tc[d].ack # tc[c].mine /\ tc[d].ipi
    <2>1. TargetsBy(c) /\ ~riscv BY <1>0, Zenon DEF TlbInv, TargetsOK, CpuOK, OnlyLoong
    <2> QED BY <2>1, Zenon DEF TargetsBy, Answered, IsIn
  <1>3. /\ CpuOK(c)' /\ SpOK(c)' /\ tc'[c].at \notin Making
        /\ \A s \in Roots : (Holds(c, s) => Holds(c, s)') /\ (Edits(c, s) => Edits(c, s)')
    <2>1. CpuOK(c)' BY <1>0, <1>2, Zenon DEF CpuOK, Entering, Editing, Making, OnlyRiscv, OnlyLoong, SameRegs, SameGens
    <2>2. SpOK(c)' BY <1>0, <1>2, Zenon DEF SpOK, CpuOK, Entering, Editing, Making, OnlyRiscv, OnlyLoong, SameRegs, SameGens
    <2> QED BY <1>2, <2>1, <2>2, Zenon DEF Holds, Edits, Entering, Editing, Making, SameRegs, SameGens
  <1>4. GensOK'
    BY <1>0, <1>2, GensKept DEF SameRegs, SameGens
  <1>5. ChangeOK'
    <2>1. SameSpaces /\ \A d \in TCpus : tlb'[d] \subseteq tlb[d]
      BY <1>0, Zenon DEF SameSpaces, SameOwners
    <2> QED BY <1>0, <1>2, <2>1, ChangeKept, Zenon
  <1>6. TargetsBy(c)'
    BY <1>2, <1>p, Zenon DEF TargetsBy, Moves, SameRegs, SameGens
  <1>7. /\ \A d \in TCpus \ {c}, s \in Roots : UntoldBy(c, d, s) => UntoldBy(c, d, s)'
        /\ \A d \in TCpus \ {c} : \A s \in Roots :
              tc[d].satp = s /\ UnflushedBy(c, d, s) => UnflushedBy(c, d, s)'
    <2>1. ASSUME NEW d \in TCpus \ {c}, NEW s \in Roots, tc[d].satp = s, UnflushedBy(c, d, s)
          PROVE  UnflushedBy(c, d, s)'
      <3>1. tc[d].active = s /\ tc[c].sp = s BY <2>1, SatpActive, Zenon DEF UnflushedBy, Edits
      <3> QED BY <1>p, <1>2, <2>1, <3>1, Zenon DEF UnflushedBy, Edits, Editing, Moves, SameRegs, SameGens
    <2>2. \A d \in TCpus \ {c}, s \in Roots : UntoldBy(c, d, s) => UntoldBy(c, d, s)'
      BY <1>2, Zenon DEF UntoldBy, SameRegs
    <2> QED BY <2>1, <2>2, Zenon
  <1>8. tlb' = [tlb EXCEPT ![c] = tlb[c]] /\ tlb[c] \in SUBSET tlb[c] BY <1>0, Zenon
  <1> QED BY <1>0, <1>2, <1>3, <1>4, <1>5, <1>6, <1>7, <1>8, <1>p, MoveInv, Zenon DEF SameRegs, SameGens

=============================================================================
