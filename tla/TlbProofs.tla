------------------------------ MODULE TlbProofs ------------------------------
(***************************************************************************)
(* Proofs about TlbShootdown: for any number of CPUs and address spaces,   *)
(* on either build, no user access goes through a stale translation, live  *)
(* spaces share no ASID, and a CPU that a shooter waits for can answer.    *)
(***************************************************************************)
EXTENDS TlbSteps

\* What a list of ASIDs contains is an ASID.
LEMMA Members ==
  ASSUME NEW S, NEW s \in Seq(S), NEW a, In(a, s)
  PROVE  a \in S
  BY DEF In

LEMMA Items ==
  ASSUME NEW S, NEW s \in Seq(S), NEW i \in 1..Len(s)
  PROVE  In(s[i], s) /\ s[i] \in S
  BY DEF In

-----------------------------------------------------------------------------
(* The initial states *)

LEMMA TlbInitInv ==
  ASSUME NEW rv \in BOOLEAN, TlbInit(rv)
  PROVE  TlbInv
  <1>0. MaxAsid \in Nat /\ MaxVer \in Nat /\ NoRoot \notin Roots /\ NoRoot \notin TCpus BY TlbAssumption, Zenon
  <1>1. /\ riscv \in BOOLEAN /\ gen = 0 /\ shoot = NoRoot
        /\ \A c \in TCpus : tc[c] = NewCpu /\ tlb[c] = {}
        /\ \A s \in Roots : sps[s] = [live |-> FALSE, asid |-> 0, ver |-> 0, done |-> 0, lock |-> NoRoot]
        /\ pool = [next |-> 1, reusable |-> <<>>, retired |-> <<>>]
    BY Zenon DEF TlbInit
  <1>2. <<>> \in Seq(1..MaxAsid) OBVIOUS
  <1>3. NewCpu \in CpuRec BY <1>2, Zenon DEF NewCpu, CpuRec
  <1>4. [live |-> FALSE, asid |-> 0, ver |-> 0, done |-> 0, lock |-> NoRoot] \in SpRec
    BY <1>0 DEF SpRec
  <1>5. pool \in PoolRec BY <1>0, <1>1, <1>2 DEF PoolRec
  <1>6. tc \in [TCpus -> CpuRec] /\ sps \in [Roots -> SpRec] BY <1>3, <1>4, Zenon DEF TlbInit
  <1>7. TlbTypeOK BY <1>5, <1>6, Types, Zenon
  <1>8. \A c \in TCpus : /\ tc[c].at = "kernel" /\ tc[c].satp = NoRoot /\ tc[c].active = NoRoot
                         /\ tc[c].sp = NoRoot /\ tc[c].req = 0 /\ tc[c].ack = 0 /\ tc[c].mine = 0
                         /\ tc[c].ipi = FALSE /\ tc[c].taken = <<>> /\ tlb[c] = {}
    BY <1>1 DEF NewCpu
  <1>9. \A s \in Roots : ~sps[s].live /\ sps[s].lock = NoRoot /\ sps[s].done = 0 /\ sps[s].ver = 0
    BY <1>1
  <1>10. ControlOK
    <2>1. \A c \in TCpus : CpuOK(c) /\ SpOK(c)
      BY <1>8 DEF CpuOK, SpOK, Entering, Editing, Making, OnlyRiscv, OnlyLoong
    <2>2. LocksOK /\ DoneOK BY <1>9, Zenon DEF LocksOK, DoneOK
    <2>3. MakersApart BY <1>8, Zenon DEF MakersApart, Making
    <2>4. tlb \in [TCpus -> SUBSET [asid : 0..MaxAsid, root : Roots, ver : 0..MaxVer]] BY Zenon DEF TlbInit
    <2> QED BY <1>1, <2>1, <2>2, <2>3, <2>4, Zenon DEF ControlOK
  <1>11. AsidsOK
    <2>1. Once(<<>>) BY DEF Once
    <2>2. pool.reusable = <<>> /\ pool.retired = <<>> BY <1>1, Zenon
    <2>3. \A s \in Roots, a \in 1..MaxAsid : ~Owns(s, a) BY <1>9, Zenon DEF Owns
    <2> QED BY <1>8, <2>1, <2>2, <2>3, InNone, Zenon DEF AsidsOK, AsidOK
  <1>12. EntriesOK /\ OldIsNews /\ InsideOK /\ ChangeOK
    BY <1>8, Zenon DEF EntriesOK, OldIsNews, InsideOK, ChangeOK
  <1>13. GensOK
    <2>1. gen = 0 /\ \A c \in TCpus : tc[c].at # "post" /\ tc[c].req = 0 /\ tc[c].ack = 0 /\ tc[c].mine = 0
      BY <1>1, <1>8, Zenon
    <2> QED BY <2>1 DEF GensOK
  <1>14. TargetsOK BY <1>8, Zenon DEF TargetsOK, TargetsBy
  <1> QED BY <1>7, <1>10, <1>11, <1>12, <1>13, <1>14, Zenon DEF TlbInv

-----------------------------------------------------------------------------
(* What the invariant says to a program and to a shooter *)

LEMMA InvSafe ==
  ASSUME TlbInv
  PROVE  TlbSafe /\ AwaitedCanAnswer
  <1>0. /\ TlbTypeOK /\ ControlOK /\ AsidsOK /\ EntriesOK /\ InsideOK /\ TargetsOK
        /\ tc \in [TCpus -> CpuRec] /\ sps \in [Roots -> SpRec] /\ NoRoot \notin Roots
    BY Types, TlbAssumption, Zenon DEF TlbInv
  <1>1. \A s \in Roots : sps[s].asid # 0 => sps[s].asid \in 1..MaxAsid
    <2>1. \A s \in Roots : sps[s].asid \in 0..MaxAsid BY <1>0, Zenon DEF SpRec
    <2> QED BY <2>1, TlbAssumption
  <1>2. AsidsExclusive
    <2>1. \A i \in 1..Len(pool.retired) : In(pool.retired[i], pool.retired) /\ pool.retired[i] \in 1..MaxAsid
      <3>1. pool.retired \in Seq(1..MaxAsid) BY <1>0, Zenon DEF TlbTypeOK
      <3> QED BY <3>1, Items, Zenon
    <2>2. \A c \in TCpus : \A i \in 1..Len(tc[c].taken) :
            In(tc[c].taken[i], tc[c].taken) /\ tc[c].taken[i] \in 1..MaxAsid
      <3>1. \A c \in TCpus : tc[c].taken \in Seq(1..MaxAsid) BY <1>0, Zenon DEF CpuRec
      <3> QED BY <3>1, Items, Zenon
    <2>3. \A s \in Roots : sps[s].live => Owns(s, sps[s].asid) BY Zenon DEF Owns
    <2>4. \A s, r \in Roots : s # r /\ sps[s].live /\ sps[r].live /\ sps[s].asid = sps[r].asid
                                => sps[s].asid = 0
      BY <1>0, <1>1, <2>3, Zenon DEF AsidsOK, AsidOK
    <2>5. \A s \in Roots : sps[s].live => \A i \in 1..Len(pool.retired) : pool.retired[i] # sps[s].asid
      BY <1>0, <2>1, <2>3, Zenon DEF AsidsOK, AsidOK
    <2>6. \A s \in Roots : sps[s].live =>
            \A c \in TCpus : \A i \in 1..Len(tc[c].taken) : tc[c].taken[i] # sps[s].asid
      BY <1>0, <2>2, <2>3, Zenon DEF AsidsOK, AsidOK
    <2> QED BY <2>4, <2>5, <2>6, Zenon DEF AsidsExclusive
  <1>3. NoStaleTranslation
    <2> SUFFICES ASSUME NEW c \in TCpus, tc[c].at = "user", NEW e \in Hits(c)
                 PROVE  e.root = tc[c].satp /\ e.ver >= sps[tc[c].satp].done
      BY Zenon DEF NoStaleTranslation
    <2>1. CpuOK(c) /\ SpOK(c) BY <1>0, Zenon DEF ControlOK
    <2>2. PICK s \in Roots : s = tc[c].satp BY <2>1, Zenon DEF CpuOK
    <2>3. sps[s].live BY <2>1, <2>2, Zenon DEF CpuOK, SpOK
    <2>4. e \in tlb[c] /\ e.asid = sps[s].asid BY <2>2, Zenon DEF Hits
    <2>5. Owns(s, e.asid) BY <2>3, <2>4, Zenon DEF Owns
    <2>6. e.root = s BY <1>0, <2>2, <2>4, <2>5, Zenon DEF EntriesOK
    <2>7. e.ver >= sps[s].done BY <1>0, <2>2, <2>4, Zenon DEF InsideOK
    <2> QED BY <2>2, <2>6, <2>7, Zenon
  <1>4. AwaitedCanAnswer
    <2> SUFFICES ASSUME NEW c \in TCpus, tc[c].at = "wait", NEW d \in tc[c].todo, ~Answered(c, d)
                 PROVE  tc[d].at = "ipi" \/ (tc[d].at \in {"user", "kernel"} /\ tc[d].ipi)
      BY Zenon DEF AwaitedCanAnswer
    <2>1. d \in TCpus /\ tc[d] \in CpuRec BY <1>0, Zenon DEF CpuRec
    <2>2. CpuOK(c) /\ SpOK(c) /\ CpuOK(d) /\ SpOK(d) /\ TargetsBy(c) BY <1>0, <2>1, Zenon DEF ControlOK, TargetsOK
    <2>3. ~riscv /\ tc[c].sp \in Roots /\ tc[d].active = tc[c].sp
      BY <2>2, Zenon DEF CpuOK, OnlyLoong, Editing, Answered, IsIn
    <2>4. tc[c].active = NoRoot
      BY <1>0, <2>2, <2>3, Zenon DEF CpuOK, CpuRec, Editing
    <2>5. d # c /\ tc[d].ipi BY <1>0, <2>1, <2>2, <2>3, <2>4, Zenon DEF TargetsBy
    <2>6. Holds(c, tc[c].sp) BY Zenon DEF Holds, Editing
    <2>7. tc[d].at \notin Entering
      <3>1. tc[d].at \in Entering => Holds(d, tc[c].sp) BY <2>2, <2>3, Zenon DEF CpuOK, Holds
      <3> QED BY <2>1, <2>3, <2>5, <2>6, <3>1, OneHolder, Zenon
    <2>8. tc[d].at \notin Editing BY <1>0, <2>1, <2>2, <2>3 DEF CpuOK, CpuRec
    <2> QED BY <1>0, <2>1, <2>2, <2>3, <2>5, <2>7, <2>8
            DEF CpuOK, CpuRec, Entering, Editing, Making, OnlyRiscv
  <1> QED BY <1>0, <1>2, <1>3, <1>4, Zenon DEF TlbSafe

-----------------------------------------------------------------------------
(* Posting a generation and interrupting *)

LEMMA PostFrame ==
  ASSUME TlbInv, NEW c \in TCpus, tc[c].at = "post", tc' \in [TCpus -> CpuRec],
         UNCHANGED <<riscv, tlb, sps, pool, gen, shoot>>,
         tc'[c].at \in {"post", "sample"} \/ (tc'[c].at = "wait" /\ ~riscv),
         \A d \in TCpus \ {c} : tc'[d].at = tc[d].at /\ tc'[d].todo = tc[d].todo,
         \A d \in TCpus : /\ tc'[d].satp = tc[d].satp /\ tc'[d].active = tc[d].active
                          /\ tc'[d].sp = tc[d].sp /\ tc'[d].back = tc[d].back
                          /\ tc'[d].taken = tc[d].taken,
         \A d \in TCpus : tc'[d].ipi => tc[d].ipi \/ ~riscv
  PROVE  ControlOK' /\ AsidsOK' /\ EntriesOK' /\ ChangeOK'
  <1>0. /\ ControlOK /\ AsidsOK /\ EntriesOK /\ ChangeOK
        /\ riscv' = riscv /\ tlb' = tlb /\ sps' = sps /\ pool' = pool /\ gen' = gen /\ shoot' = shoot
    BY Zenon DEF TlbInv
  <1>1. \A d \in TCpus : /\ tc'[d].at \in Editing <=> tc[d].at \in Editing
                         /\ tc'[d].at \in Entering <=> tc[d].at \in Entering
                         /\ tc'[d].at \in Making <=> tc[d].at \in Making
                         /\ tc'[d].at \in {"kernel", "ipi"} <=> tc[d].at \in {"kernel", "ipi"}
                         /\ tc'[d].at \in {"user", "trap"} <=> tc[d].at \in {"user", "trap"}
                         /\ tc'[d].at = "reuse" <=> tc[d].at = "reuse"
                         /\ tc'[d].at = "change" <=> tc[d].at = "change"
    BY Zenon DEF Editing, Entering, Making
  <1>2. ASSUME NEW d \in TCpus PROVE CpuOK(d)'
    <2>1. CpuOK(d) BY <1>0, Zenon DEF ControlOK
    <2>2. CASE d # c BY <1>0, <2>1, <2>2 DEF CpuOK
    <2>3. CASE d = c
      <3>1. tc'[c].at \in Editing /\ tc'[c].at \notin {"kernel", "ipi"} \cup Making \cup Entering \cup {"user", "trap"}
        BY Zenon DEF Editing, Making, Entering
      <3>2. tc'[c].at \notin OnlyRiscv /\ tc'[c].at # "generation" /\ tc'[c].at # "reuse"
        BY Zenon DEF OnlyRiscv
      <3>3. tc'[c].at \in OnlyLoong => ~riscv BY Zenon DEF OnlyLoong
      <3>4. tc[c].at \in Editing /\ tc[c].taken = <<>> BY <2>1, <2>3, Zenon DEF CpuOK, Editing
      <3> QED BY <1>0, <2>1, <2>3, <3>1, <3>2, <3>3, <3>4 DEF CpuOK
    <2> QED BY <2>2, <2>3, Zenon
  <1>3. ASSUME NEW d \in TCpus PROVE SpOK(d)'
    <2>1. SpOK(d) BY <1>0, Zenon DEF ControlOK
    <2> QED BY <1>0, <1>1, <2>1, Zenon DEF SpOK
  <1>4. LocksOK'
    <2>1. \A d \in TCpus, s \in Roots : Holds(d, s) => Holds(d, s)' BY <1>1, Zenon DEF Holds
    <2>2. \A s \in Roots : sps[s].lock # NoRoot => sps[s].lock \in TCpus BY Types, Zenon DEF TlbInv, SpRec
    <2>3. ASSUME NEW s \in Roots, NEW d, d = sps[s].lock, d # NoRoot PROVE Holds(d, s)'
      BY <1>0, <2>1, <2>2, <2>3, Zenon DEF ControlOK, LocksOK
    <2> QED BY <1>0, <2>3, Zenon DEF LocksOK
  <1>5. MakersApart' BY <1>0, <1>1 DEF ControlOK, MakersApart
  <1>6. DoneOK'
    <2>1. \A d \in TCpus, s \in Roots : Edits(d, s) => Edits(d, s)' BY <1>1, Zenon DEF Edits
    <2> QED BY <1>0, <2>1, Zenon DEF ControlOK, DoneOK
  <1>7. ControlOK' BY <1>0, <1>2, <1>3, <1>4, <1>5, <1>6, Zenon DEF ControlOK
  <1>8. AsidsOK' BY <1>0, AsidsKept, Zenon DEF SameOwners
  <1>9. EntriesOK' BY <1>0, <1>1 DEF EntriesOK, Owns
  <1>10. ChangeOK' BY <1>0, <1>1 DEF ChangeOK, Old
  <1> QED BY <1>7, <1>8, <1>9, <1>10, Zenon

LEMMA PostInv ==
  ASSUME TlbInv, NEW c \in TCpus, NEW d \in TCpus, Post(c, d)
  PROVE  TlbInv'
  <1>0. /\ TlbTypeOK /\ ControlOK /\ GensOK /\ OldIsNews /\ InsideOK /\ TargetsOK
        /\ tc \in [TCpus -> CpuRec] /\ sps \in [Roots -> SpRec] /\ pool \in PoolRec
    BY Types, Zenon DEF TlbInv
  <1>1. /\ riscv /\ tc[c].at = "post" /\ d \in tc[c].todo
        /\ UNCHANGED <<riscv, tlb, sps, pool, gen, shoot>>
    BY Zenon DEF Post
  <1>2. d # c /\ tc[c].mine # tc[d].ack BY <1>0, <1>1, Zenon DEF GensOK
  <1>3. PICK nxt \in {"sample", "post"} : nxt = IF tc[c].todo = {d} THEN "sample" ELSE "post"
    BY Zenon
  <1>4. tc' = [tc EXCEPT ![d] = [tc[d] EXCEPT !.req = tc[c].mine],
                         ![c] = [tc[c] EXCEPT !.todo = tc[c].todo \ {d}, !.at = nxt]]
    BY <1>0, <1>2, <1>3, Zenon DEF Post, CpuRec
  <1>5. /\ [tc[d] EXCEPT !.req = tc[c].mine] \in CpuRec
        /\ [tc[c] EXCEPT !.todo = tc[c].todo \ {d}, !.at = nxt] \in CpuRec
    <2>1. tc[c] \in CpuRec /\ tc[d] \in CpuRec /\ tc[c].mine \in Nat BY <1>0, Zenon DEF CpuRec
    <2>2. [tc[d] EXCEPT !.req = tc[c].mine] \in CpuRec BY <2>1, Zenon DEF CpuRec
    <2>3. [tc[c] EXCEPT !.todo = tc[c].todo \ {d}, !.at = nxt] \in CpuRec BY <2>1, Zenon DEF CpuRec
    <2> QED BY <2>2, <2>3, Zenon
  <1>6. /\ tc' \in [TCpus -> CpuRec]
        /\ \A x \in TCpus \ {c, d} : tc'[x] = tc[x]
        /\ tc'[d] = [tc[d] EXCEPT !.req = tc[c].mine]
        /\ tc'[c] = [tc[c] EXCEPT !.todo = tc[c].todo \ {d}, !.at = nxt]
    BY <1>0, <1>2, <1>4, <1>5, Zenon
  <1>7. /\ tc'[c].at = nxt /\ tc'[c].todo = tc[c].todo \ {d} /\ tc'[d].req = tc[c].mine
        /\ tc'[d].at = tc[d].at /\ tc'[d].todo = tc[d].todo /\ tc'[c].req = tc[c].req
        /\ \A x \in TCpus \ {c, d} : tc'[x] = tc[x]
        /\ \A x \in TCpus : /\ tc'[x].satp = tc[x].satp /\ tc'[x].active = tc[x].active
                            /\ tc'[x].sp = tc[x].sp /\ tc'[x].back = tc[x].back
                            /\ tc'[x].taken = tc[x].taken /\ tc'[x].ack = tc[x].ack
                            /\ tc'[x].mine = tc[x].mine /\ tc'[x].ipi = tc[x].ipi
    <2>1. tc[c] \in CpuRec /\ tc[d] \in CpuRec BY <1>0, Zenon
    <2>2. /\ tc'[d].req = tc[c].mine /\ tc'[d].at = tc[d].at /\ tc'[d].todo = tc[d].todo
          /\ tc'[d].satp = tc[d].satp /\ tc'[d].active = tc[d].active
          /\ tc'[d].sp = tc[d].sp /\ tc'[d].back = tc[d].back
          /\ tc'[d].taken = tc[d].taken /\ tc'[d].ack = tc[d].ack
          /\ tc'[d].mine = tc[d].mine /\ tc'[d].ipi = tc[d].ipi
      BY <1>6, <2>1, Zenon DEF CpuRec
    <2>3. /\ tc'[c].at = nxt /\ tc'[c].todo = tc[c].todo \ {d} /\ tc'[c].req = tc[c].req
          /\ tc'[c].satp = tc[c].satp /\ tc'[c].active = tc[c].active
          /\ tc'[c].sp = tc[c].sp /\ tc'[c].back = tc[c].back
          /\ tc'[c].taken = tc[c].taken /\ tc'[c].ack = tc[c].ack
          /\ tc'[c].mine = tc[c].mine /\ tc'[c].ipi = tc[c].ipi
      BY <1>6, <2>1, Zenon DEF CpuRec
    <2> QED BY <1>6, <2>2, <2>3, Zenon
  <1>a. TlbTypeOK' BY <1>0, <1>1, <1>6, TypesNext, Zenon
  <1>b. ControlOK' /\ AsidsOK' /\ EntriesOK' /\ ChangeOK'
    <2>1. \A x \in TCpus \ {c} : tc'[x].at = tc[x].at /\ tc'[x].todo = tc[x].todo BY <1>7, Zenon
    <2>2. tc' \in [TCpus -> CpuRec] /\ tc'[c].at \in {"post", "sample"} BY <1>6, <1>7, Zenon
    <2> QED BY <1>1, <1>7, <2>1, <2>2, PostFrame
  <1>e. GensOK'
    <2>1. \A x \in TCpus : tc'[x].req <= gen' /\ tc'[x].ack <= gen' /\ tc'[x].mine <= gen'
      BY <1>0, <1>1, <1>7 DEF GensOK
    <2>2. \A k \in TCpus : tc'[k].at = "post" => tc[k].at = "post" /\ tc'[k].todo \subseteq tc[k].todo
      BY <1>1, <1>7, Zenon
    <2>3. \A k, j \in TCpus : k # j /\ tc'[k].at = "post" /\ tc'[j].at = "post"
                                => tc'[k].mine # tc'[j].mine
      BY <1>0, <1>7, <2>2 DEF GensOK
    <2>4. ASSUME NEW k \in TCpus, NEW x \in TCpus, tc'[k].at = "post", x \in tc'[k].todo
          PROVE  /\ x # k /\ tc'[k].mine # tc'[x].ack /\ tc'[k].mine # tc'[x].req
                 /\ tc'[x].at = "flush" => tc'[k].mine # tc'[x].mine
      <3>1. /\ x # k /\ tc[k].mine # tc[x].ack /\ tc[k].mine # tc[x].req
            /\ tc[x].at = "flush" => tc[k].mine # tc[x].mine
        BY <1>0, <2>2, <2>4, Zenon DEF GensOK
      <3>2. tc'[x].at = "flush" => tc[x].at = "flush" BY <1>1, <1>7, Zenon
      <3>3. tc'[k].mine # tc'[x].req
        <4>1. CASE x # d BY <1>7, <3>1, <4>1, Zenon
        <4>2. CASE x = d
          <5>1. k # c BY <1>7, <2>4, <4>2, Zenon
          <5>2. tc[k].mine # tc[c].mine BY <1>0, <1>1, <2>2, <2>4, <5>1, Zenon DEF GensOK
          <5> QED BY <1>7, <4>2, <5>2, Zenon
        <4> QED BY <4>1, <4>2, Zenon
      <3> QED BY <1>7, <3>1, <3>2, <3>3, Zenon
    <2> QED BY <2>1, <2>3, <2>4, Zenon DEF GensOK
  <1>f. OldIsNews'
    <2> SUFFICES ASSUME NEW x \in TCpus, NEW s \in Roots, NEW e \in tlb[x], Old(e, s)
                 PROVE  tc'[x].req # tc'[x].ack \/ Untold(x, s)'
      BY <1>1, Zenon DEF OldIsNews, Old
    <2>1. CASE x = d BY <1>2, <1>7, <2>1, Zenon
    <2>2. CASE x # d
      <3>1. tc[x].req # tc[x].ack \/ Untold(x, s) BY <1>0, <1>1, Zenon DEF OldIsNews
      <3>2. \A k \in TCpus : UntoldBy(k, x, s) => UntoldBy(k, x, s)'
        <4>1. UntoldBy(c, x, s) => UntoldBy(c, x, s)' BY <1>1, <1>3, <1>7, <2>2, Zenon DEF UntoldBy
        <4>2. \A k \in TCpus \ {c} : UntoldBy(k, x, s) => UntoldBy(k, x, s)' BY <1>7 DEF UntoldBy
        <4> QED BY <4>1, <4>2, Zenon
      <3>3. tc'[x].req = tc[x].req /\ tc'[x].ack = tc[x].ack BY <1>7, <2>2, Zenon
      <3> QED BY <3>1, <3>2, <3>3, Zenon DEF Untold
    <2> QED BY <2>1, <2>2, Zenon
  <1>g. InsideOK'
    <2>1. \A k, x \in TCpus, s \in Roots : UnflushedBy(k, x, s) => UnflushedBy(k, x, s)'
      BY <1>1, <1>2, <1>7 DEF UnflushedBy, Edits, Editing
    <2>2. \A x \in TCpus, s \in Roots : Unflushed(x, s) => Unflushed(x, s)' BY <2>1, Zenon DEF Unflushed
    <2> QED BY <1>0, <1>1, <1>7, <2>2 DEF InsideOK
  <1>i. TargetsOK' BY <1>1, Zenon DEF TargetsOK, TargetsBy
  <1> QED BY <1>a, <1>b, <1>e, <1>f, <1>g, <1>i, Zenon DEF TlbInv

LEMMA InterruptInv ==
  ASSUME TlbInv, NEW c \in TCpus, Interrupt(c)
  PROVE  TlbInv'
  <1>0. /\ TlbTypeOK /\ ControlOK /\ GensOK /\ OldIsNews /\ InsideOK /\ TargetsOK
        /\ tc \in [TCpus -> CpuRec] /\ sps \in [Roots -> SpRec] /\ pool \in PoolRec
    BY Types, Zenon DEF TlbInv
  <1>1. /\ ~riscv /\ tc[c].at = "post" /\ UNCHANGED <<riscv, tlb, sps, pool, gen, shoot>>
    BY Zenon DEF Interrupt
  <1>2. /\ c \notin tc[c].todo /\ tc[c].todo \subseteq TCpus
        /\ \A x \in tc[c].todo : tc[c].mine # tc[x].ack
    BY <1>0, <1>1, Zenon DEF GensOK, CpuRec
  <1>3. ASSUME NEW x \in TCpus
        PROVE  /\ tc'[x] \in CpuRec
               /\ tc'[x].satp = tc[x].satp /\ tc'[x].active = tc[x].active
               /\ tc'[x].sp = tc[x].sp /\ tc'[x].back = tc[x].back
               /\ tc'[x].taken = tc[x].taken /\ tc'[x].ack = tc[x].ack
               /\ tc'[x].mine = tc[x].mine /\ tc'[x].todo = tc[x].todo
               /\ (tc[x].ipi => tc'[x].ipi) /\ (x \in tc[c].todo => tc'[x].ipi)
               /\ tc'[x].at = IF x = c THEN "wait" ELSE tc[x].at
               /\ tc'[x].req = IF x \in tc[c].todo THEN tc[c].mine ELSE tc[x].req
    <2>1. tc[x] \in CpuRec /\ tc[c] \in CpuRec BY <1>0, Zenon
    <2>2. tc'[x] = IF x \in tc[c].todo
                   THEN [tc[x] EXCEPT !.req = tc[c].mine, !.ipi = TRUE]
                   ELSE IF x = c THEN [tc[c] EXCEPT !.at = "wait"] ELSE tc[x]
      BY Zenon DEF Interrupt
    <2>3. CASE x \in tc[c].todo
      <3>1. tc'[x] = [tc[x] EXCEPT !.req = tc[c].mine, !.ipi = TRUE] /\ x # c BY <1>2, <2>2, <2>3, Zenon
      <3>2. tc[c].mine \in Nat BY <2>1, Zenon DEF CpuRec
      <3>3. tc'[x] \in CpuRec BY <2>1, <3>1, <3>2, Zenon DEF CpuRec
      <3>4. tc'[x].ipi BY <2>1, <3>1, Zenon DEF CpuRec
      <3> QED BY <2>1, <2>3, <3>1, <3>3, <3>4 DEF CpuRec
    <2>4. CASE x \notin tc[c].todo /\ x = c
      <3>1. tc'[x] = [tc[x] EXCEPT !.at = "wait"] BY <2>2, <2>4, Zenon
      <3>2. tc'[x] \in CpuRec BY <2>1, <3>1, Zenon DEF CpuRec
      <3> QED BY <2>1, <2>4, <3>1, <3>2 DEF CpuRec
    <2>5. CASE x \notin tc[c].todo /\ x # c BY <2>1, <2>2, <2>5, Zenon
    <2> QED BY <2>3, <2>4, <2>5, Zenon
  <1>4. tc' \in [TCpus -> CpuRec]
    <2>1. tc' = [x \in TCpus |-> tc'[x]] BY Zenon DEF Interrupt
    <2> QED BY <1>3, <2>1, Zenon
  <1>a. TlbTypeOK' BY <1>0, <1>1, <1>4, TypesNext, Zenon
  <1>b. ControlOK' /\ AsidsOK' /\ EntriesOK' /\ ChangeOK' BY <1>1, <1>3, <1>4, PostFrame
  <1>e. GensOK'
    <2>1. \A x \in TCpus : tc'[x].req <= gen' /\ tc'[x].ack <= gen' /\ tc'[x].mine <= gen'
      BY <1>0, <1>1, <1>3, Zenon DEF GensOK
    <2>2. \A k \in TCpus : tc'[k].at = "post" => k # c /\ tc[k].at = "post" BY <1>3, Zenon
    <2>3. \A k, j \in TCpus : k # j /\ tc'[k].at = "post" /\ tc'[j].at = "post"
                                => tc'[k].mine # tc'[j].mine
      BY <1>0, <1>3, <2>2 DEF GensOK
    <2>4. ASSUME NEW k \in TCpus, NEW x \in TCpus, tc'[k].at = "post", x \in tc'[k].todo
          PROVE  /\ x # k /\ tc'[k].mine # tc'[x].ack /\ tc'[k].mine # tc'[x].req
                 /\ tc'[x].at = "flush" => tc'[k].mine # tc'[x].mine
      <3>1. /\ x # k /\ tc[k].mine # tc[x].ack /\ tc[k].mine # tc[x].req
            /\ tc[x].at = "flush" => tc[k].mine # tc[x].mine
        BY <1>0, <1>3, <2>2, <2>4 DEF GensOK
      <3>2. tc[k].mine # tc[c].mine BY <1>0, <1>1, <2>2, <2>4, Zenon DEF GensOK
      <3> QED BY <1>3, <3>1, <3>2, Zenon
    <2> QED BY <2>1, <2>3, <2>4, Zenon DEF GensOK
  <1>f. OldIsNews' BY <1>1, Zenon DEF OldIsNews
  <1>g. InsideOK'
    <2>1. \A k, x \in TCpus, s \in Roots : UnflushedBy(k, x, s) => UnflushedBy(k, x, s)'
      BY <1>1, <1>2, <1>3 DEF UnflushedBy, Edits, Editing
    <2>2. \A x \in TCpus, s \in Roots : Unflushed(x, s) => Unflushed(x, s)' BY <2>1, Zenon DEF Unflushed
    <2> QED BY <1>0, <1>1, <1>3, <2>2 DEF InsideOK
  <1>i. TargetsOK'
    <2>1. ASSUME NEW k \in TCpus PROVE TargetsBy(k)'
      <3>1. TargetsBy(k) /\ (tc'[k].at \in {"post", "wait"} => tc[k].at \in {"post", "wait"})
        BY <1>0, <1>1, <1>3, Zenon DEF TargetsOK
      <3> QED BY <1>1, <1>3, <3>1 DEF TargetsBy
    <2> QED BY <2>1, Zenon DEF TargetsOK
  <1> QED BY <1>a, <1>b, <1>e, <1>f, <1>g, <1>i, Zenon DEF TlbInv

-----------------------------------------------------------------------------
(* Taking and releasing a space *)

LEMMA ActivateInv ==
  ASSUME TlbInv, NEW c \in TCpus, NEW s \in Roots, Activate(c, s)
  PROVE  TlbInv'
  <1>0. /\ TlbTypeOK /\ ControlOK /\ AsidsOK /\ EntriesOK /\ GensOK
        /\ OldIsNews /\ InsideOK /\ ChangeOK /\ TargetsOK /\ CpuOK(c) /\ SpOK(c)
        /\ tc \in [TCpus -> CpuRec] /\ sps \in [Roots -> SpRec] /\ pool \in PoolRec
    BY Types, Zenon DEF TlbInv, ControlOK
  <1>1. /\ Cpu(c, [tc[c] EXCEPT !.at = "mark", !.sp = s, !.active = s])
        /\ tc[c].at = "kernel" /\ sps[s].live /\ sps[s].lock = NoRoot
        /\ Sp(s, [sps[s] EXCEPT !.lock = c]) /\ UNCHANGED <<riscv, tlb, pool, gen, shoot>>
    BY <1>0, Zenon DEF Activate
  <1>2. [tc[c] EXCEPT !.at = "mark", !.sp = s, !.active = s] \in CpuRec
    <2>1. tc[c] \in CpuRec /\ gen \in Nat BY <1>0, Zenon DEF ControlOK
    <2>2. gen + 1 \in Nat BY <2>1
    <2> QED BY <2>1, <2>2, Zenon DEF CpuRec
  <1>3. /\ tc' \in [TCpus -> CpuRec] /\ \A d \in TCpus \ {c} : tc'[d] = tc[d]
        /\ tc'[c].at = "mark" /\ tc'[c].satp = tc[c].satp /\ tc'[c].active = s
        /\ tc'[c].req = tc[c].req /\ tc'[c].ack = tc[c].ack /\ tc'[c].ipi = tc[c].ipi
        /\ tc'[c].sp = s /\ tc'[c].mine = tc[c].mine /\ tc'[c].todo = tc[c].todo
        /\ tc'[c].back = tc[c].back /\ tc'[c].taken = tc[c].taken
    <2>1. /\ tc' \in [TCpus -> CpuRec] /\ \A d \in TCpus \ {c} : tc'[d] = tc[d]
          /\ tc'[c] = [tc[c] EXCEPT !.at = "mark", !.sp = s, !.active = s]
      BY <1>0, <1>1, <1>2, CpuSet, Zenon
    <2>2. tc[c] \in CpuRec BY <1>0, Zenon
    <2> QED BY <2>1, <2>2 DEF CpuRec
  <1>4. Moves(c) BY <1>3, Zenon DEF Moves
  <1>8. /\ sps' \in [Roots -> SpRec] /\ \A r \in Roots \ {s} : sps'[r] = sps[r]
        /\ sps'[s].live = sps[s].live /\ sps'[s].asid = sps[s].asid /\ sps'[s].ver = sps[s].ver
        /\ sps'[s].done = sps[s].done /\ sps'[s].lock = c
    <2>1. sps[s] \in SpRec BY <1>0, Zenon
    <2>2. [sps[s] EXCEPT !.lock = c] \in SpRec BY <2>1, Zenon DEF SpRec
    <2>3. /\ sps' \in [Roots -> SpRec] /\ \A r \in Roots \ {s} : sps'[r] = sps[r]
          /\ sps'[s] = [sps[s] EXCEPT !.lock = c]
      BY <1>0, <1>1, <2>2, SpSet, Zenon
    <2> QED BY <2>1, <2>3, Zenon DEF SpRec
  <1>6. \A k \in TCpus : tc[k].at \in {"post", "wait"} => tc[k].sp # s
    <2>1. \A k \in TCpus : ~Holds(k, s) BY <1>1, NobodyHolds, Zenon
    <2> QED BY <2>1, Zenon DEF Holds, Editing
  <1>a. TlbTypeOK'
    BY <1>0, <1>1, <1>3, <1>8, TypesNext, Zenon
  <1>b. ControlOK'
    <2>1. CpuOK(c)' BY <1>0, <1>1, <1>3, Zenon DEF CpuOK, Entering, Editing, Making, OnlyRiscv, OnlyLoong
    <2>2. SpOK(c)' BY <1>0, <1>1, <1>3, <1>8, Zenon DEF SpOK, CpuOK, Entering, Editing, Making, OnlyRiscv, OnlyLoong
    <2>3. /\ \A r \in Roots \ {s} : Holds(c, r) => Holds(c, r)'
          /\ \A r \in Roots \ {s} : Edits(c, r) => Edits(c, r)'
          /\ tc'[c].at \in Making => tc[c].at \in Making /\ tc'[c].sp = tc[c].sp
          /\ sps'[s].lock = NoRoot \/ (sps'[s].lock = c /\ Holds(c, s)')
      BY <1>1, <1>3, <1>8, Zenon DEF Holds, Edits, Entering, Editing, Making, OnlyRiscv, OnlyLoong
    <2>4. tlb' \in [TCpus -> SUBSET TlbRec] BY <1>0, <1>1, Zenon DEF ControlOK, TlbRec
    <2>5. \A d \in TCpus \ {c} : ~Holds(d, s)
      BY <1>1, NobodyHolds, Zenon
    <2>6. Edits(c, s)' \/ sps'[s].done = sps'[s].ver
      <3>1. \A k \in TCpus : ~Edits(k, s)
        <4>1. \A k \in TCpus : ~Holds(k, s) BY <1>1, NobodyHolds
        <4> QED BY <4>1, Zenon DEF Holds, Edits
      <3> QED BY <1>0, <1>1, <1>8, <3>1, Zenon DEF ControlOK, DoneOK
    <2>7. SameSpaces BY <1>8, Zenon DEF SameSpaces, SameOwners
    <2>8. gen' \in Nat /\ shoot' \in TCpus \cup {NoRoot} BY <1>0, <1>1, Zenon DEF ControlOK
    <2> QED BY <1>1, <1>4, <1>8, <2>1, <2>2, <2>3, <2>4, <2>5, <2>6, <2>7, <2>8, ControlLocks
  <1>5. SameOwners /\ SameSpaces /\ (\A d \in TCpus : tlb'[d] \subseteq tlb[d])
    BY <1>0, <1>1, <1>8, Zenon DEF SameSpaces, SameOwners, ControlOK
  <1>c. AsidsOK'
    BY <1>1, <1>3, <1>5, AsidsKept, Zenon
  <1>d. EntriesOK'
    BY <1>1, <1>3, <1>4, <1>5, EntriesKept, Zenon
  <1>e. GensOK'
    BY <1>0, <1>1, <1>3, <1>4, GensKept DEF ControlOK
  <1>f. OldIsNews'
    <2>1. \A d \in TCpus \ {c}, r \in Roots : UntoldBy(c, d, r) => UntoldBy(c, d, r)'
      BY <1>1, <1>3, Zenon DEF UntoldBy
    <2> QED BY <1>1, <1>3, <1>4, <1>5, <2>1, OldKept, Zenon
  <1>g. InsideOK'
    <2>1. \A d \in TCpus \ {c} : \A r \in Roots :
             tc[d].satp = r /\ UnflushedBy(c, d, r) => UnflushedBy(c, d, r)'
      BY <1>1, <1>3, Zenon DEF UnflushedBy, Edits, Editing
    <2>2. \A r \in Roots : sps'[r].done = sps[r].done BY <1>8, Zenon
    <2> QED BY <1>1, <1>3, <1>4, <1>5, <2>1, <2>2, InsideKept, Zenon
  <1>h. ChangeOK'
    BY <1>1, <1>3, <1>4, <1>5, ChangeKept, Zenon
  <1>i. TargetsOK'
    <2> SUFFICES ASSUME NEW k \in TCpus, tc'[k].at \in {"post", "wait"}, ~riscv,
                        NEW d \in TCpus \ {k}, tc'[d].active = tc'[k].sp
                 PROVE  /\ d \in tc'[k].todo /\ tc'[d].ack # tc'[k].mine
                        /\ tc'[k].at = "wait" => tc'[d].ipi
      BY <1>1, Zenon DEF TargetsOK, TargetsBy
    <2>1. k # c /\ tc'[k] = tc[k] BY <1>3, Zenon
    <2>2. d # c /\ tc'[d] = tc[d] BY <1>3, <1>6, <2>1, Zenon
    <2> QED BY <1>0, <2>1, <2>2, Zenon DEF TargetsOK, TargetsBy
  <1> QED BY <1>a, <1>b, <1>c, <1>d, <1>e, <1>f, <1>g, <1>h, <1>i, Zenon DEF TlbInv

LEMMA ChangeInv ==
  ASSUME TlbInv, NEW c \in TCpus, NEW s \in Roots, tc[c].sp = s, Change(c)
  PROVE  TlbInv'
  <1>0. /\ TlbTypeOK /\ ControlOK /\ AsidsOK /\ EntriesOK /\ GensOK
        /\ OldIsNews /\ InsideOK /\ ChangeOK /\ TargetsOK /\ CpuOK(c) /\ SpOK(c)
        /\ tc \in [TCpus -> CpuRec] /\ sps \in [Roots -> SpRec] /\ pool \in PoolRec
    BY Types, Zenon DEF TlbInv, ControlOK
  <1>1. /\ Cpu(c, [tc[c] EXCEPT !.satp = s, !.at = "user"])
        /\ tc[c].at = "change" /\ tlb' = (IF riscv THEN tlb ELSE [tlb EXCEPT ![c] = {}])
        /\ Sp(s, [sps[s] EXCEPT !.lock = NoRoot]) /\ UNCHANGED <<riscv, pool, gen, shoot>>
    BY <1>0, Zenon DEF Change
  <1>2. [tc[c] EXCEPT !.satp = s, !.at = "user"] \in CpuRec
    <2>1. tc[c] \in CpuRec /\ gen \in Nat BY <1>0, Zenon DEF ControlOK
    <2>2. gen + 1 \in Nat BY <2>1
    <2> QED BY <2>1, <2>2, Zenon DEF CpuRec
  <1>3. /\ tc' \in [TCpus -> CpuRec] /\ \A d \in TCpus \ {c} : tc'[d] = tc[d]
        /\ tc'[c].at = "user" /\ tc'[c].satp = s /\ tc'[c].active = tc[c].active
        /\ tc'[c].req = tc[c].req /\ tc'[c].ack = tc[c].ack /\ tc'[c].ipi = tc[c].ipi
        /\ tc'[c].sp = tc[c].sp /\ tc'[c].mine = tc[c].mine /\ tc'[c].todo = tc[c].todo
        /\ tc'[c].back = tc[c].back /\ tc'[c].taken = tc[c].taken
    <2>1. /\ tc' \in [TCpus -> CpuRec] /\ \A d \in TCpus \ {c} : tc'[d] = tc[d]
          /\ tc'[c] = [tc[c] EXCEPT !.satp = s, !.at = "user"]
      BY <1>0, <1>1, <1>2, CpuSet, Zenon
    <2>2. tc[c] \in CpuRec BY <1>0, Zenon
    <2> QED BY <2>1, <2>2 DEF CpuRec
  <1>4. Moves(c) BY <1>3, Zenon DEF Moves
  <1>8. /\ sps' \in [Roots -> SpRec] /\ \A r \in Roots \ {s} : sps'[r] = sps[r]
        /\ sps'[s].live = sps[s].live /\ sps'[s].asid = sps[s].asid /\ sps'[s].ver = sps[s].ver
        /\ sps'[s].done = sps[s].done /\ sps'[s].lock = NoRoot
    <2>1. sps[s] \in SpRec BY <1>0, Zenon
    <2>2. [sps[s] EXCEPT !.lock = NoRoot] \in SpRec BY <2>1, Zenon DEF SpRec
    <2>3. /\ sps' \in [Roots -> SpRec] /\ \A r \in Roots \ {s} : sps'[r] = sps[r]
          /\ sps'[s] = [sps[s] EXCEPT !.lock = NoRoot]
      BY <1>0, <1>1, <2>2, SpSet, Zenon
    <2> QED BY <2>1, <2>3, Zenon DEF SpRec
  <1>6. sps[s].done = sps[s].ver
    <2>1. \A k \in TCpus : ~Edits(k, s)
      <3>1. ASSUME NEW k \in TCpus, Edits(k, s) PROVE FALSE
        <4>1. Holds(c, s) /\ Holds(k, s) BY <1>1, <3>1, Zenon DEF Holds, Edits, Entering
        <4>2. k = c BY <4>1, OneHolder, Zenon
        <4> QED BY <1>1, <3>1, <4>2, Zenon DEF Edits, Editing
      <3> QED BY <3>1, Zenon
    <2> QED BY <1>0, <1>1, <2>1, Zenon DEF ControlOK, DoneOK, SpOK, Entering
  <1>a. TlbTypeOK'
    BY <1>0, <1>1, <1>3, <1>8, TypesNext, Zenon
  <1>b. ControlOK'
    <2>1. CpuOK(c)' BY <1>0, <1>1, <1>3, Zenon DEF CpuOK, Entering, Editing, Making, OnlyRiscv, OnlyLoong
    <2>2. SpOK(c)' BY <1>0, <1>1, <1>3, <1>8 DEF SpOK, CpuOK, Entering, Editing, Making, OnlyRiscv, OnlyLoong
    <2>3. /\ \A r \in Roots \ {s} : Holds(c, r) => Holds(c, r)'
          /\ \A r \in Roots \ {s} : Edits(c, r) => Edits(c, r)'
          /\ tc'[c].at \in Making => tc[c].at \in Making /\ tc'[c].sp = tc[c].sp
          /\ sps'[s].lock = NoRoot \/ (sps'[s].lock = c /\ Holds(c, s)')
      BY <1>1, <1>3, <1>8, Zenon DEF Holds, Edits, Entering, Editing, Making, OnlyRiscv, OnlyLoong
    <2>4. tlb' \in [TCpus -> SUBSET TlbRec] BY <1>0, <1>1, Zenon DEF ControlOK, TlbRec
    <2>5. \A d \in TCpus \ {c} : ~Holds(d, s)
      <3>1. Holds(c, s) BY <1>1, Zenon DEF Holds, Entering
      <3> QED BY <3>1, OneHolder, Zenon
    <2>6. Edits(c, s)' \/ sps'[s].done = sps'[s].ver
      BY <1>6, <1>8, Zenon
    <2>7. SameSpaces BY <1>8, Zenon DEF SameSpaces, SameOwners
    <2>8. gen' \in Nat /\ shoot' \in TCpus \cup {NoRoot} BY <1>0, <1>1, Zenon DEF ControlOK
    <2> QED BY <1>1, <1>4, <1>8, <2>1, <2>2, <2>3, <2>4, <2>5, <2>6, <2>7, <2>8, ControlLocks
  <1>5. SameOwners /\ SameSpaces /\ (\A d \in TCpus : tlb'[d] \subseteq tlb[d]) /\ (tlb'[c] = {} \/ riscv)
    BY <1>0, <1>1, <1>8, Zenon DEF SameSpaces, SameOwners, ControlOK
  <1>c. AsidsOK'
    BY <1>1, <1>3, <1>5, AsidsKept, Zenon
  <1>d. EntriesOK'
    <2>1. tlb'[c] = {} \/ (riscv /\ \A e \in tlb'[c] : e.asid # 0)
      <3>1. tc[c].satp = NoRoot /\ NoRoot \notin Roots BY <1>0, <1>1, TlbAssumption, Zenon DEF CpuOK, Entering
      <3>2. \A e \in tlb[c] : e.asid # 0 BY <1>0, <3>1, Zenon DEF EntriesOK
      <3> QED BY <1>5, <3>2, Zenon
    <2> QED BY <1>1, <1>3, <1>4, <1>5, <2>1, EntriesKept, Zenon
  <1>e. GensOK'
    BY <1>0, <1>1, <1>3, <1>4, GensKept DEF ControlOK
  <1>f. OldIsNews'
    <2>1. \A d \in TCpus \ {c}, r \in Roots : UntoldBy(c, d, r) => UntoldBy(c, d, r)'
      BY <1>1, <1>3, Zenon DEF UntoldBy
    <2> QED BY <1>1, <1>3, <1>4, <1>5, <2>1, OldKept, Zenon
  <1>g. InsideOK'
    <2> SUFFICES ASSUME NEW d \in TCpus, NEW r \in Roots, tc'[d].satp = r, NEW e \in tlb'[d],
                        e.asid = sps'[r].asid
                 PROVE  /\ e.ver >= sps'[r].done
                        /\ e.ver < sps'[r].ver => Unflushed(d, r)'
      BY Zenon DEF InsideOK
    <2>1. e \in tlb[d] /\ e.asid = sps[r].asid BY <1>5, Zenon DEF SameSpaces, SameOwners
    <2>2. sps'[r].done = sps[r].done /\ sps'[r].ver = sps[r].ver BY <1>8, Zenon
    <2>3. CASE d = c
      <3>1. r = s /\ riscv /\ tc[c].satp = NoRoot /\ NoRoot \notin Roots
        BY <1>0, <1>1, <1>3, <1>5, <2>3, TlbAssumption, Zenon DEF CpuOK, Entering
      <3>2. sps[s].live BY <1>0, <1>1, Zenon DEF SpOK, Entering
      <3>3. e.asid # 0 BY <1>0, <2>1, <2>3, <3>1, Zenon DEF EntriesOK
      <3>4. e.root = s
        <4>1. Owns(s, e.asid) BY <2>1, <3>1, <3>2, Zenon DEF Owns
        <4> QED BY <1>0, <2>1, <2>3, <3>1, <3>3, <4>1, Zenon DEF EntriesOK
      <3>5. ~Old(e, s) BY <1>0, <1>1, <2>1, <2>3, <3>1, Zenon DEF ChangeOK
      <3>6. e.ver \in Nat /\ sps[s].ver \in Nat
        <4>1. e.ver \in 0..MaxVer /\ sps[s].ver \in 0..MaxVer
          BY <1>0, <2>1 DEF ControlOK, SpRec
        <4> QED BY <4>1
      <3>7. e.ver >= sps[s].ver BY <2>1, <3>1, <3>2, <3>4, <3>5, <3>6 DEF Old
      <3> QED BY <1>6, <2>2, <3>1, <3>6, <3>7
    <2>4. CASE d # c
      <3>1. tc[d].satp = r BY <1>3, <2>4, Zenon
      <3>2. e.ver >= sps[r].done /\ (e.ver < sps[r].ver => Unflushed(d, r))
        BY <1>0, <2>1, <3>1, Zenon DEF InsideOK
      <3>3. \A k \in TCpus \ {d} : UnflushedBy(k, d, r) => UnflushedBy(k, d, r)'
        <4>1. \A k \in TCpus \ {d, c} : UnflushedBy(k, d, r) => UnflushedBy(k, d, r)'
          BY <1>1, <1>3, <2>4, Zenon DEF UnflushedBy, Edits
        <4>2. ~UnflushedBy(c, d, r) BY <1>1, Zenon DEF UnflushedBy, Edits, Editing
        <4> QED BY <4>1, <4>2, Zenon
      <3> QED BY <2>2, <3>2, <3>3, Zenon DEF Unflushed
    <2> QED BY <2>3, <2>4, Zenon
  <1>h. ChangeOK'
    BY <1>1, <1>3, <1>4, <1>5, ChangeKept, Zenon
  <1>i. TargetsOK'
    <2>1. TargetsBy(c)' BY <1>1, <1>3, Zenon DEF TargetsBy
    <2> QED BY <1>1, <1>3, <1>4, <2>1, TargetsKept, Zenon
  <1> QED BY <1>a, <1>b, <1>c, <1>d, <1>e, <1>f, <1>g, <1>h, <1>i, Zenon DEF TlbInv

LEMMA FinishInv ==
  ASSUME TlbInv, NEW c \in TCpus, NEW s \in Roots, tc[c].sp = s, NEW held \in BOOLEAN,
         tc[c].at \in {"sample", "fenced", "resample", "wait"},
         \A d \in TCpus \ {c} : tc[d].satp = s => ~UnflushedBy(c, d, s), Finish(c, held)
  PROVE  TlbInv'
  <1>0. /\ TlbTypeOK /\ ControlOK /\ AsidsOK /\ EntriesOK /\ GensOK
        /\ OldIsNews /\ InsideOK /\ ChangeOK /\ TargetsOK /\ CpuOK(c) /\ SpOK(c)
        /\ tc \in [TCpus -> CpuRec] /\ sps \in [Roots -> SpRec] /\ pool \in PoolRec
    BY Types, Zenon DEF TlbInv, ControlOK
  <1>1. /\ Cpu(c, [tc[c] EXCEPT !.at = tc[c].back, !.sp = tc[c].active, !.todo = {}])
        /\ tc[c].at \in {"sample", "fenced", "resample", "wait"} /\ tc[c].back \in {"kernel", "trap"}
        /\ Sp(s, [sps[s] EXCEPT !.lock = NoRoot, !.done = sps[s].ver])
        /\ shoot' \in {NoRoot, shoot} /\ UNCHANGED <<riscv, tlb, pool, gen>>
    BY <1>0, Zenon DEF Finish, CpuRec
  <1>2. [tc[c] EXCEPT !.at = tc[c].back, !.sp = tc[c].active, !.todo = {}] \in CpuRec
    <2>1. tc[c] \in CpuRec /\ gen \in Nat BY <1>0, Zenon DEF ControlOK
    <2>2. gen + 1 \in Nat BY <2>1
    <2> QED BY <2>1, <2>2, Zenon DEF CpuRec
  <1>3. /\ tc' \in [TCpus -> CpuRec] /\ \A d \in TCpus \ {c} : tc'[d] = tc[d]
        /\ tc'[c].at = tc[c].back /\ tc'[c].satp = tc[c].satp /\ tc'[c].active = tc[c].active
        /\ tc'[c].req = tc[c].req /\ tc'[c].ack = tc[c].ack /\ tc'[c].ipi = tc[c].ipi
        /\ tc'[c].sp = tc[c].active /\ tc'[c].mine = tc[c].mine /\ tc'[c].todo = {}
        /\ tc'[c].back = tc[c].back /\ tc'[c].taken = tc[c].taken
    <2>1. /\ tc' \in [TCpus -> CpuRec] /\ \A d \in TCpus \ {c} : tc'[d] = tc[d]
          /\ tc'[c] = [tc[c] EXCEPT !.at = tc[c].back, !.sp = tc[c].active, !.todo = {}]
      BY <1>0, <1>1, <1>2, CpuSet, Zenon
    <2>2. tc[c] \in CpuRec BY <1>0, Zenon
    <2> QED BY <2>1, <2>2, Zenon DEF CpuRec
  <1>4. Moves(c) BY <1>3, Zenon DEF Moves
  <1>8. /\ sps' \in [Roots -> SpRec] /\ \A r \in Roots \ {s} : sps'[r] = sps[r]
        /\ sps'[s].live = sps[s].live /\ sps'[s].asid = sps[s].asid /\ sps'[s].ver = sps[s].ver
        /\ sps'[s].done = sps[s].ver /\ sps'[s].lock = NoRoot
    <2>1. sps[s] \in SpRec BY <1>0, Zenon
    <2>2. [sps[s] EXCEPT !.lock = NoRoot, !.done = sps[s].ver] \in SpRec BY <2>1, Zenon DEF SpRec
    <2>3. /\ sps' \in [Roots -> SpRec] /\ \A r \in Roots \ {s} : sps'[r] = sps[r]
          /\ sps'[s] = [sps[s] EXCEPT !.lock = NoRoot, !.done = sps[s].ver]
      BY <1>0, <1>1, <2>2, SpSet, Zenon
    <2> QED BY <2>1, <2>3, Zenon DEF SpRec
  <1>a. TlbTypeOK'
    BY <1>0, <1>1, <1>3, <1>8, TypesNext, Zenon
  <1>b. ControlOK'
    <2>1. CpuOK(c)' BY <1>0, <1>1, <1>3, Zenon DEF CpuOK, Entering, Editing, Making, OnlyRiscv, OnlyLoong
    <2>2. SpOK(c)' BY <1>0, <1>1, <1>3, <1>8, Zenon DEF SpOK, CpuOK, Entering, Editing, Making, OnlyRiscv, OnlyLoong
    <2>3. /\ \A r \in Roots \ {s} : Holds(c, r) => Holds(c, r)'
          /\ \A r \in Roots \ {s} : Edits(c, r) => Edits(c, r)'
          /\ tc'[c].at \in Making => tc[c].at \in Making /\ tc'[c].sp = tc[c].sp
          /\ sps'[s].lock = NoRoot \/ (sps'[s].lock = c /\ Holds(c, s)')
      BY <1>1, <1>3, <1>8, Zenon DEF Holds, Edits, Entering, Editing, Making, OnlyRiscv, OnlyLoong
    <2>4. tlb' \in [TCpus -> SUBSET TlbRec] BY <1>0, <1>1, Zenon DEF ControlOK, TlbRec
    <2>5. \A d \in TCpus \ {c} : ~Holds(d, s)
      <3>1. Holds(c, s) BY <1>1, Zenon DEF Holds, Editing
      <3> QED BY <3>1, OneHolder, Zenon
    <2>6. Edits(c, s)' \/ sps'[s].done = sps'[s].ver
      BY <1>8, Zenon
    <2>7. SameSpaces BY <1>8, Zenon DEF SameSpaces, SameOwners
    <2>8. gen' \in Nat /\ shoot' \in TCpus \cup {NoRoot} BY <1>0, <1>1, Zenon DEF ControlOK
    <2> QED BY <1>1, <1>4, <1>8, <2>1, <2>2, <2>3, <2>4, <2>5, <2>6, <2>7, <2>8, ControlLocks, Zenon
  <1>5. SameOwners /\ SameSpaces /\ (\A d \in TCpus : tlb'[d] \subseteq tlb[d])
    BY <1>0, <1>1, <1>8, Zenon DEF SameSpaces, SameOwners, ControlOK
  <1>c. AsidsOK'
    BY <1>1, <1>3, <1>5, AsidsKept, Zenon
  <1>d. EntriesOK'
    BY <1>1, <1>3, <1>4, <1>5, EntriesKept, Zenon
  <1>e. GensOK'
    BY <1>0, <1>1, <1>3, <1>4, GensKept DEF ControlOK
  <1>f. OldIsNews'
    <2>1. \A d \in TCpus \ {c}, r \in Roots : UntoldBy(c, d, r) => UntoldBy(c, d, r)'
      BY <1>1, <1>3, Zenon DEF UntoldBy
    <2> QED BY <1>1, <1>3, <1>4, <1>5, <2>1, OldKept, Zenon
  <1>g. InsideOK'
    <2> SUFFICES ASSUME NEW d \in TCpus, NEW r \in Roots, tc'[d].satp = r, NEW e \in tlb'[d],
                        e.asid = sps'[r].asid
                 PROVE  /\ e.ver >= sps'[r].done
                        /\ e.ver < sps'[r].ver => Unflushed(d, r)'
      BY Zenon DEF InsideOK
    <2>1. e \in tlb[d] /\ e.asid = sps[r].asid /\ tc[d].satp = r BY <1>3, <1>5, Zenon DEF SameSpaces, SameOwners
    <2>2. e.ver >= sps[r].done /\ (e.ver < sps[r].ver => Unflushed(d, r))
      BY <1>0, <2>1, Zenon DEF InsideOK
    <2>3. CASE r = s
      <3>1. ~Unflushed(d, s)
        <4>1. ASSUME NEW k \in TCpus \ {d}, UnflushedBy(k, d, s) PROVE FALSE
          <5>1. Holds(c, s) /\ Holds(k, s) BY <1>1, <4>1, Zenon DEF Holds, UnflushedBy, Edits, Editing
          <5>2. k = c BY <5>1, OneHolder, Zenon
          <5> QED BY <2>1, <2>3, <4>1, <5>2, Zenon
        <4> QED BY <4>1, Zenon DEF Unflushed
      <3>2. e.ver \in Nat /\ sps[s].ver \in Nat
        <4>1. e.ver \in 0..MaxVer /\ sps[s].ver \in 0..MaxVer
          BY <1>0, <2>1 DEF ControlOK, SpRec
        <4> QED BY <4>1
      <3> QED BY <1>8, <2>2, <2>3, <3>1, <3>2
    <2>4. CASE r # s
      <3>1. \A k \in TCpus \ {d} : UnflushedBy(k, d, r) => UnflushedBy(k, d, r)'
        <4>1. tc'[d].ack = tc[d].ack BY <1>3, Zenon
        <4>2. \A k \in TCpus \ {d, c} : UnflushedBy(k, d, r) => UnflushedBy(k, d, r)'
          BY <1>1, <1>3, <4>1, Zenon DEF UnflushedBy, Edits
        <4>3. ~UnflushedBy(c, d, r) BY <2>4, Zenon DEF UnflushedBy, Edits
        <4> QED BY <4>2, <4>3, Zenon
      <3> QED BY <1>8, <2>2, <2>4, <3>1, Zenon DEF Unflushed
    <2> QED BY <2>3, <2>4, Zenon
  <1>h. ChangeOK'
    BY <1>1, <1>3, <1>4, <1>5, ChangeKept, Zenon
  <1>i. TargetsOK'
    <2>1. TargetsBy(c)' BY <1>1, <1>3, Zenon DEF TargetsBy
    <2> QED BY <1>1, <1>3, <1>4, <2>1, TargetsKept, Zenon
  <1> QED BY <1>a, <1>b, <1>c, <1>d, <1>e, <1>f, <1>g, <1>h, <1>i, Zenon DEF TlbInv

LEMMA VersionKnown ==
  ASSUME TlbInv, NEW s \in Roots, sps[s].live
  PROVE  sps[s].done <= sps[s].ver /\ sps[s].done \in Nat /\ sps[s].ver \in Nat
  <1>1. sps[s].done \in Nat /\ sps[s].ver \in Nat
    <2>1. sps[s].done \in 0..MaxVer /\ sps[s].ver \in 0..MaxVer BY Types, Zenon DEF TlbInv, SpRec
    <2> QED BY <2>1
  <1>2. DoneOK /\ \A k \in TCpus : SpOK(k) BY Zenon DEF TlbInv, ControlOK
  <1>3. CASE \E k \in TCpus : Edits(k, s) BY <1>1, <1>2, <1>3 DEF Edits, SpOK
  <1>4. CASE ~\E k \in TCpus : Edits(k, s) BY <1>1, <1>2, <1>4 DEF DoneOK
  <1> QED BY <1>1, <1>3, <1>4, Zenon

LEMMA AccessInv ==
  ASSUME TlbInv, NEW c \in TCpus, Access(c)
  PROVE  TlbInv'
  <1>0. /\ TlbTypeOK /\ ControlOK /\ AsidsOK /\ EntriesOK /\ GensOK
        /\ OldIsNews /\ InsideOK /\ ChangeOK /\ TargetsOK /\ CpuOK(c) /\ SpOK(c)
        /\ tc \in [TCpus -> CpuRec] /\ sps \in [Roots -> SpRec] /\ pool \in PoolRec
    BY Types, Zenon DEF TlbInv, ControlOK
  <1> DEFINE s == tc[c].satp
             new == [asid |-> sps[s].asid, root |-> s, ver |-> sps[s].ver]
  <1>1. /\ tc[c].at = "user" /\ tlb' = [tlb EXCEPT ![c] = tlb[c] \cup {new}]
        /\ UNCHANGED <<riscv, tc, sps, pool, gen, shoot>>
    BY Zenon DEF Access
  <1>2. s \in Roots /\ sps[s].live /\ sps[s] \in SpRec
    BY <1>0, <1>1, Zenon DEF CpuOK, SpOK
  <1>3. new \in TlbRec BY <1>2, Zenon DEF SpRec, TlbRec
  <1> HIDE DEF s
  <1>4. /\ tlb' \in [TCpus -> SUBSET TlbRec]
        /\ \A d \in TCpus \ {c} : tlb'[d] = tlb[d]
        /\ tlb'[c] = tlb[c] \cup {new}
    BY <1>0, <1>1, <1>3, Zenon DEF ControlOK, TlbRec
  <1>5. new.asid = sps[s].asid /\ new.root = s /\ new.ver = sps[s].ver BY Zenon
  <1> HIDE DEF new
  <1>a. TlbTypeOK' BY <1>0, <1>1, Zenon DEF TlbTypeOK
  <1>b. ControlOK'
    <2>1. \A d \in TCpus : CpuOK(d)' /\ SpOK(d)'
      <3>1. \A d \in TCpus : CpuOK(d) /\ SpOK(d) BY <1>0, Zenon DEF ControlOK
      <3> QED BY <1>1, <3>1 DEF CpuOK, SpOK
    <2>2. LocksOK' BY <1>0, <1>1, Zenon DEF ControlOK, LocksOK, Holds
    <2>3. MakersApart' BY <1>0, <1>1, Zenon DEF ControlOK, MakersApart
    <2>4. DoneOK' BY <1>0, <1>1, Zenon DEF ControlOK, DoneOK, Edits
    <2> QED BY <1>0, <1>1, <1>4, <2>1, <2>2, <2>3, <2>4, Zenon DEF ControlOK, TlbRec
  <1>c. AsidsOK' BY <1>0, <1>1, Zenon DEF AsidsOK, AsidOK, Owns
  <1>d. EntriesOK'
    <2> SUFFICES ASSUME NEW d \in TCpus, NEW e \in tlb'[d]
                 PROVE  /\ e.asid = 0 \/ ~riscv =>
                             tc[d].satp \in Roots /\ e.root = tc[d].satp /\ e.asid = sps[tc[d].satp].asid
                        /\ e.asid # 0 /\ riscv =>
                             /\ e.asid < pool.next /\ ~In(e.asid, pool.reusable)
                             /\ \A x \in TCpus : tc[x].at = "reuse" => ~In(e.asid, tc[x].taken)
                             /\ \A r \in Roots : Owns(r, e.asid) => e.root = r
      BY <1>1 DEF EntriesOK, Owns
    <2>1. CASE e \in tlb[d] BY <1>0, <2>1, Zenon DEF EntriesOK
    <2>2. CASE e \notin tlb[d]
      <3>1. d = c /\ e.asid = sps[s].asid /\ e.root = s BY <1>4, <1>5, <2>2, Zenon
      <3>2. Owns(s, e.asid) BY <1>2, <3>1, Zenon DEF Owns
      <3>3. e.asid # 0 => e.asid \in 1..MaxAsid BY <1>2, <3>1 DEF SpRec
      <3>4. e.asid # 0 =>
              /\ e.asid < pool.next /\ ~In(e.asid, pool.reusable)
              /\ \A x \in TCpus : ~In(e.asid, tc[x].taken)
              /\ \A r \in Roots : Owns(r, e.asid) => r = s
        BY <1>0, <1>2, <3>2, <3>3, Zenon DEF AsidsOK, AsidOK
      <3> QED BY <1>2, <3>1, <3>4, Zenon DEF s
    <2> QED BY <2>1, <2>2, Zenon
  <1>e. GensOK' BY <1>0, <1>1, Zenon DEF GensOK
  <1>f. OldIsNews'
    <2>3. \A e, r : Old(e, r)' <=> Old(e, r) BY <1>1, Zenon DEF Old
    <2>4. \A d, r : Untold(d, r)' <=> Untold(d, r) BY <1>1, Zenon DEF Untold, UntoldBy
    <2> SUFFICES ASSUME riscv, NEW d \in TCpus, NEW r \in Roots, NEW e \in tlb'[d], Old(e, r)
                 PROVE  tc[d].req # tc[d].ack \/ Untold(d, r)
      BY <1>1, <2>3, <2>4, Zenon DEF OldIsNews
    <2>1. CASE e \in tlb[d] BY <1>0, <2>1, Zenon DEF OldIsNews
    <2>2. CASE e \notin tlb[d]
      <3>1. e.root = s /\ e.ver = sps[s].ver BY <1>4, <1>5, <2>2, Zenon
      <3>2. sps[s].ver \in Nat BY <1>2, VersionKnown, Zenon
      <3> QED BY <3>1, <3>2 DEF Old
    <2> QED BY <2>1, <2>2, Zenon
  <1>g. InsideOK'
    <2> SUFFICES ASSUME NEW d \in TCpus, NEW r \in Roots, tc[d].satp = r, NEW e \in tlb'[d],
                        e.asid = sps[r].asid
                 PROVE  /\ e.ver >= sps[r].done
                        /\ e.ver < sps[r].ver => Unflushed(d, r)
      BY <1>1 DEF InsideOK, Unflushed, UnflushedBy, Edits
    <2>1. CASE e \in tlb[d] BY <1>0, <2>1, Zenon DEF InsideOK
    <2>2. CASE e \notin tlb[d]
      <3>1. d = c /\ r = s /\ e.ver = sps[s].ver BY <1>4, <1>5, <2>2, Zenon DEF s
      <3> QED BY <1>2, <3>1, VersionKnown
    <2> QED BY <2>1, <2>2, Zenon
  <1>h. ChangeOK'
    <2> SUFFICES ASSUME NEW d \in TCpus, NEW r \in Roots, tc[d].at = "change", tc[d].sp = r, riscv,
                        NEW e \in tlb'[d]
                 PROVE  ~Old(e, r)
      BY <1>1, Zenon DEF ChangeOK, Old
    <2>1. e \in tlb[d] BY <1>1, <1>4, Zenon
    <2> QED BY <1>0, <2>1, Zenon DEF ChangeOK
  <1>i. TargetsOK' BY <1>0, <1>1 DEF TargetsOK, TargetsBy
  <1> QED BY <1>a, <1>b, <1>c, <1>d, <1>e, <1>f, <1>g, <1>h, <1>i, Zenon DEF TlbInv

LEMMA FenceInv ==
  ASSUME TlbInv, NEW c \in TCpus, Fence(c)
  PROVE  TlbInv'
  <1>0. /\ TlbTypeOK /\ ControlOK /\ AsidsOK /\ EntriesOK /\ GensOK
        /\ OldIsNews /\ InsideOK /\ ChangeOK /\ TargetsOK /\ CpuOK(c) /\ SpOK(c)
        /\ tc \in [TCpus -> CpuRec] /\ sps \in [Roots -> SpRec] /\ pool \in PoolRec
    BY Types DEF TlbInv, ControlOK
  <1>1. /\ Cpu(c, [tc[c] EXCEPT !.at = "fenced"])
        /\ tc[c].at = "fence" /\ tlb' = [d \in TCpus |-> IF d \in tc[c].todo THEN {} ELSE tlb[d]]
        /\ UNCHANGED <<riscv, sps, pool, gen, shoot>>
    BY <1>0, Zenon DEF Fence
  <1>2. [tc[c] EXCEPT !.at = "fenced"] \in CpuRec
    <2>1. tc[c] \in CpuRec /\ gen \in Nat BY <1>0, Zenon DEF ControlOK
    <2>2. gen + 1 \in Nat BY <2>1
    <2> QED BY <2>1, <2>2, Zenon DEF CpuRec
  <1>3. /\ tc' \in [TCpus -> CpuRec] /\ \A d \in TCpus \ {c} : tc'[d] = tc[d]
        /\ tc'[c].at = "fenced" /\ tc'[c].satp = tc[c].satp /\ tc'[c].active = tc[c].active
        /\ tc'[c].req = tc[c].req /\ tc'[c].ack = tc[c].ack /\ tc'[c].ipi = tc[c].ipi
        /\ tc'[c].sp = tc[c].sp /\ tc'[c].mine = tc[c].mine /\ tc'[c].todo = tc[c].todo
        /\ tc'[c].back = tc[c].back /\ tc'[c].taken = tc[c].taken
    <2>1. /\ tc' \in [TCpus -> CpuRec] /\ \A d \in TCpus \ {c} : tc'[d] = tc[d]
          /\ tc'[c] = [tc[c] EXCEPT !.at = "fenced"]
      BY <1>0, <1>1, <1>2, CpuSet, Zenon
    <2>2. tc[c] \in CpuRec BY <1>0, Zenon
    <2> QED BY <2>1, <2>2, Zenon DEF CpuRec
  <1>4. Moves(c) BY <1>3, Zenon DEF Moves
  <1>a. TlbTypeOK'
    BY <1>0, <1>1, <1>3, TypesNext, Zenon
  <1>b. ControlOK'
    <2>1. CpuOK(c)' BY <1>0, <1>1, <1>3, Zenon DEF CpuOK, Entering, Editing, Making, OnlyRiscv, OnlyLoong
    <2>2. SpOK(c)' BY <1>0, <1>1, <1>3, Zenon DEF SpOK, CpuOK, Entering, Editing, Making, OnlyRiscv, OnlyLoong
    <2>3. /\ \A s \in Roots : Holds(c, s) => Holds(c, s)'
          /\ \A s \in Roots : Edits(c, s) => Edits(c, s)'
          /\ tc'[c].at \in Making => tc[c].at \in Making /\ tc'[c].sp = tc[c].sp
      BY <1>1, <1>3, Zenon DEF Holds, Edits, Entering, Editing, Making, OnlyRiscv, OnlyLoong
    <2>4. tlb' \in [TCpus -> SUBSET TlbRec] BY <1>0, <1>1, Zenon DEF ControlOK, TlbRec
    <2> QED BY <1>0, <1>1, <1>4, <2>1, <2>2, <2>3, <2>4, ControlKept, Zenon DEF ControlOK
  <1>5. SameOwners /\ SameSpaces /\ (\A d \in TCpus : tlb'[d] \subseteq tlb[d])
    BY <1>0, <1>1, Zenon DEF SameSpaces, SameOwners, ControlOK
  <1>c. AsidsOK'
    BY <1>1, <1>3, <1>5, AsidsKept, Zenon
  <1>d. EntriesOK'
    BY <1>1, <1>3, <1>4, <1>5, EntriesKept, Zenon
  <1>e. GensOK'
    BY <1>0, <1>1, <1>3, <1>4, GensKept DEF ControlOK
  <1>f. OldIsNews'
    <2>1. \A d \in TCpus \ {c}, r \in Roots : UntoldBy(c, d, r) => UntoldBy(c, d, r)'
      BY <1>1, <1>3, Zenon DEF UntoldBy
    <2> QED BY <1>1, <1>3, <1>4, <1>5, <2>1, OldKept, Zenon
  <1>g. InsideOK'
    <2>1. \A d \in TCpus \ {c} : \A s \in Roots :
             tlb'[d] # {} /\ tc[d].satp = s /\ UnflushedBy(c, d, s) => UnflushedBy(c, d, s)'
      <3>1. \A d \in TCpus : tlb'[d] # {} => d \notin tc[c].todo BY <1>1, Zenon
      <3>2. riscv BY <1>0, <1>1, Zenon DEF CpuOK, OnlyRiscv
      <3> QED BY <1>1, <3>1, <3>2, Zenon DEF UnflushedBy
    <2> QED BY <1>1, <1>3, <1>4, <1>5, <2>1, InsideKept, Zenon
  <1>h. ChangeOK'
    BY <1>1, <1>3, <1>4, <1>5, ChangeKept, Zenon
  <1>i. TargetsOK'
    <2>1. TargetsBy(c)' BY <1>1, <1>3 DEF TargetsBy
    <2> QED BY <1>1, <1>3, <1>4, <2>1, TargetsKept, Zenon
  <1> QED BY <1>a, <1>b, <1>c, <1>d, <1>e, <1>f, <1>g, <1>h, <1>i DEF TlbInv

LEMMA RecycleInv ==
  ASSUME TlbInv, NEW c \in TCpus, Recycle(c)
  PROVE  TlbInv'
  <1>0. /\ TlbTypeOK /\ ControlOK /\ AsidsOK /\ EntriesOK /\ GensOK
        /\ OldIsNews /\ InsideOK /\ ChangeOK /\ TargetsOK /\ CpuOK(c) /\ SpOK(c)
        /\ tc \in [TCpus -> CpuRec] /\ sps \in [Roots -> SpRec] /\ pool \in PoolRec
    BY Types DEF TlbInv, ControlOK
  <1>1. /\ Cpu(c, [tc[c] EXCEPT !.at = "reuse"])
        /\ tc[c].at = "recycle" /\ tlb' = (IF riscv THEN [d \in TCpus |-> {}] ELSE tlb)
        /\ UNCHANGED <<riscv, sps, pool, gen, shoot>>
    BY <1>0, Zenon DEF Recycle, FlushAll
  <1>2. [tc[c] EXCEPT !.at = "reuse"] \in CpuRec
    <2>1. tc[c] \in CpuRec /\ gen \in Nat BY <1>0 DEF ControlOK
    <2>2. gen + 1 \in Nat BY <2>1
    <2> QED BY <2>1, <2>2, Zenon DEF CpuRec
  <1>3. /\ tc' \in [TCpus -> CpuRec] /\ \A d \in TCpus \ {c} : tc'[d] = tc[d]
        /\ tc'[c].at = "reuse" /\ tc'[c].satp = tc[c].satp /\ tc'[c].active = tc[c].active
        /\ tc'[c].req = tc[c].req /\ tc'[c].ack = tc[c].ack /\ tc'[c].ipi = tc[c].ipi
        /\ tc'[c].sp = tc[c].sp /\ tc'[c].mine = tc[c].mine /\ tc'[c].todo = tc[c].todo
        /\ tc'[c].back = tc[c].back /\ tc'[c].taken = tc[c].taken
    <2>1. /\ tc' \in [TCpus -> CpuRec] /\ \A d \in TCpus \ {c} : tc'[d] = tc[d]
          /\ tc'[c] = [tc[c] EXCEPT !.at = "reuse"]
      BY <1>0, <1>1, <1>2, CpuSet, Zenon
    <2>2. tc[c] \in CpuRec BY <1>0
    <2> QED BY <2>1, <2>2, Zenon DEF CpuRec
  <1>4. Moves(c) BY <1>3, Zenon DEF Moves
  <1>a. TlbTypeOK'
    BY <1>0, <1>1, <1>3, TypesNext, Zenon
  <1>b. ControlOK'
    <2>1. CpuOK(c)' BY <1>0, <1>1, <1>3, Zenon DEF CpuOK, Entering, Editing, Making, OnlyRiscv, OnlyLoong
    <2>2. SpOK(c)' BY <1>0, <1>1, <1>3, Zenon DEF SpOK, CpuOK, Entering, Editing, Making, OnlyRiscv, OnlyLoong
    <2>3. /\ \A s \in Roots : Holds(c, s) => Holds(c, s)'
          /\ \A s \in Roots : Edits(c, s) => Edits(c, s)'
          /\ tc'[c].at \in Making => tc[c].at \in Making /\ tc'[c].sp = tc[c].sp
      BY <1>1, <1>3, Zenon DEF Holds, Edits, Entering, Editing, Making, OnlyRiscv, OnlyLoong
    <2>4. tlb' \in [TCpus -> SUBSET TlbRec] BY <1>0, <1>1, Zenon DEF ControlOK, TlbRec
    <2> QED BY <1>0, <1>1, <1>4, <2>1, <2>2, <2>3, <2>4, ControlKept, Zenon DEF ControlOK
  <1>5. SameOwners /\ SameSpaces /\ (\A d \in TCpus : tlb'[d] \subseteq tlb[d])
    BY <1>0, <1>1, Zenon DEF SameSpaces, SameOwners, ControlOK
  <1>c. AsidsOK'
    BY <1>1, <1>3, <1>5, AsidsKept, Zenon
  <1>d. EntriesOK'
    <2>1. CASE riscv BY <1>1, <2>1, Zenon DEF EntriesOK
    <2>2. CASE ~riscv
      <3>1. \A d \in TCpus : tc'[d].satp = tc[d].satp BY <1>3, Zenon
      <3> QED BY <1>0, <1>1, <2>2, <3>1, Zenon DEF EntriesOK
    <2> QED BY <2>1, <2>2, Zenon
  <1>e. GensOK'
    BY <1>0, <1>1, <1>3, <1>4, GensKept DEF ControlOK
  <1>f. OldIsNews'
    <2>1. \A d \in TCpus \ {c}, r \in Roots : UntoldBy(c, d, r) => UntoldBy(c, d, r)'
      BY <1>1, <1>3, Zenon DEF UntoldBy
    <2> QED BY <1>1, <1>3, <1>4, <1>5, <2>1, OldKept, Zenon
  <1>g. InsideOK'
    <2>1. \A d \in TCpus \ {c} : \A r \in Roots :
             tc[d].satp = r /\ UnflushedBy(c, d, r) => UnflushedBy(c, d, r)'
      BY <1>1, <1>3, Zenon DEF UnflushedBy, Edits, Editing
    <2> QED BY <1>1, <1>3, <1>4, <1>5, <2>1, InsideKept, Zenon
  <1>h. ChangeOK'
    BY <1>1, <1>3, <1>4, <1>5, ChangeKept, Zenon
  <1>i. TargetsOK'
    <2>1. TargetsBy(c)' BY <1>1, <1>3, Zenon DEF TargetsBy
    <2> QED BY <1>1, <1>3, <1>4, <2>1, TargetsKept, Zenon
  <1> QED BY <1>a, <1>b, <1>c, <1>d, <1>e, <1>f, <1>g, <1>h, <1>i DEF TlbInv

LEMMA EditInv ==
  ASSUME TlbInv, NEW c \in TCpus, NEW s \in Roots, NEW nxt \in {"generation", "sample"}, riscv <=> nxt = "generation",
         tc[c].at = "kernel" \/ (tc[c].at = "trap" /\ s = tc[c].active),
         sps[s].live, sps[s].lock = NoRoot, NEW v \in 0..MaxVer, v = sps[s].ver + 1,
         Sp(s, [sps[s] EXCEPT !.lock = c, !.ver = v]), tlb' = [tlb EXCEPT ![c] = {}],
         Cpu(c, [tc[c] EXCEPT !.at = nxt, !.back = tc[c].at, !.sp = s, !.todo = TCpus \ {c}]),
         UNCHANGED <<riscv, pool, gen, shoot>>
  PROVE  TlbInv'
  <1>0. /\ TlbTypeOK /\ ControlOK /\ AsidsOK /\ EntriesOK /\ GensOK
        /\ OldIsNews /\ InsideOK /\ ChangeOK /\ TargetsOK /\ CpuOK(c) /\ SpOK(c)
        /\ tc \in [TCpus -> CpuRec] /\ sps \in [Roots -> SpRec] /\ pool \in PoolRec
    BY Types, Zenon DEF TlbInv, ControlOK
  <1>1. /\ Cpu(c, [tc[c] EXCEPT !.at = nxt, !.back = tc[c].at, !.sp = s, !.todo = TCpus \ {c}])
        /\ tc[c].at \in {"kernel", "trap"}
        /\ Sp(s, [sps[s] EXCEPT !.lock = c, !.ver = v]) /\ tlb' = [tlb EXCEPT ![c] = {}]
        /\ UNCHANGED <<riscv, pool, gen, shoot>>
    BY <1>0, Zenon
  <1>2. [tc[c] EXCEPT !.at = nxt, !.back = tc[c].at, !.sp = s, !.todo = TCpus \ {c}] \in CpuRec
    <2>1. tc[c] \in CpuRec /\ gen \in Nat BY <1>0, Zenon DEF ControlOK
    <2>2. gen + 1 \in Nat BY <2>1
    <2> QED BY <2>1, <2>2, ZenonT(30) DEF CpuRec
  <1>3. /\ tc' \in [TCpus -> CpuRec] /\ \A d \in TCpus \ {c} : tc'[d] = tc[d]
        /\ tc'[c].at = nxt /\ tc'[c].satp = tc[c].satp /\ tc'[c].active = tc[c].active
        /\ tc'[c].req = tc[c].req /\ tc'[c].ack = tc[c].ack /\ tc'[c].ipi = tc[c].ipi
        /\ tc'[c].sp = s /\ tc'[c].mine = tc[c].mine /\ tc'[c].todo = TCpus \ {c}
        /\ tc'[c].back = tc[c].at /\ tc'[c].taken = tc[c].taken
    <2>1. /\ tc' \in [TCpus -> CpuRec] /\ \A d \in TCpus \ {c} : tc'[d] = tc[d]
          /\ tc'[c] = [tc[c] EXCEPT !.at = nxt, !.back = tc[c].at, !.sp = s, !.todo = TCpus \ {c}]
      BY <1>0, <1>1, <1>2, CpuSet, Zenon
    <2>2. tc[c] \in CpuRec BY <1>0, Zenon
    <2> QED BY <2>1, <2>2 DEF CpuRec
  <1>4. Moves(c) BY <1>3, Zenon DEF Moves
  <1>8. /\ sps' \in [Roots -> SpRec] /\ \A r \in Roots \ {s} : sps'[r] = sps[r]
        /\ sps'[s].live = sps[s].live /\ sps'[s].asid = sps[s].asid /\ sps'[s].ver = v
        /\ sps'[s].done = sps[s].done /\ sps'[s].lock = c
    <2>1. sps[s] \in SpRec BY <1>0, Zenon
    <2>2. [sps[s] EXCEPT !.lock = c, !.ver = v] \in SpRec BY <2>1, Zenon DEF SpRec
    <2>3. /\ sps' \in [Roots -> SpRec] /\ \A r \in Roots \ {s} : sps'[r] = sps[r]
          /\ sps'[s] = [sps[s] EXCEPT !.lock = c, !.ver = v]
      BY <1>0, <1>1, <2>2, SpSet, Zenon
    <2>4. sps'[s].live = sps[s].live BY <2>1, <2>3, Zenon DEF SpRec
    <2>5. /\ sps'[s].asid = sps[s].asid /\ sps'[s].ver = v
          /\ sps'[s].done = sps[s].done /\ sps'[s].lock = c
      BY <2>1, <2>3 DEF SpRec
    <2> QED BY <2>3, <2>4, <2>5, Zenon
  <1>6. /\ \A d \in TCpus : ~Holds(d, s)
        /\ sps[s].done = sps[s].ver /\ sps[s].done < sps'[s].ver
    <2>1. \A d \in TCpus : ~Holds(d, s) BY NobodyHolds, Zenon
    <2>2. \A d \in TCpus : ~Edits(d, s) BY <2>1, Zenon DEF Holds, Edits
    <2>3. sps[s].done = sps[s].ver BY <1>0, <2>2, Zenon DEF ControlOK, DoneOK
    <2>4. sps[s].ver \in Nat BY VersionKnown, Zenon
    <2> QED BY <1>8, <2>1, <2>3, <2>4
  <1>7. /\ \A d \in TCpus : tlb'[d] \subseteq tlb[d]
        /\ tlb'[c] = {} /\ tlb' \in [TCpus -> SUBSET TlbRec]
    BY <1>0, <1>1, Zenon DEF ControlOK, TlbRec
  <1>a. TlbTypeOK'
    BY <1>0, <1>1, <1>3, <1>8, TypesNext, Zenon
  <1>b. ControlOK'
    <2>1. CpuOK(c)' BY <1>0, <1>1, <1>3 DEF CpuOK, Entering, Editing, Making, OnlyRiscv, OnlyLoong
    <2>2. SpOK(c)' BY <1>3, <1>6, <1>8, Zenon DEF SpOK, Entering, Editing, Making
    <2>3. ASSUME NEW d \in TCpus, d # c PROVE CpuOK(d)' /\ SpOK(d)'
      <3>1. tc'[d] = tc[d] /\ riscv' = riscv /\ CpuOK(d) /\ SpOK(d) /\ ~Holds(d, s)
        BY <1>0, <1>1, <1>3, <1>6, <2>3, Zenon DEF ControlOK
      <3>2. CpuOK(d)' BY <3>1 DEF CpuOK
      <3>3. CASE tc[d].sp = s
        <4>1. tc[d].at \notin Entering \cup Editing \cup Making BY <3>1, <3>3, Zenon DEF Holds, SpOK
        <4> QED BY <1>8, <3>1, <3>2, <3>3, <4>1, Zenon DEF SpOK
      <3>4. CASE tc[d].sp # s
        BY <1>8, <3>1, <3>2, <3>4 DEF SpOK, CpuOK, Editing, Entering, Making
      <3> QED BY <3>3, <3>4, Zenon
    <2>4. LocksOK'
      <3>1. ASSUME NEW r \in Roots, r # s, NEW d, d = sps[r].lock, d # NoRoot PROVE Holds(d, r)'
        <4>1. d \in TCpus BY <1>0, <3>1, Zenon DEF SpRec
        <4>2. Holds(d, r) BY <1>0, <3>1, Zenon DEF ControlOK, LocksOK
        <4>3. d # c BY <1>1, <4>2, Zenon DEF Holds, Entering, Editing
        <4> QED BY <1>3, <4>1, <4>2, <4>3, Zenon DEF Holds
      <3>2. Holds(c, s)' BY <1>3, Zenon DEF Holds, Editing
      <3>3. ASSUME NEW r \in Roots, NEW d, d = sps'[r].lock, d # NoRoot PROVE Holds(d, r)'
        BY <1>8, <3>1, <3>2, <3>3, Zenon
      <3> QED BY <3>3, Zenon DEF LocksOK
    <2>5. MakersApart' BY <1>0, <1>3 DEF ControlOK, MakersApart, Making
    <2>6. DoneOK'
      <3>1. Edits(c, s)' BY <1>3, Zenon DEF Edits, Editing
      <3>2. \A k \in TCpus, r \in Roots \ {s} : Edits(k, r) => Edits(k, r)'
        BY <1>1, <1>3, Zenon DEF Edits, Editing
      <3>3. ASSUME NEW r \in Roots, sps'[r].live, \A k \in TCpus : ~Edits(k, r)'
            PROVE  sps'[r].done = sps'[r].ver
        BY <1>0, <1>8, <3>1, <3>2, <3>3 DEF ControlOK, DoneOK
      <3> QED BY <3>3, Zenon DEF DoneOK
    <2>7. \A d \in TCpus : CpuOK(d)' /\ SpOK(d)' BY <2>1, <2>2, <2>3, Zenon
    <2> QED BY <1>0, <1>1, <1>7, <2>4, <2>5, <2>6, <2>7, Zenon DEF ControlOK, TlbRec
  <1>5. SameOwners /\ (\A d \in TCpus : tlb'[d] \subseteq tlb[d])
    BY <1>7, <1>8, Zenon DEF SameOwners
  <1>c. AsidsOK'
    BY <1>1, <1>3, <1>5, AsidsKept, Zenon
  <1>d. EntriesOK'
    BY <1>1, <1>3, <1>4, <1>5, <1>7, EntriesKept, Zenon
  <1>e. GensOK'
    BY <1>0, <1>1, <1>3, <1>4, GensKept DEF ControlOK
  <1>f. OldIsNews'
    <2> SUFFICES ASSUME riscv, NEW d \in TCpus, NEW r \in Roots, NEW e \in tlb'[d], Old(e, r)'
                 PROVE  tc'[d].req # tc'[d].ack \/ Untold(d, r)'
      BY <1>1, Zenon DEF OldIsNews
    <2>1. d # c /\ tc'[d] = tc[d] /\ e \in tlb[d] BY <1>3, <1>7, Zenon
    <2>2. CASE r = s
      <3>1. UntoldBy(c, d, s)' BY <1>3, Zenon DEF UntoldBy
      <3> QED BY <2>1, <2>2, <3>1, Zenon DEF Untold
    <2>3. CASE r # s
      <3>1. Old(e, r) BY <1>8, <2>3, Zenon DEF Old
      <3>2. tc[d].req # tc[d].ack \/ Untold(d, r) BY <1>0, <2>1, <3>1, Zenon DEF OldIsNews
      <3>3. \A k \in TCpus : UntoldBy(k, d, r) => UntoldBy(k, d, r)' BY <1>1, <1>3, Zenon DEF UntoldBy
      <3> QED BY <2>1, <3>2, <3>3, Zenon DEF Untold
    <2> QED BY <2>2, <2>3, Zenon
  <1>g. InsideOK'
    <2> SUFFICES ASSUME NEW d \in TCpus, NEW r \in Roots, tc'[d].satp = r, NEW e \in tlb'[d],
                        e.asid = sps'[r].asid
                 PROVE  /\ e.ver >= sps'[r].done
                        /\ e.ver < sps'[r].ver => Unflushed(d, r)'
      BY Zenon DEF InsideOK
    <2>1. d # c /\ tc'[d] = tc[d] /\ e \in tlb[d] BY <1>3, <1>7, Zenon
    <2>2. sps'[r].done = sps[r].done /\ sps'[r].asid = sps[r].asid BY <1>8, Zenon
    <2>3. e.ver >= sps[r].done /\ (e.ver < sps[r].ver => Unflushed(d, r))
      BY <1>0, <2>1, <2>2, Zenon DEF InsideOK
    <2>4. CASE r = s
      <3>1. UnflushedBy(c, d, s)' BY <1>1, <1>3, Zenon DEF UnflushedBy, Edits, Editing
      <3> QED BY <2>1, <2>2, <2>3, <2>4, <3>1, Zenon DEF Unflushed
    <2>5. CASE r # s
      <3>1. \A k \in TCpus \ {c} : UnflushedBy(k, d, r) => UnflushedBy(k, d, r)'
        BY <1>1, <1>3, <2>1, Zenon DEF UnflushedBy, Edits
      <3>2. ~UnflushedBy(c, d, r) BY <1>1, Zenon DEF UnflushedBy, Edits, Editing
      <3> QED BY <1>8, <2>2, <2>3, <2>5, <3>1, <3>2, Zenon DEF Unflushed
    <2> QED BY <2>4, <2>5, Zenon
  <1>h. ChangeOK'
    <2> SUFFICES ASSUME NEW d \in TCpus, NEW r \in Roots, tc'[d].at = "change", tc'[d].sp = r, riscv,
                        NEW e \in tlb'[d]
                 PROVE  ~Old(e, r)'
      BY <1>1, Zenon DEF ChangeOK
    <2>1. d # c /\ tc'[d] = tc[d] /\ e \in tlb[d] BY <1>3, <1>7, Zenon
    <2>2. r # s BY <1>6, <2>1, Zenon DEF Holds, Entering
    <2>3. ~Old(e, r) BY <1>0, <2>1, Zenon DEF ChangeOK
    <2> QED BY <1>8, <2>2, <2>3, Zenon DEF Old
  <1>i. TargetsOK'
    <2>1. TargetsBy(c)' BY <1>1, <1>3, Zenon DEF TargetsBy
    <2> QED BY <1>1, <1>3, <1>4, <2>1, TargetsKept, Zenon
  <1> QED BY <1>a, <1>b, <1>c, <1>d, <1>e, <1>f, <1>g, <1>h, <1>i, Zenon DEF TlbInv

-----------------------------------------------------------------------------
(* ASIDs given out, taken back and used again *)

LEMMA SpBorn ==
  ASSUME sps \in [Roots -> SpRec], NEW s \in Roots, NEW b \in 0..MaxAsid, NEW v \in 0..MaxVer,
         v = sps[s].ver + 1, Born(s, b)
  PROVE  /\ sps' \in [Roots -> SpRec] /\ \A r \in Roots \ {s} : sps'[r] = sps[r]
         /\ sps'[s].live /\ sps'[s].asid = b /\ sps'[s].ver = v /\ sps'[s].done = v
         /\ sps'[s].lock = sps[s].lock
  <1> DEFINE new == [sps[s] EXCEPT !.live = TRUE, !.asid = b, !.ver = v, !.done = v]
  <1>1. sps[s] \in SpRec BY Zenon
  <1>2. new \in SpRec BY <1>1, Zenon DEF SpRec
  <1>3. Sp(s, new) BY Zenon DEF Born
  <1>4. /\ new.live = TRUE /\ new.asid = b /\ new.ver = v /\ new.done = v /\ new.lock = sps[s].lock
    BY <1>1, Zenon DEF SpRec
  <1> HIDE DEF new
  <1>5. /\ sps' \in [Roots -> SpRec] /\ sps'[s] = new /\ \A r \in Roots \ {s} : sps'[r] = sps[r]
    BY <1>2, <1>3, SpSet, Zenon
  <1> QED BY <1>4, <1>5, Zenon

LEMMA NextVersion ==
  ASSUME TlbTypeOK, NEW s \in Roots, sps[s].ver < MaxVer
  PROVE  sps[s].ver + 1 \in 0..MaxVer
  <1>1. sps[s].ver \in 0..MaxVer /\ MaxVer \in Nat BY Types, TlbAssumption, Zenon DEF SpRec
  <1> QED BY <1>1

LEMMA AllocInv ==
  ASSUME TlbInv, NEW c \in TCpus, NEW s \in Roots, tc[c].at = "kernel", ~sps[s].live,
         sps[s].ver < MaxVer, \A d \in TCpus : tc[d].sp # s,
         Born(s, Taken(pool).asid), pool' = Taken(pool).pool, UNCHANGED <<riscv, tc, tlb, gen, shoot>>
  PROVE  TlbInv'
  <1>0. /\ TlbTypeOK /\ AsidsOK /\ CpuOK(c)
        /\ tc \in [TCpus -> CpuRec] /\ sps \in [Roots -> SpRec] /\ pool \in PoolRec
    BY Types, Zenon DEF TlbInv, ControlOK
  <1>1. tc[c].sp = NoRoot /\ tc[c].taken = <<>> BY <1>0, Zenon DEF CpuOK
  <1>2. /\ Once(pool.reusable) /\ \A a \in 1..MaxAsid : In(a, pool.reusable) => a < pool.next
    BY <1>0, Zenon DEF AsidsOK, AsidOK
  <1>3. PICK b : b = Taken(pool).asid BY Zenon
  <1>4. b \in 0..MaxAsid BY <1>0, <1>2, <1>3, TakenFrom, Zenon
  <1>5. PICK v \in 0..MaxVer : v = sps[s].ver + 1 BY <1>0, NextVersion, Zenon
  <1>6. /\ sps' \in [Roots -> SpRec] /\ \A r \in Roots \ {s} : sps'[r] = sps[r]
        /\ sps'[s].live /\ sps'[s].asid = b /\ sps'[s].ver = v /\ sps'[s].done = v
        /\ sps'[s].lock = sps[s].lock
    BY <1>0, <1>3, <1>4, <1>5, SpBorn, Zenon
  <1>7. Unborn(c, s) BY Zenon DEF Unborn
  <1>8. BornCpu(c) BY <1>0, <1>1, Zenon DEF BornCpu
  <1>9. BornPool(c, pool, b) BY <1>1, <1>2, <1>3, InNone, Zenon DEF BornPool
  <1>10. BornSp(s, b, v) BY <1>6, Zenon DEF BornSp
  <1> QED BY <1>0, <1>7, <1>8, <1>9, <1>10, BornInv, Zenon

LEMMA ReuseInv ==
  ASSUME TlbInv, NEW c \in TCpus, Reuse(c)
  PROVE  TlbInv'
  <1>0. /\ TlbTypeOK /\ ControlOK /\ AsidsOK /\ CpuOK(c) /\ SpOK(c)
        /\ tc \in [TCpus -> CpuRec] /\ sps \in [Roots -> SpRec] /\ pool \in PoolRec
    BY Types, Zenon DEF TlbInv, ControlOK
  <1>1. PICK s \in Roots : s = tc[c].sp BY <1>0, Zenon DEF Reuse, CpuOK, Making
  <1> DEFINE p == [pool EXCEPT !.reusable = pool.reusable \o tc[c].taken]
  <1>2. /\ tc[c].at = "reuse" /\ Born(s, Taken(p).asid) /\ pool' = Taken(p).pool
        /\ Cpu(c, [tc[c] EXCEPT !.at = "kernel", !.sp = NoRoot, !.taken = <<>>])
        /\ UNCHANGED <<riscv, tlb, gen, shoot>>
    BY <1>1, Zenon DEF Reuse
  <1>3. ~sps[s].live /\ sps[s].ver < MaxVer BY <1>0, <1>1, <1>2, Zenon DEF SpOK, Making
  <1>4. \A d \in TCpus \ {c} : tc[d].sp # s
    <2> SUFFICES ASSUME NEW d \in TCpus \ {c}, tc[d].sp = s PROVE FALSE BY Zenon
    <2>1. CpuOK(d) /\ SpOK(d) /\ tc[d] \in CpuRec /\ NoRoot \notin Roots
      BY <1>0, TlbAssumption, Zenon DEF ControlOK
    <2>2. tc[d].at \notin Making BY <1>0, <1>1, <1>2, Zenon DEF ControlOK, MakersApart, Making
    <2>3. tc[d].at \notin {"kernel", "ipi"} BY <2>1, Zenon DEF CpuOK
    <2>4. tc[d].at \notin Entering \cup Editing \cup {"user", "trap"} BY <1>3, <2>1, Zenon DEF SpOK
    <2> QED BY <2>1, <2>2, <2>3, <2>4, Zenon DEF CpuRec, Entering, Editing, Making
  <1>5. /\ tc' \in [TCpus -> CpuRec] /\ \A d \in TCpus \ {c} : tc'[d] = tc[d]
        /\ tc'[c].at = "kernel" /\ tc'[c].sp = NoRoot /\ tc'[c].taken = <<>>
        /\ tc'[c].satp = tc[c].satp /\ tc'[c].active = tc[c].active /\ tc'[c].req = tc[c].req
        /\ tc'[c].ack = tc[c].ack /\ tc'[c].ipi = tc[c].ipi /\ tc'[c].mine = tc[c].mine
    <2>1. tc[c] \in CpuRec BY <1>0, Zenon
    <2>4. <<>> \in Seq(1..MaxAsid) OBVIOUS
    <2>2. [tc[c] EXCEPT !.at = "kernel", !.sp = NoRoot, !.taken = <<>>] \in CpuRec BY <2>1, <2>4, Zenon DEF CpuRec
    <2>3. /\ tc' \in [TCpus -> CpuRec] /\ \A d \in TCpus \ {c} : tc'[d] = tc[d]
          /\ tc'[c] = [tc[c] EXCEPT !.at = "kernel", !.sp = NoRoot, !.taken = <<>>]
      BY <1>0, <1>2, <2>2, CpuSet, Zenon
    <2> QED BY <2>1, <2>3 DEF CpuRec
  <1>6. /\ pool.reusable \in Seq(1..MaxAsid) /\ tc[c].taken \in Seq(1..MaxAsid)
        /\ Once(pool.reusable) /\ Once(tc[c].taken)
    BY <1>0, Zenon DEF PoolRec, CpuRec, AsidsOK, AsidOK
  <1>7. \A a : In(a, pool.reusable) => a \in 1..MaxAsid
    BY <1>6, Members, Zenon
  <1>8. \A a : In(a, pool.reusable) => ~In(a, tc[c].taken) BY <1>0, <1>7, Zenon DEF AsidsOK, AsidOK
  <1>9. /\ pool.reusable \o tc[c].taken \in Seq(1..MaxAsid) /\ Once(pool.reusable \o tc[c].taken)
        /\ \A a : In(a, pool.reusable \o tc[c].taken) <=> In(a, pool.reusable) \/ In(a, tc[c].taken)
    <2>1. pool.reusable \o tc[c].taken \in Seq(1..MaxAsid) BY <1>6
    <2> QED BY <1>6, <1>8, <2>1, InConcat, Zenon
  <1>10. /\ p \in PoolRec /\ p.next = pool.next /\ p.retired = pool.retired
         /\ p.reusable = pool.reusable \o tc[c].taken
    BY <1>0, <1>9, Zenon DEF PoolRec
  <1> HIDE DEF p
  <1>11. \A a \in 1..MaxAsid : In(a, p.reusable) => a < p.next BY <1>0, <1>9, <1>10, Zenon DEF AsidsOK, AsidOK
  <1>12. PICK b : b = Taken(p).asid BY Zenon
  <1>13. b \in 0..MaxAsid BY <1>9, <1>10, <1>11, <1>12, TakenFrom, ZenonT(30)
  <1>14. PICK v \in 0..MaxVer : v = sps[s].ver + 1 BY <1>0, <1>3, NextVersion, Zenon
  <1>15. /\ sps' \in [Roots -> SpRec] /\ \A r \in Roots \ {s} : sps'[r] = sps[r]
         /\ sps'[s].live /\ sps'[s].asid = b /\ sps'[s].ver = v /\ sps'[s].done = v
         /\ sps'[s].lock = sps[s].lock
    BY <1>0, <1>2, <1>12, <1>13, <1>14, SpBorn
  <1>16. Unborn(c, s) BY <1>2, <1>3, <1>4, Zenon DEF Unborn
  <1>17. BornCpu(c) BY <1>2, <1>5, Zenon DEF BornCpu
  <1>18. BornPool(c, p, b) BY <1>2, <1>9, <1>10, <1>12, Zenon DEF BornPool
  <1>19. BornSp(s, b, v) BY <1>15, Zenon DEF BornSp
  <1> QED BY <1>10, <1>16, <1>17, <1>18, <1>19, BornInv, Zenon

LEMMA TakeRetiredInv ==
  ASSUME TlbInv, NEW c \in TCpus, NEW s \in Roots, tc[c].at = "kernel", ~sps[s].live, sps[s].ver < MaxVer,
         \A d \in TCpus : tc[d].sp # s, pool' = [pool EXCEPT !.retired = <<>>],
         Cpu(c, [tc[c] EXCEPT !.at = "recycle", !.sp = s, !.taken = pool.retired]),
         UNCHANGED <<riscv, tlb, sps, gen, shoot>>
  PROVE  TlbInv'
  <1>0. /\ TlbTypeOK /\ ControlOK /\ AsidsOK /\ EntriesOK /\ GensOK
        /\ OldIsNews /\ InsideOK /\ ChangeOK /\ TargetsOK /\ CpuOK(c) /\ SpOK(c)
        /\ tc \in [TCpus -> CpuRec] /\ sps \in [Roots -> SpRec] /\ pool \in PoolRec
    BY Types, Zenon DEF TlbInv, ControlOK
  <1>1. /\ Cpu(c, [tc[c] EXCEPT !.at = "recycle", !.sp = s, !.taken = pool.retired])
        /\ UNCHANGED <<riscv, tlb, sps, gen, shoot>> /\ pool.retired \in Seq(1..MaxAsid)
    BY <1>0, Zenon DEF PoolRec
  <1>2. [tc[c] EXCEPT !.at = "recycle", !.sp = s, !.taken = pool.retired] \in CpuRec
    <2>1. tc[c] \in CpuRec /\ gen \in Nat BY <1>0, Zenon DEF ControlOK
    <2>2. gen + 1 \in Nat BY <2>1
    <2> QED BY <2>1, <2>2, <1>1, Zenon DEF CpuRec
  <1>3. /\ tc' \in [TCpus -> CpuRec] /\ \A d \in TCpus \ {c} : tc'[d] = tc[d]
        /\ tc'[c].at = "recycle" /\ tc'[c].satp = tc[c].satp /\ tc'[c].active = tc[c].active
        /\ tc'[c].req = tc[c].req /\ tc'[c].ack = tc[c].ack /\ tc'[c].ipi = tc[c].ipi
        /\ tc'[c].sp = s /\ tc'[c].mine = tc[c].mine /\ tc'[c].todo = tc[c].todo
        /\ tc'[c].back = tc[c].back /\ tc'[c].taken = pool.retired
    <2>1. /\ tc' \in [TCpus -> CpuRec] /\ \A d \in TCpus \ {c} : tc'[d] = tc[d]
          /\ tc'[c] = [tc[c] EXCEPT !.at = "recycle", !.sp = s, !.taken = pool.retired]
      BY <1>0, <1>1, <1>2, CpuSet, Zenon
    <2>2. tc[c] \in CpuRec BY <1>0, Zenon
    <2> QED BY <2>1, <2>2, <1>1, Zenon DEF CpuRec
  <1>4. Moves(c) BY <1>3, Zenon DEF Moves
  <1>6. /\ pool' \in PoolRec /\ pool'.next = pool.next /\ pool'.reusable = pool.reusable
        /\ pool'.retired = <<>> /\ tc[c].taken = <<>>
    <2>1. <<>> \in Seq(1..MaxAsid) OBVIOUS
    <2>2. pool' \in PoolRec BY <1>0, <2>1, Zenon DEF PoolRec
    <2>3. pool'.next = pool.next /\ pool'.reusable = pool.reusable /\ pool'.retired = <<>>
      BY <1>0, Zenon DEF PoolRec
    <2> QED BY <1>0, <2>2, <2>3, Zenon DEF CpuOK
  <1>a. TlbTypeOK'
    BY <1>0, <1>1, <1>3, <1>6, TypesNext, Zenon
  <1>b. ControlOK'
    <2>1. CpuOK(c)' BY <1>0, <1>1, <1>3 DEF CpuOK, Entering, Editing, Making, OnlyRiscv, OnlyLoong
    <2>2. SpOK(c)' BY <1>1, <1>3, Zenon DEF SpOK, Entering, Editing, Making
    <2>3. ASSUME NEW d \in TCpus, d # c PROVE CpuOK(d)' /\ SpOK(d)'
      <3>1. tc'[d] = tc[d] /\ riscv' = riscv /\ sps' = sps /\ CpuOK(d) /\ SpOK(d)
        BY <1>0, <1>1, <1>3, <2>3, Zenon DEF ControlOK
      <3> QED BY <3>1 DEF CpuOK, SpOK
    <2>4. \A d \in TCpus, r \in Roots : Holds(d, r) => Holds(d, r)'
      BY <1>3, Zenon DEF Holds, Entering, Editing
    <2>5. LocksOK'
      <3>1. ASSUME NEW r \in Roots, NEW d, d = sps[r].lock, d # NoRoot PROVE Holds(d, r)'
        <4>1. d \in TCpus BY <1>0, <3>1, Zenon DEF SpRec
        <4> QED BY <1>0, <2>4, <3>1, <4>1, Zenon DEF ControlOK, LocksOK
      <3> QED BY <1>1, <3>1, Zenon DEF LocksOK
    <2>6. MakersApart' BY <1>0, <1>3 DEF ControlOK, MakersApart, Making
    <2>7. DoneOK'
      <3>1. \A k \in TCpus, r \in Roots : Edits(k, r) => Edits(k, r)' BY <1>3, Zenon DEF Edits, Editing
      <3> QED BY <1>0, <1>1, <3>1, Zenon DEF ControlOK, DoneOK
    <2>8. \A d \in TCpus : CpuOK(d)' /\ SpOK(d)' BY <2>1, <2>2, <2>3, Zenon
    <2> QED BY <1>0, <1>1, <2>5, <2>6, <2>7, <2>8, Zenon DEF ControlOK
  <1>5. SameOwners /\ SameSpaces /\ (\A d \in TCpus : tlb'[d] \subseteq tlb[d])
    BY <1>0, <1>1, Zenon DEF SameSpaces, SameOwners, ControlOK
  <1>c. AsidsOK'
    <2>1. Once(pool'.reusable) /\ Once(pool'.retired) /\ \A d \in TCpus : Once(tc'[d].taken)
      <3>1. Once(<<>>) BY DEF Once
      <3> QED BY <1>0, <1>3, <1>6, <3>1, Zenon DEF AsidsOK, AsidOK
    <2>2. \A r \in Roots : \A a : Owns(r, a)' <=> Owns(r, a) BY <1>1, Zenon DEF Owns
    <2>3. \A a : ~In(a, pool'.retired) /\ ~In(a, tc[c].taken) BY <1>6, InNone, Zenon
    <2>4. \A a \in 1..MaxAsid, d \in TCpus :
            In(a, tc'[d].taken) <=> (d = c /\ In(a, pool.retired)) \/ (d # c /\ In(a, tc[d].taken))
      BY <1>3, Zenon
    <2> SUFFICES ASSUME NEW a \in 1..MaxAsid
                 PROVE  /\ In(a, pool.reusable) \/ In(a, pool'.retired) \/ (\E d \in TCpus : In(a, tc'[d].taken))
                             \/ (\E r \in Roots : Owns(r, a)) => a < pool.next
                        /\ In(a, pool.reusable) => ~In(a, pool'.retired)
                        /\ In(a, pool.reusable) \/ In(a, pool'.retired) =>
                             /\ \A d \in TCpus : ~In(a, tc'[d].taken)
                             /\ \A r \in Roots : ~Owns(r, a)
                        /\ \A d \in TCpus : In(a, tc'[d].taken) =>
                             /\ \A x \in TCpus \ {d} : ~In(a, tc'[x].taken)
                             /\ \A r \in Roots : ~Owns(r, a)
                        /\ \A r, x \in Roots : Owns(r, a) /\ Owns(x, a) => r = x
      BY <1>6, <2>1, <2>2, Zenon DEF AsidsOK, AsidOK
    <2>5. /\ In(a, pool.reusable) \/ In(a, pool.retired) \/ (\E d \in TCpus : In(a, tc[d].taken))
               \/ (\E r \in Roots : Owns(r, a)) => a < pool.next
          /\ In(a, pool.reusable) => ~In(a, pool.retired)
          /\ In(a, pool.reusable) \/ In(a, pool.retired) =>
               /\ \A d \in TCpus : ~In(a, tc[d].taken)
               /\ \A r \in Roots : ~Owns(r, a)
          /\ \A d \in TCpus : In(a, tc[d].taken) =>
               /\ \A x \in TCpus \ {d} : ~In(a, tc[x].taken)
               /\ \A r \in Roots : ~Owns(r, a)
          /\ \A r, x \in Roots : Owns(r, a) /\ Owns(x, a) => r = x
      BY <1>0, Zenon DEF AsidsOK, AsidOK
    <2> QED BY <2>3, <2>4, <2>5, Zenon
  <1>d. EntriesOK'
    <2>1. \A d \in TCpus : tc'[d].satp = tc[d].satp /\ (tc'[d].at = "reuse" => tc'[d] = tc[d]) BY <1>3, Zenon
    <2> QED BY <1>0, <1>1, <1>6, <2>1 DEF EntriesOK, Owns
  <1>e. GensOK'
    BY <1>0, <1>1, <1>3, <1>4, GensKept DEF ControlOK
  <1>f. OldIsNews'
    <2>1. \A d \in TCpus \ {c}, r \in Roots : UntoldBy(c, d, r) => UntoldBy(c, d, r)'
      BY <1>1, <1>3, Zenon DEF UntoldBy
    <2> QED BY <1>1, <1>3, <1>4, <1>5, <2>1, OldKept, Zenon
  <1>g. InsideOK'
    <2>1. \A d \in TCpus \ {c} : \A r \in Roots :
             tc[d].satp = r /\ UnflushedBy(c, d, r) => UnflushedBy(c, d, r)'
      BY <1>1, <1>3, Zenon DEF UnflushedBy, Edits, Editing
    <2> QED BY <1>1, <1>3, <1>4, <1>5, <2>1, InsideKept, Zenon
  <1>h. ChangeOK'
    BY <1>1, <1>3, <1>4, <1>5, ChangeKept, Zenon
  <1>i. TargetsOK'
    <2>1. TargetsBy(c)' BY <1>1, <1>3 DEF TargetsBy
    <2> QED BY <1>1, <1>3, <1>4, <2>1, TargetsKept, Zenon
  <1> QED BY <1>a, <1>b, <1>c, <1>d, <1>e, <1>f, <1>g, <1>h, <1>i, Zenon DEF TlbInv

LEMMA RetireInv ==
  ASSUME TlbInv, NEW s \in Roots, Retire(s)
  PROVE  TlbInv'
  <1>0. /\ TlbTypeOK /\ ControlOK /\ AsidsOK /\ EntriesOK /\ GensOK
        /\ OldIsNews /\ InsideOK /\ ChangeOK /\ TargetsOK
        /\ tc \in [TCpus -> CpuRec] /\ sps \in [Roots -> SpRec] /\ pool \in PoolRec
    BY Types, Zenon DEF TlbInv
  <1> DEFINE b == sps[s].asid
  <1>1. /\ sps[s].live /\ sps[s].lock = NoRoot /\ \A c \in TCpus : tc[c].satp # s /\ tc[c].sp # s
        /\ Sp(s, [sps[s] EXCEPT !.live = FALSE])
        /\ pool' = IF b = 0 THEN pool ELSE [pool EXCEPT !.retired = Append(pool.retired, b)]
        /\ UNCHANGED <<riscv, tc, tlb, gen, shoot>>
    BY Zenon DEF Retire
  <1>2. /\ sps' \in [Roots -> SpRec] /\ \A r \in Roots \ {s} : sps'[r] = sps[r]
        /\ ~sps'[s].live /\ sps'[s].lock = NoRoot
    <2>1. sps[s] \in SpRec BY <1>0, Zenon
    <2>2. [sps[s] EXCEPT !.live = FALSE] \in SpRec BY <2>1, Zenon DEF SpRec
    <2>3. /\ sps' \in [Roots -> SpRec] /\ \A r \in Roots \ {s} : sps'[r] = sps[r]
          /\ sps'[s] = [sps[s] EXCEPT !.live = FALSE]
      BY <1>0, <1>1, <2>2, SpSet, Zenon
    <2>4. sps'[s].live = FALSE /\ sps'[s].lock = sps[s].lock BY <2>1, <2>3, Zenon DEF SpRec
    <2> QED BY <1>1, <2>3, <2>4, Zenon
  <1>3. /\ b \in 0..MaxAsid /\ (b # 0 => b \in 1..MaxAsid)
        /\ pool.retired \in Seq(1..MaxAsid) /\ Owns(s, b)
    BY <1>0, <1>1, TlbAssumption DEF SpRec, PoolRec, Owns
  <1> HIDE DEF b
  <1>4. /\ pool' \in PoolRec /\ pool'.next = pool.next /\ pool'.reusable = pool.reusable
        /\ pool'.retired = IF b = 0 THEN pool.retired ELSE Append(pool.retired, b)
    <2>1. CASE b = 0 BY <1>0, <1>1, <2>1, Zenon
    <2>2. CASE b # 0
      <3>1. Append(pool.retired, b) \in Seq(1..MaxAsid) BY <1>3, <2>2
      <3>2. pool' = [pool EXCEPT !.retired = Append(pool.retired, b)] BY <1>1, <2>2, Zenon
      <3> QED BY <1>0, <2>2, <3>1, <3>2, Zenon DEF PoolRec
    <2> QED BY <2>1, <2>2, Zenon
  <1>5. /\ \A a \in 1..MaxAsid : In(a, pool'.retired) <=> In(a, pool.retired) \/ a = b
        /\ Once(pool'.retired)
    <2>1. CASE b = 0 BY <1>0, <1>4, <2>1 DEF AsidsOK, AsidOK
    <2>2. CASE b # 0
      <3>1. Once(pool.retired) /\ ~In(b, pool.retired) BY <1>0, <1>3, <2>2, Zenon DEF AsidsOK, AsidOK
      <3>2. b \in 1..MaxAsid /\ pool'.retired = Append(pool.retired, b) BY <1>3, <1>4, <2>2, Zenon
      <3> QED BY <1>3, <3>1, <3>2, InAppend, Zenon
    <2> QED BY <2>1, <2>2, Zenon
  <1>6. \A r \in Roots : \A a : Owns(r, a)' <=> r # s /\ Owns(r, a) BY <1>2, Zenon DEF Owns
  <1>a. TlbTypeOK' BY <1>0, <1>1, <1>2, <1>4, TypesNext, Zenon
  <1>b. ControlOK'
    <2>1. ASSUME NEW d \in TCpus PROVE CpuOK(d)' /\ SpOK(d)'
      <3>1. tc' = tc /\ riscv' = riscv /\ CpuOK(d) /\ SpOK(d) /\ tc[d].sp # s
        BY <1>0, <1>1, Zenon DEF ControlOK
      <3>2. CpuOK(d)' BY <3>1, Zenon DEF CpuOK
      <3>3. SpOK(d)' BY <1>2, <3>1, Zenon DEF SpOK, CpuOK
      <3> QED BY <3>2, <3>3, Zenon
    <2>2. LocksOK' BY <1>0, <1>1, <1>2, Zenon DEF ControlOK, LocksOK, Holds
    <2>3. MakersApart' BY <1>0, <1>1, Zenon DEF ControlOK, MakersApart
    <2>4. DoneOK' BY <1>0, <1>1, <1>2, Zenon DEF ControlOK, DoneOK, Edits
    <2> QED BY <1>0, <1>1, <2>1, <2>2, <2>3, <2>4, Zenon DEF ControlOK
  <1>c. AsidsOK'
    <2> SUFFICES ASSUME NEW a \in 1..MaxAsid
                 PROVE  /\ In(a, pool.reusable) \/ In(a, pool'.retired) \/ (\E d \in TCpus : In(a, tc[d].taken))
                             \/ (\E r \in Roots : Owns(r, a)') => a < pool.next
                        /\ In(a, pool.reusable) => ~In(a, pool'.retired)
                        /\ In(a, pool.reusable) \/ In(a, pool'.retired) =>
                             /\ \A d \in TCpus : ~In(a, tc[d].taken)
                             /\ \A r \in Roots : ~Owns(r, a)'
                        /\ \A d \in TCpus : In(a, tc[d].taken) =>
                             /\ \A x \in TCpus \ {d} : ~In(a, tc[x].taken)
                             /\ \A r \in Roots : ~Owns(r, a)'
                        /\ \A r, x \in Roots : Owns(r, a)' /\ Owns(x, a)' => r = x
      BY <1>0, <1>1, <1>4, <1>5, Zenon DEF AsidsOK, AsidOK
    <2>1. /\ In(a, pool.reusable) \/ In(a, pool.retired) \/ (\E d \in TCpus : In(a, tc[d].taken))
               \/ (\E r \in Roots : Owns(r, a)) => a < pool.next
          /\ In(a, pool.reusable) => ~In(a, pool.retired)
          /\ In(a, pool.reusable) \/ In(a, pool.retired) =>
               /\ \A d \in TCpus : ~In(a, tc[d].taken)
               /\ \A r \in Roots : ~Owns(r, a)
          /\ \A d \in TCpus : In(a, tc[d].taken) =>
               /\ \A x \in TCpus \ {d} : ~In(a, tc[x].taken)
               /\ \A r \in Roots : ~Owns(r, a)
          /\ \A r, x \in Roots : Owns(r, a) /\ Owns(x, a) => r = x
      BY <1>0, Zenon DEF AsidsOK, AsidOK
    <2>2. In(a, pool'.retired) => In(a, pool.retired) \/ Owns(s, a) BY <1>3, <1>5, Zenon
    <2>3. In(a, pool'.retired) => \A r \in Roots : ~Owns(r, a)' BY <1>6, <2>1, <2>2, Zenon
    <2> QED BY <1>6, <2>1, <2>2, <2>3, Zenon
  <1>d. EntriesOK'
    <2>1. tc' = tc /\ tlb' = tlb /\ riscv' = riscv BY <1>1, Zenon
    <2> SUFFICES ASSUME NEW d \in TCpus, NEW e \in tlb[d]
                 PROVE  /\ e.asid = 0 \/ ~riscv =>
                             tc[d].satp \in Roots /\ e.root = tc[d].satp /\ e.asid = sps'[tc[d].satp].asid
                        /\ e.asid # 0 /\ riscv =>
                             /\ e.asid < pool.next /\ ~In(e.asid, pool.reusable)
                             /\ \A x \in TCpus : tc[x].at = "reuse" => ~In(e.asid, tc[x].taken)
                             /\ \A r \in Roots : Owns(r, e.asid)' => e.root = r
      BY <1>4, <2>1, Zenon DEF EntriesOK
    <2> QED BY <1>0, <1>1, <1>2, <1>6 DEF EntriesOK
  <1>7. \A r \in Roots : \A e : Old(e, r)' => Old(e, r) BY <1>2, Zenon DEF Old
  <1>e. GensOK' BY <1>0, <1>1, Zenon DEF GensOK
  <1>f. OldIsNews' BY <1>0, <1>1, <1>7 DEF OldIsNews, Untold, UntoldBy
  <1>g. InsideOK'
    <2>1. tc' = tc /\ tlb' = tlb /\ riscv' = riscv BY <1>1
    <2>2. \A d \in TCpus, r \in Roots : Unflushed(d, r)' <=> Unflushed(d, r)
      BY <2>1 DEF Unflushed, UnflushedBy, Edits
    <2> QED BY <1>0, <1>1, <1>2, <2>1, <2>2 DEF InsideOK
  <1>h. ChangeOK' BY <1>0, <1>1, <1>7, Zenon DEF ChangeOK
  <1>i. TargetsOK' BY <1>0, <1>1, Zenon DEF TargetsOK, TargetsBy
  <1> QED BY <1>a, <1>b, <1>c, <1>d, <1>e, <1>f, <1>g, <1>h, <1>i DEF TlbInv

-----------------------------------------------------------------------------
(* The invariant *)

LEMMA TlbStutter ==
  ASSUME TlbInv, UNCHANGED tlbVars
  PROVE  TlbInv'
  <1>0. UNCHANGED <<riscv, tc, tlb, sps, pool, gen, shoot>> BY Zenon DEF tlbVars
  <1>1. /\ TlbTypeOK /\ ControlOK /\ AsidsOK /\ EntriesOK /\ GensOK
        /\ OldIsNews /\ InsideOK /\ ChangeOK /\ TargetsOK
    BY Zenon DEF TlbInv
  <1>a. TlbTypeOK' BY <1>0, <1>1, Zenon DEF TlbTypeOK
  <1>b. ControlOK'
    <2>1. \A c \in TCpus : CpuOK(c)' /\ SpOK(c)'
      <3>1. \A c \in TCpus : CpuOK(c) /\ SpOK(c) BY <1>1, Zenon DEF ControlOK
      <3> QED BY <1>0, <3>1 DEF CpuOK, SpOK
    <2>2. LocksOK' /\ MakersApart' /\ DoneOK'
      BY <1>0, <1>1, Zenon DEF ControlOK, LocksOK, MakersApart, DoneOK, Holds, Edits
    <2> QED BY <1>0, <1>1, <2>1, <2>2, Zenon DEF ControlOK
  <1>c. AsidsOK' BY <1>0, <1>1, Zenon DEF AsidsOK, AsidOK, Owns
  <1>d. EntriesOK' BY <1>0, <1>1 DEF EntriesOK, Owns
  <1>e. GensOK' BY <1>0, <1>1, Zenon DEF GensOK
  <1>f. OldIsNews' BY <1>0, <1>1 DEF OldIsNews, Old, Untold, UntoldBy
  <1>g. InsideOK' BY <1>0, <1>1 DEF InsideOK, Unflushed, UnflushedBy, Edits
  <1>h. ChangeOK' BY <1>0, <1>1, Zenon DEF ChangeOK, Old
  <1>i. TargetsOK' BY <1>0, <1>1, Zenon DEF TargetsOK, TargetsBy
  <1> QED BY <1>a, <1>b, <1>c, <1>d, <1>e, <1>f, <1>g, <1>h, <1>i, Zenon DEF TlbInv

\* A shootdown that is over leaves nobody in the space unflushed.
LEMMA FinishStep ==
  ASSUME TlbInv, NEW c \in TCpus, NEW held \in BOOLEAN, Finish(c, held),
         tc[c].at \in {"sample", "fenced", "resample", "wait"},
         \A d \in TCpus \ {c} : tc[d].active = tc[c].sp => tc[c].at \in {"fenced", "wait"},
         \A d \in TCpus \ {c} : tc[d].active = tc[c].sp /\ tc[c].at = "wait" => tc[d].ack = tc[c].mine
  PROVE  TlbInv'
  <1>1. CpuOK(c) BY Zenon DEF TlbInv, ControlOK
  <1>2. PICK s \in Roots : s = tc[c].sp BY <1>1, Zenon DEF CpuOK, Editing
  <1>3. \A d \in TCpus \ {c} : tc[d].satp = s => ~UnflushedBy(c, d, s)
    <2> SUFFICES ASSUME NEW d \in TCpus \ {c}, tc[d].satp = s, UnflushedBy(c, d, s) PROVE FALSE
      BY Zenon
    <2>1. tc[d].active = s BY SatpActive, Zenon
    <2> QED BY <1>1, <1>2, <2>1, Zenon DEF UnflushedBy, CpuOK, OnlyRiscv, OnlyLoong
  <1> QED BY <1>2, <1>3, FinishInv, Zenon

LEMMA TlbStepInv ==
  ASSUME TlbInv, NEW c \in TCpus, TlbStep(c)
  PROVE  TlbInv'
  <1>0. CpuOK(c) /\ TargetsBy(c) /\ tc[c] \in CpuRec BY Types, Zenon DEF TlbInv, ControlOK, TargetsOK
  <1>1. CASE MarkRead(c)
    <2>1. PICK nxt \in {"flush", "change"} : nxt = IF tc[c].ack # tc[c].req THEN "flush" ELSE "change"
      BY Zenon
    <2> QED BY <1>1, <2>1, MarkReadInv, Zenon DEF MarkRead
  <1>2. CASE MarkFlush(c) BY <1>2, MarkFlushInv, Zenon
  <1>3. CASE Change(c)
    <2>1. PICK s \in Roots : s = tc[c].sp BY <1>0, <1>3, Zenon DEF Change, CpuOK, Entering
    <2> QED BY <1>3, <2>1, ChangeInv, Zenon
  <1>4. CASE Access(c) BY <1>4, AccessInv
  <1>5. CASE Trap(c) BY <1>5, LeaveInv, TrapInv, Zenon DEF Trap
  <1>6. CASE TrapEnds(c) BY <1>6, LeaveInv, BackInv DEF TrapEnds
  <1>7. CASE TakeIpi(c) BY <1>7, TakeIpiInv
  <1>8. CASE IpiAck(c) BY <1>8, IpiAckInv
  <1>9. CASE Generation(c) BY <1>9, GenerationInv
  <1>10. CASE Sample(c)
    <2>1. CASE Targets(c) = {}
      <3>1. Finish(c, FALSE) /\ tc[c].at = "sample" BY <1>10, <2>1, Zenon DEF Sample
      <3> QED BY <2>1, <3>1, FinishStep, Zenon DEF Targets, Others, IsIn
    <2>2. CASE Targets(c) # {}
      <3>1. PICK nxt \in {"fence", "lock"} : nxt = IF riscv THEN "fence" ELSE "lock" BY Zenon
      <3>2. PICK T \in SUBSET (TCpus \ {c}) : T = Targets(c) BY Zenon DEF Targets, Others
      <3>3. \A d \in TCpus \ {c} : tc[d].active = tc[c].sp => d \in T
        BY <3>2, Zenon DEF Targets, Others, IsIn
      <3> QED BY <1>10, <2>2, <3>1, <3>2, <3>3, SampleOnInv, Zenon DEF Sample
    <2> QED BY <2>1, <2>2, Zenon
  <1>11. CASE Fence(c) BY <1>11, FenceInv
  <1>12. CASE Fenced(c) BY <1>12, FinishStep, Zenon DEF Fenced
  <1>13. CASE ShootLock(c) BY <1>13, ShootLockInv
  <1>14. CASE Resample(c)
    <2>1. CASE Targets(c) = {}
      <3>1. Finish(c, TRUE) /\ tc[c].at = "resample" BY <1>14, <2>1, Zenon DEF Resample
      <3> QED BY <2>1, <3>1, FinishStep, Zenon DEF Targets, Others, IsIn
    <2>2. CASE Targets(c) # {}
      <3>2. PICK T \in SUBSET (TCpus \ {c}) : T = Targets(c) BY Zenon DEF Targets, Others
      <3>3. \A d \in TCpus \ {c} : tc[d].active = tc[c].sp => d \in T
        BY <3>2, Zenon DEF Targets, Others, IsIn
      <3> QED BY <1>14, <2>2, <3>2, <3>3, ResampleOnInv, Zenon DEF Resample
    <2> QED BY <2>1, <2>2
  <1>15. CASE Interrupt(c) BY <1>15, InterruptInv
  <1>16. ASSUME NEW d \in TCpus, Post(c, d) PROVE TlbInv' BY <1>16, PostInv, Zenon
  <1>17. ASSUME NEW d \in TCpus, Wait(c, d) PROVE TlbInv'
    <2>0. tc[c].at = "wait" /\ ~riscv /\ d \in tc[c].todo /\ Answered(c, d)
      BY <1>0, <1>17, Zenon DEF Wait, CpuOK, OnlyLoong
    <2>1. CASE tc[c].todo = {d}
      <3>1. Finish(c, TRUE) BY <1>17, <2>1, Zenon DEF Wait
      <3>2. \A x \in TCpus \ {c} : tc[x].active # tc[c].sp
        BY <1>0, <2>0, <2>1, Zenon DEF TargetsBy, Answered, IsIn
      <3> QED BY <2>0, <3>1, <3>2, FinishStep, Zenon
    <2>2. CASE tc[c].todo # {d} BY <1>17, <2>0, <2>2, WaitOnInv, Zenon DEF Wait
    <2> QED BY <2>1, <2>2, Zenon
  <1>18. CASE Recycle(c) BY <1>18, RecycleInv
  <1>19. CASE Reuse(c) BY <1>19, ReuseInv
  <1> QED
    BY <1>1, <1>2, <1>3, <1>4, <1>5, <1>6, <1>7, <1>8, <1>9, <1>10, <1>11, <1>12, <1>13, <1>14,
       <1>15, <1>16, <1>17, <1>18, <1>19 DEF TlbStep

LEMMA TlbCallInv ==
  ASSUME TlbInv, NEW c \in TCpus, TlbCall(c)
  PROVE  TlbInv'
  <1>0. TlbTypeOK BY Zenon DEF TlbInv
  <1>1. ASSUME NEW s \in Roots, Activate(c, s) PROVE TlbInv' BY <1>1, ActivateInv, Zenon
  <1>2. ASSUME NEW s \in Roots, Edit(c, s) PROVE TlbInv'
    <2>1. PICK nxt \in {"generation", "sample"} : nxt = IF riscv THEN "generation" ELSE "sample"
      BY Zenon
    <2>2. PICK v \in 0..MaxVer : v = sps[s].ver + 1 BY <1>0, <1>2, NextVersion, Zenon DEF Edit
    <2>3. /\ tc[c].at = "kernel" \/ (tc[c].at = "trap" /\ s = tc[c].active)
          /\ sps[s].live /\ sps[s].lock = NoRoot
          /\ Sp(s, [sps[s] EXCEPT !.lock = c, !.ver = v]) /\ tlb' = [tlb EXCEPT ![c] = {}]
          /\ Cpu(c, [tc[c] EXCEPT !.at = nxt, !.back = tc[c].at, !.sp = s, !.todo = TCpus \ {c}])
          /\ UNCHANGED <<riscv, pool, gen, shoot>>
      BY <1>2, <2>1, <2>2, Zenon DEF Edit, Others
    <2> QED BY <2>1, <2>2, <2>3, EditInv, Zenon
  <1>3. ASSUME NEW s \in Roots, AllocAsid(c, s) PROVE TlbInv'
    <2>1. CASE Taken(pool).asid # 0 \/ pool.retired = <<>> BY <1>3, <2>1, AllocInv, Zenon DEF AllocAsid
    <2>2. CASE ~(Taken(pool).asid # 0 \/ pool.retired = <<>>)
      BY <1>3, <2>2, TakeRetiredInv, Zenon DEF AllocAsid
    <2> QED BY <2>1, <2>2, Zenon
  <1>4. ASSUME NEW s \in Roots, Retire(s) PROVE TlbInv' BY <1>4, RetireInv, Zenon
  <1> QED BY <1>1, <1>2, <1>3, <1>4, Zenon DEF TlbCall

LEMMA TlbSpecInv == TlbSpec => []TlbInv
  <1>1. ASSUME \E rv \in BOOLEAN : TlbInit(rv) PROVE TlbInv BY <1>1, TlbInitInv, Zenon
  <1>2. ASSUME TlbInv, [\E c \in TCpus : TlbStep(c) \/ TlbCall(c)]_tlbVars PROVE TlbInv'
    BY <1>2, TlbStepInv, TlbCallInv, TlbStutter, Zenon
  <1> QED BY <1>1, <1>2, PTL DEF TlbSpec

-----------------------------------------------------------------------------
(* The results *)

\* No user access ever translates through what another address space, or an
\* earlier page table of its own, has left in a TLB, and live address spaces
\* share no ASID but 0: on either build, for any number of CPUs and spaces, any
\* number of hardware ASIDs and any interleaving of activations, edits,
\* shootdowns and ASID recycling (tlb_shootdown(), mark_current_address_space(),
\* allocate_address_space_id()).
THEOREM NoStaleAccess == TlbSpec => []TlbSafe
  BY TlbSpecInv, InvSafe, PTL

\* A LoongArch shooter never waits for a CPU that cannot answer it: whoever it
\* still waits for is in user mode, idle or answering (tlb_shootdown_inner()).
THEOREM ShooterIsAnswered == TlbSpec => []AwaitedCanAnswer
  BY TlbSpecInv, InvSafe, PTL
=============================================================================
