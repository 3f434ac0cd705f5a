---------------------------- MODULE TlbShootdown ----------------------------
(***************************************************************************)
(* Translation caches on several CPUs: how a CPU enters and leaves an      *)
(* address space (os/src/mm/memory_set.rs activate(), os/src/trap/mod.rs   *)
(* restore_kernel_page_table()), how an edit of a page table is made known *)
(* to the other CPUs (os/src/platform.rs tlb_shootdown()), and how         *)
(* address-space identifiers are retired and used again.                   *)
(*                                                                         *)
(* A page table is the version of its one leaf: an edit makes the next     *)
(* version.  A TLB holds entries tagged with an ASID; the space and the    *)
(* version they were loaded from are what the properties look at.  riscv   *)
(* selects the build: RISC-V posts a generation to every CPU and fences    *)
(* the active ones through the firmware, LoongArch interrupts the active   *)
(* ones and waits for their acknowledgement.                               *)
(***************************************************************************)
EXTENDS Integers, Sequences, FiniteSets

CONSTANTS
    TCpus,      \* online CPUs
    Roots,      \* page-table roots: address spaces, one leaf each
    MaxAsid,    \* largest hardware ASID
    MaxVer,     \* bound on the versions of one leaf
    NoRoot      \* the kernel root

ASSUME TlbAssumption ==
    MaxAsid \in Nat /\ MaxVer \in Nat /\ NoRoot \notin Roots /\ NoRoot \notin TCpus

VARIABLES
    riscv,      \* the build: RISC-V, or else LoongArch
    tc,         \* per CPU: control point and registers
    tlb,        \* per CPU: cached translations
    sps,        \* per root: ASID, leaf version, version known everywhere, lock
    pool,       \* ASID_ALLOCATOR
    gen,        \* TLB_GENERATION
    shoot       \* holder of TLB_SHOOTDOWN_LOCK

tlbVars == <<riscv, tc, tlb, sps, pool, gen, shoot>>

\* satp: the root in the hardware register; active: ACTIVE_ADDRESS_SPACE;
\* req, ack: TLB_REQUEST, TLB_ACK; ipi: IPI_TLB_SHOOTDOWN is pending;
\* sp, mine, todo: the operand, generation and targets of the call; taken: the
\* retired ASIDs a call has taken to use again.
NewCpu == [at |-> "kernel", satp |-> NoRoot, active |-> NoRoot, req |-> 0,
           ack |-> 0, ipi |-> FALSE, sp |-> NoRoot, mine |-> 0, todo |-> {},
           back |-> "kernel", taken |-> <<>>]

Cpu(c, new) == tc' = [tc EXCEPT ![c] = new]
Sp(s, new) == sps' = [sps EXCEPT ![s] = new]
Others(c) == TCpus \ {c}
IsIn(c, s) == tc[c].active = s

-----------------------------------------------------------------------------
(* Entering and leaving an address space *)

\* MemorySet::activate(), called with the space's lock held: publish the root.
Activate(c, s) ==
    /\ tc[c].at = "kernel" /\ sps[s].live /\ sps[s].lock = NoRoot
    /\ Sp(s, [sps[s] EXCEPT !.lock = c])
    /\ Cpu(c, [tc[c] EXCEPT !.at = "mark", !.sp = s, !.active = s])
    /\ UNCHANGED <<riscv, tlb, pool, gen, shoot>>

\* mark_current_address_space(): the posted generation is sampled ...
MarkRead(c) ==
    /\ tc[c].at = "mark"
    /\ Cpu(c, [tc[c] EXCEPT !.mine = tc[c].req,
                            !.at = IF tc[c].ack # tc[c].req THEN "flush" ELSE "change"])
    /\ UNCHANGED <<riscv, tlb, sps, pool, gen, shoot>>

\* ... and a generation not yet acknowledged is answered with a local flush.
MarkFlush(c) ==
    /\ tc[c].at = "flush"
    /\ tlb' = [tlb EXCEPT ![c] = {}]
    /\ Cpu(c, [tc[c] EXCEPT !.ack = tc[c].mine, !.at = "change"])
    /\ UNCHANGED <<riscv, sps, pool, gen, shoot>>

\* change_with_asid() installs the root; LoongArch flushes every time.  The
\* lock is released and run_user_task() enters user mode.
Change(c) ==
    /\ tc[c].at = "change"
    /\ tlb' = IF riscv THEN tlb ELSE [tlb EXCEPT ![c] = {}]
    /\ Cpu(c, [tc[c] EXCEPT !.satp = tc[c].sp, !.at = "user"])
    /\ Sp(tc[c].sp, [sps[tc[c].sp] EXCEPT !.lock = NoRoot])
    /\ UNCHANGED <<riscv, pool, gen, shoot>>

\* A user access: the hardware walks the table when no entry has the ASID.
Hits(c) == {e \in tlb[c] : e.asid = sps[tc[c].satp].asid}
Access(c) ==
    /\ tc[c].at = "user" /\ Hits(c) = {}
    /\ tlb' = [tlb EXCEPT ![c] = @ \cup
                 {[asid |-> sps[tc[c].satp].asid, root |-> tc[c].satp,
                   ver |-> sps[tc[c].satp].ver]}]
    /\ UNCHANGED <<riscv, tc, sps, pool, gen, shoot>>

\* restore_kernel_page_table(): no active root, ASID 0; a full flush on
\* LoongArch, and when the user ran under the kernel's ASID.
LeftTlb(c) ==
    IF ~riscv \/ sps[tc[c].satp].asid = 0 THEN {} ELSE tlb[c]

Leave(c) ==
    /\ tlb' = [tlb EXCEPT ![c] = LeftTlb(c)]
    /\ Cpu(c, [tc[c] EXCEPT !.at = "kernel", !.satp = NoRoot, !.active = NoRoot,
                            !.sp = NoRoot])
    /\ UNCHANGED <<riscv, sps, pool, gen, shoot>>

\* user_interrupt(): LoongArch leaves the user root at once, RISC-V keeps it
\* for a system call or a page fault and leaves it at a scheduling boundary.
Trap(c) ==
    /\ tc[c].at = "user"
    /\ \/ Leave(c)
       \/ /\ riscv
          /\ Cpu(c, [tc[c] EXCEPT !.at = "trap"])
          /\ UNCHANGED <<riscv, tlb, sps, pool, gen, shoot>>

\* Back to user mode under the root that is still active
\* (activate_memory_set_if_needed() returns early), or a scheduling boundary.
TrapEnds(c) ==
    /\ tc[c].at = "trap"
    /\ \/ /\ sps[tc[c].active].lock = NoRoot
          /\ Cpu(c, [tc[c] EXCEPT !.at = "user"])
          /\ UNCHANGED <<riscv, tlb, sps, pool, gen, shoot>>
       \/ Leave(c)

\* The interrupt is taken in user mode (after leaving the user root) or by an
\* idle CPU; handle_ipi() flushes and then acknowledges what is posted.
TakeIpi(c) ==
    /\ tc[c].at \in {"user", "kernel"} /\ tc[c].ipi
    /\ tlb' = [tlb EXCEPT ![c] = {}]
    /\ Cpu(c, [tc[c] EXCEPT !.ipi = FALSE, !.at = "ipi", !.satp = NoRoot,
                            !.active = NoRoot, !.sp = NoRoot])
    /\ UNCHANGED <<riscv, sps, pool, gen, shoot>>

IpiAck(c) ==
    /\ tc[c].at = "ipi"
    /\ Cpu(c, [tc[c] EXCEPT !.ack = tc[c].req, !.at = "kernel"])
    /\ UNCHANGED <<riscv, tlb, sps, pool, gen, shoot>>

-----------------------------------------------------------------------------
(* An edit of a page table and its shootdown *)

\* commit_page_table_retirement(): with the space's lock held, the leaf is
\* rewritten and the local TLB flushed; tlb_shootdown() follows.
Edit(c, s) ==
    /\ \/ tc[c].at = "kernel"
       \/ tc[c].at = "trap" /\ s = tc[c].active
    /\ sps[s].live /\ sps[s].lock = NoRoot /\ sps[s].ver < MaxVer
    /\ Sp(s, [sps[s] EXCEPT !.lock = c, !.ver = @ + 1])
    /\ tlb' = [tlb EXCEPT ![c] = {}]
    /\ Cpu(c, [tc[c] EXCEPT !.at = IF riscv THEN "generation" ELSE "sample",
                            !.back = tc[c].at, !.sp = s, !.todo = Others(c)])
    /\ UNCHANGED <<riscv, pool, gen, shoot>>

\* The shooter returns and the editor releases the space: from here on the
\* frames of the old leaf may be freed.
Finish(c, held) ==
    /\ Sp(tc[c].sp, [sps[tc[c].sp] EXCEPT !.lock = NoRoot, !.done = sps[tc[c].sp].ver])
    /\ Cpu(c, [tc[c] EXCEPT !.at = tc[c].back, !.sp = tc[c].active, !.todo = {}])
    /\ shoot' = IF held THEN NoRoot ELSE shoot
    /\ UNCHANGED <<riscv, tlb, pool, gen>>

NewGeneration(c) ==
    /\ gen' = gen + 1
    /\ Cpu(c, [tc[c] EXCEPT !.at = "post", !.mine = gen + 1])
    /\ UNCHANGED <<riscv, tlb, sps, pool, shoot>>

\* RISC-V: a new generation, posted to every other CPU before ...
Generation(c) == tc[c].at = "generation" /\ NewGeneration(c)

Post_ActiveOnly(c, d) ==
    /\ riscv /\ tc[c].at = "post" /\ d \in tc[c].todo
    /\ tc' = [tc EXCEPT ![d].req = IF IsIn(d, tc[c].sp) THEN tc[c].mine ELSE @,
                        ![c].todo = @ \ {d},
                        ![c].at = IF tc[c].todo = {d} THEN "sample" ELSE "post"]
    /\ UNCHANGED <<riscv, tlb, sps, pool, gen, shoot>>

Post(c, d) ==
    /\ riscv /\ tc[c].at = "post" /\ d \in tc[c].todo
    /\ tc' = [tc EXCEPT ![d].req = tc[c].mine, ![c].todo = @ \ {d},
                        ![c].at = IF tc[c].todo = {d} THEN "sample" ELSE "post"]
    /\ UNCHANGED <<riscv, tlb, sps, pool, gen, shoot>>

\* ... the active roots are sampled.  No target: nothing more to do.
Targets(c) == {d \in Others(c) : IsIn(d, tc[c].sp)}

Sample(c) ==
    /\ tc[c].at = "sample"
    /\ IF Targets(c) = {}
       THEN Finish(c, FALSE)
       ELSE /\ Cpu(c, [tc[c] EXCEPT !.at = IF riscv THEN "fence" ELSE "lock",
                                    !.todo = Targets(c)])
            /\ UNCHANGED <<riscv, tlb, sps, pool, gen, shoot>>

\* sbi remote_sfence_vma(): returns when every target has flushed.
Fence(c) ==
    /\ tc[c].at = "fence"
    /\ tlb' = [d \in TCpus |-> IF d \in tc[c].todo THEN {} ELSE tlb[d]]
    /\ Cpu(c, [tc[c] EXCEPT !.at = "fenced"])
    /\ UNCHANGED <<riscv, sps, pool, gen, shoot>>

Fenced(c) == tc[c].at = "fenced" /\ Finish(c, FALSE)

\* LoongArch: under TLB_SHOOTDOWN_LOCK the targets are sampled again ...
ShootLock(c) ==
    /\ tc[c].at = "lock" /\ shoot = NoRoot
    /\ shoot' = c
    /\ Cpu(c, [tc[c] EXCEPT !.at = "resample"])
    /\ UNCHANGED <<riscv, tlb, sps, pool, gen>>

Resample(c) ==
    /\ tc[c].at = "resample"
    /\ IF Targets(c) = {}
       THEN Finish(c, TRUE)
       ELSE /\ gen' = gen + 1
            /\ Cpu(c, [tc[c] EXCEPT !.at = "post", !.mine = gen + 1, !.todo = Targets(c)])
            /\ UNCHANGED <<riscv, tlb, sps, pool, shoot>>

Interrupt_Unposted(c) ==
    /\ ~riscv /\ tc[c].at = "post"
    /\ tc' = [d \in TCpus |->
                IF d \in tc[c].todo
                THEN [tc[d] EXCEPT !.req = tc[c].mine]
                ELSE IF d = c THEN [tc[c] EXCEPT !.at = "wait"] ELSE tc[d]]
    /\ UNCHANGED <<riscv, tlb, sps, pool, gen, shoot>>

\* ... and each is posted the generation and interrupted.
Interrupt(c) ==
    /\ ~riscv /\ tc[c].at = "post"
    /\ tc' = [d \in TCpus |->
                IF d \in tc[c].todo
                THEN [tc[d] EXCEPT !.req = tc[c].mine, !.ipi = TRUE]
                ELSE IF d = c THEN [tc[c] EXCEPT !.at = "wait"] ELSE tc[d]]
    /\ UNCHANGED <<riscv, tlb, sps, pool, gen, shoot>>

\* The shooter spins until each target has acknowledged or has left the space.
Answered(c, d) == tc[d].ack = tc[c].mine \/ ~IsIn(d, tc[c].sp)

Wait(c, d) ==
    /\ tc[c].at = "wait" /\ d \in tc[c].todo /\ Answered(c, d)
    /\ IF tc[c].todo = {d}
       THEN Finish(c, TRUE)
       ELSE /\ Cpu(c, [tc[c] EXCEPT !.todo = @ \ {d}])
            /\ UNCHANGED <<riscv, tlb, sps, pool, gen, shoot>>

-----------------------------------------------------------------------------
(* Address-space identifiers *)

\* allocate_without_recycling(): a reusable ASID, the next fresh one, or none.
Taken(p) ==
    IF p.reusable # <<>>
    THEN [asid |-> p.reusable[Len(p.reusable)],
          pool |-> [p EXCEPT !.reusable = SubSeq(@, 1, Len(@) - 1)]]
    ELSE IF p.next <= MaxAsid
         THEN [asid |-> p.next, pool |-> [p EXCEPT !.next = @ + 1]]
         ELSE [asid |-> 0, pool |-> p]

Born(s, asid) ==
    Sp(s, [sps[s] EXCEPT !.live = TRUE, !.asid = asid, !.ver = @ + 1, !.done = sps[s].ver + 1])

\* MemorySet::new_bare(): a fresh table, possibly at the root of a dead one.
\* With nothing to hand out the retired ASIDs are taken; without those, 0.
AllocAsid(c, s) ==
    /\ tc[c].at = "kernel" /\ ~sps[s].live /\ sps[s].ver < MaxVer
    /\ \A d \in TCpus : tc[d].sp # s
    /\ LET t == Taken(pool) IN
       IF t.asid # 0 \/ pool.retired = <<>>
       THEN /\ Born(s, t.asid)
            /\ pool' = t.pool
            /\ UNCHANGED <<riscv, tc, tlb, gen, shoot>>
       ELSE /\ pool' = [pool EXCEPT !.retired = <<>>]
            /\ Cpu(c, [tc[c] EXCEPT !.at = "recycle", !.sp = s, !.taken = pool.retired])
            /\ UNCHANGED <<riscv, tlb, sps, gen, shoot>>

\* flush_tlb_all_cpus() on RISC-V; on LoongArch every activation flushes.
FlushAll(c) ==
    IF riscv THEN [d \in TCpus |-> {}] ELSE tlb

Recycle(c) ==
    /\ tc[c].at = "recycle"
    /\ tlb' = FlushAll(c)
    /\ Cpu(c, [tc[c] EXCEPT !.at = "reuse"])
    /\ UNCHANGED <<riscv, sps, pool, gen, shoot>>

Reuse(c) ==
    /\ tc[c].at = "reuse"
    /\ LET t == Taken([pool EXCEPT !.reusable = @ \o tc[c].taken]) IN
       /\ Born(tc[c].sp, t.asid)
       /\ pool' = t.pool
    /\ Cpu(c, [tc[c] EXCEPT !.at = "kernel", !.sp = NoRoot, !.taken = <<>>])
    /\ UNCHANGED <<riscv, tlb, gen, shoot>>

\* Drop of a MemorySet that no CPU is in: retire_address_space_id().
Retire(s) ==
    /\ sps[s].live /\ sps[s].lock = NoRoot
    /\ \A c \in TCpus : tc[c].satp # s /\ tc[c].sp # s
    /\ Sp(s, [sps[s] EXCEPT !.live = FALSE])
    /\ pool' = IF sps[s].asid = 0 THEN pool
               ELSE [pool EXCEPT !.retired = Append(@, sps[s].asid)]
    /\ UNCHANGED <<riscv, tc, tlb, gen, shoot>>

-----------------------------------------------------------------------------

TlbInit(rv) ==
    /\ riscv = rv
    /\ tc = [c \in TCpus |-> NewCpu]
    /\ tlb = [c \in TCpus |-> {}]
    /\ sps = [s \in Roots |-> [live |-> FALSE, asid |-> 0, ver |-> 0, done |-> 0,
                               lock |-> NoRoot]]
    /\ pool = [next |-> 1, reusable |-> <<>>, retired |-> <<>>]
    /\ gen = 0
    /\ shoot = NoRoot

\* Steps a CPU takes once it has begun something.
TlbStep(c) ==
    \/ MarkRead(c) \/ MarkFlush(c) \/ Change(c) \/ Access(c) \/ Trap(c) \/ TrapEnds(c)
    \/ TakeIpi(c) \/ IpiAck(c)
    \/ Generation(c) \/ Sample(c) \/ Fence(c) \/ Fenced(c)
    \/ ShootLock(c) \/ Resample(c) \/ Interrupt(c)
    \/ \E d \in TCpus : Post(c, d) \/ Wait(c, d)
    \/ Recycle(c) \/ Reuse(c)

\* Calls: enter a space, edit one, make one, drop one.
TlbCall(c) ==
    \E s \in Roots : Activate(c, s) \/ Edit(c, s) \/ AllocAsid(c, s) \/ Retire(s)

\* Either build, any number of calls.
TlbSpec ==
    /\ \E rv \in BOOLEAN : TlbInit(rv)
    /\ [][\E c \in TCpus : TlbStep(c) \/ TlbCall(c)]_tlbVars

-----------------------------------------------------------------------------
(* Properties *)

\* The types; an ASID never leaves the hardware's range and a lock names one CPU
\* or none (the ASID allocator, the lock around a MemorySet).
TlbTypeOK ==
    /\ tc \in [TCpus -> [at : {"kernel", "mark", "flush", "change", "user", "trap", "ipi",
                               "generation", "post", "sample", "fence", "fenced", "lock",
                               "resample", "wait", "recycle", "reuse"},
                         satp : Roots \cup {NoRoot}, active : Roots \cup {NoRoot},
                         req : Nat, ack : Nat, ipi : BOOLEAN, sp : Roots \cup {NoRoot},
                         mine : Nat, todo : SUBSET TCpus, back : {"kernel", "trap"},
                         taken : Seq(1..MaxAsid)]]
    /\ sps \in [Roots -> [live : BOOLEAN, asid : 0..MaxAsid, ver : 0..MaxVer,
                          done : 0..MaxVer, lock : TCpus \cup {NoRoot}]]
    /\ pool \in [next : 1..(MaxAsid + 1), reusable : Seq(1..MaxAsid), retired : Seq(1..MaxAsid)]

\* Once the editor of a page table has come back from tlb_shootdown(), no CPU in
\* user mode translates through an entry of the old leaf, and none ever uses an
\* entry that another address space left behind under the same ASID: a freed
\* frame is out of every user's reach (commit_page_table_retirement()).
NoStaleTranslation ==
    \A c \in TCpus : tc[c].at = "user" =>
        \A e \in Hits(c) : e.root = tc[c].satp /\ e.ver >= sps[tc[c].satp].done

\* Two live address spaces share no ASID but 0, and an ASID waiting for its
\* flush belongs to none (allocate_address_space_id(), retire_address_space_id()).
AsidsExclusive ==
    /\ \A s, r \in Roots : s # r /\ sps[s].live /\ sps[r].live /\ sps[s].asid = sps[r].asid
                             => sps[s].asid = 0
    /\ \A s \in Roots : sps[s].live =>
         /\ \A i \in 1..Len(pool.retired) : pool.retired[i] # sps[s].asid
         /\ \A c \in TCpus : \A i \in 1..Len(tc[c].taken) : tc[c].taken[i] # sps[s].asid

\* A CPU that a LoongArch shooter waits for can still answer: it is in user mode
\* or idle with the interrupt pending, has left the space, or is on a path that
\* takes no lock; it never spins on a lock of the shooter (tlb_shootdown_inner()).
AwaitedCanAnswer ==
    \A c \in TCpus : tc[c].at = "wait" =>
        \A d \in tc[c].todo :
            \/ Answered(c, d)
            \/ tc[d].at = "ipi"
            \/ tc[d].at \in {"user", "kernel"} /\ tc[d].ipi

\* Together: an address is never translated through what another address space,
\* or an earlier state of its own, has left in a TLB.
TlbSafe == TlbTypeOK /\ AsidsExclusive /\ NoStaleTranslation

=============================================================================
