------------------------------ MODULE ExecImage ------------------------------
(***************************************************************************)
(* What execve() builds before it touches the process: the vectors it      *)
(* reads from the caller (os/src/syscall/process.rs read_user_str_array()),*)
(* the file it settles on for a script or a dynamic program, the segments  *)
(* it places (os/src/mm/elf_loader.rs), and the initial stack              *)
(* (setup_user_stack()).                                                   *)
(*                                                                         *)
(* A string is a sequence of non-zero characters and a path is a string    *)
(* whose first character is its directory.  An address space is a function *)
(* from its mapped addresses to what is stored there; a word is stored at  *)
(* its first address and leaves Rest in the others.                        *)
(***************************************************************************)
EXTENDS Integers, Sequences, FiniteSetsExt, SequencesExt

CONSTANTS
    PageSize, Word,          \* bytes of a page, of a machine word
    PieBias,                 \* where a position-independent program goes
    InterpMinBias,           \* least bias, and alignment, of the interpreter
    HeapStart,               \* USER_HEAP_START
    StackTop, StackSize,     \* USER_STACK_TOP, USER_STACK_SIZE
    MaxEntries, MaxBytes,    \* MAX_EXEC_VECTOR_ENTRIES, MAX_EXEC_VECTOR_BYTES
    Lib64, Lib,              \* the directories /lib64 and /lib
    LibcSo, BinSh, BinBusybox, Busybox,  \* /lib/libc.so, /bin/sh, /bin/busybox, /busybox
    ShArg,                   \* the argument "sh"
    Platform, Random,        \* AT_PLATFORM's string, AT_RANDOM's bytes
    DefaultEnv               \* the environment of a caller that gives none

Rest == -1
Fail(e) == [err |-> e]
IsErr(r) == "err" \in DOMAIN r

AlignDown(a) == (a \div PageSize) * PageSize
AlignUp(a) == AlignDown(a + PageSize - 1)
AlignUpTo(a, n) == ((a + n - 1) \div n) * n
RangesOverlap(a, b) == a[1] < b[2] /\ b[1] < a[2]

-----------------------------------------------------------------------------
(* The caller's vectors *)

\* The bytes the first n strings take, terminators included.
Bytes(v, n) == FoldLeft(LAMBDA sum, e : sum + Len(e.s) + 1, 0, SubSeq(v, 1, n))

ReadVector_Truncates(v) ==
    LET strs == SelectSeq(v, LAMBDA e : e.k = "str") IN
    [val |-> [i \in 1..Min({MaxEntries, Len(strs)}) |-> strs[i].s]]

\* read_user_str_array().  An entry is a string, the null that ends the vector,
\* a word that cannot be read, or a pointer to a string that cannot be read; an
\* empty vector is a null base.
ReadVector(v) ==
    LET stops == {i \in 1..Min({MaxEntries, Len(v)}) :
                     v[i].k # "str" \/ Bytes(v, i) > MaxBytes}
        n == Min(stops)
    IN CASE v = <<>> -> [val |-> <<>>]
         [] stops = {} -> Fail("E2BIG")
         [] v[n].k = "end" -> [val |-> [i \in 1..(n - 1) |-> v[i].s]]
         [] v[n].k = "fault" -> Fail("EFAULT")
         [] OTHER -> Fail("E2BIG")

-----------------------------------------------------------------------------
(* Which file runs *)

Exists(fs, p) == p \in DOMAIN fs

\* script_interpreter_spec(): the interpreter's path and the vector it gets.
ScriptSpec(fs, path, script, argv) ==
    LET fallback == /\ ~Exists(fs, script.interp)
                    /\ script.interp \in {BinSh, BinBusybox}
                    /\ Exists(fs, Busybox)
        interp == IF fallback THEN Busybox ELSE script.interp
        applet == IF fallback /\ script.interp = BinSh THEN <<ShArg>> ELSE <<>>
    IN [path |-> interp,
        argv |-> <<interp>> \o applet \o script.arg \o <<path>> \o Tail(argv)]

\* read_interpreter(): the path asked for, its twin under /lib, or libc.  The copy
\* under /glibc that LoongArch tries before libc is left out.
Candidates(p) ==
    <<p>> \o (IF p[1] = Lib64 THEN <<<<Lib>> \o Tail(p)>> ELSE <<>>) \o <<LibcSo>>
Interpreter(fs, p) ==
    LET found == SelectSeq(Candidates(p), LAMBDA c : Exists(fs, c)) IN
    IF found = <<>> THEN Fail("ENOENT") ELSE [path |-> Head(found)]

\* can_enter_without_interpreter(): the dynamic section asks for nothing.
CanEnterDirectly(elf) ==
    LET decides(e) == e \in {"null", "needed", "jmprel", "relocs"}
        first == SelectSeq(elf.dyn, decides)
    IN first # <<>> /\ Head(first) = "null"

-----------------------------------------------------------------------------
(* Placing a program *)

Loads(elf) == Range(elf.segs)
LoadBounds(elf, bias) ==
    <<Min({AlignDown(s.vaddr + bias) : s \in Loads(elf)}),
      Max({AlignUp(s.vaddr + s.memsz + bias) : s \in Loads(elf)})>>

\* choose_interpreter_bias(): just above the least bias unless the program is
\* there, and then right behind it.
ChooseBias(elf, bias, interp) ==
    LET target == LoadBounds(elf, bias)
        at(b) == LoadBounds(interp, b)
        behind == Max({AlignUpTo(Max({target[2] - at(0)[1], 0}), InterpMinBias), InterpMinBias})
        b == IF RangesOverlap(at(InterpMinBias), target) THEN behind ELSE InterpMinBias
    IN IF RangesOverlap(at(b), target) \/ at(b)[2] >= HeapStart
       THEN Fail("ENOMEM") ELSE [bias |-> b]

Over(m, n) == [a \in DOMAIN m \cup DOMAIN n |-> IF a \in DOMAIN n THEN n[a] ELSE m[a]]
At(a, str) == [x \in a..(a + Len(str) - 1) |-> str[x - a + 1]]
Zeros(a, b) == [x \in a..(b - 1) |-> 0]

\* One turn of load_segments_into(): fresh zeroed frames, then the file's bytes.
LoadSegment(m, elf, seg, bias) ==
    LET start == seg.vaddr + bias
        room == Zeros(AlignDown(start), AlignUp(start + seg.memsz))
    IN CASE AlignDown(start) >= AlignUp(start + seg.memsz) -> Fail("EINVAL")
         [] seg.off + seg.filesz > Len(elf.data) -> Fail("ENOEXEC")
         [] \E x \in start..(start + seg.filesz - 1) :
                x \notin DOMAIN m \cup DOMAIN room -> Fail("ENOMEM")
         [] OTHER -> [m |-> Over(Over(m, room),
                                 At(start, SubSeq(elf.data, seg.off + 1, seg.off + seg.filesz)))]

LoadSegments(m, elf, bias) ==
    FoldLeft(LAMBDA r, seg : IF IsErr(r) THEN r ELSE LoadSegment(r.m, elf, seg, bias),
             [m |-> m], elf.segs)

\* insert_lazy_area_with_backing() of the stack, whose pages read as zero.
WithStack(r) == IF IsErr(r) THEN r ELSE [m |-> Over(r.m, Zeros(StackTop - StackSize, StackTop))]

Bias(elf) == IF elf.type = "dyn" THEN PieBias ELSE 0
PhdrVaddr(elf, bias) ==
    IF elf.phdr > 0 THEN elf.phdr + bias
    ELSE Min({s.vaddr : s \in Loads(elf)}) + elf.phoff + bias

-----------------------------------------------------------------------------
(* The initial stack *)

\* Strings pushed downwards from `top', the last one first: where each lies.
Size(strs) == FoldLeft(LAMBDA sum, s : sum + Len(s) + 1, 0, strs)
Pointers(top, strs) == [i \in DOMAIN strs |-> top - Size(SubSeq(strs, i, Len(strs)))]
WriteStrings(m, ptrs, strs) ==
    FoldLeft(LAMBDA n, i : Over(n, At(ptrs[i], strs[i] \o <<0>>)), m, [i \in DOMAIN strs |-> i])
WriteWords(m, sp, words) ==
    Over(m, [x \in sp..(sp + Word * Len(words) - 1) |->
                IF (x - sp) % Word = 0 THEN words[(x - sp) \div Word + 1] ELSE Rest])

AT_NULL == 0
AT_PHDR == 3
AT_BASE == 7
AT_ENTRY == 9
AT_PLATFORM == 15
AT_RANDOM == 25
AT_EXECFN == 31

SixteenDown(a) == (a \div (2 * Word)) * (2 * Word)

\* setup_user_stack().  `aux' is the program's part of the auxiliary vector; the
\* pairs that point into the stack are added here.
SetupStack(m, argv, envp, aux) ==
    LET argvPtrs == Pointers(StackTop, argv)
        envTop == StackTop - Size(argv)
        envpPtrs == Pointers(envTop, envp)
        platform == envTop - Size(envp) - Len(Platform) - 1
        random == platform - Len(Random)
        auxv == aux \o <<<<AT_PLATFORM, platform>>, <<AT_RANDOM, random>>,
                         <<AT_EXECFN, IF argv = <<>> THEN 0 ELSE argvPtrs[1]>>,
                         <<AT_NULL, 0>>>>
        words == <<Len(argv)>> \o argvPtrs \o <<0>> \o envpPtrs \o <<0>>
                   \o FlattenSeq(auxv)
        sp == SixteenDown(SixteenDown(random) - Word * Len(words))
        strings == Over(Over(WriteStrings(WriteStrings(m, argvPtrs, argv), envpPtrs, envp),
                             At(platform, Platform \o <<0>>)), At(random, Random))
    IN IF sp < StackTop - StackSize THEN Fail("E2BIG")
       ELSE [m |-> WriteWords(strings, sp, words), sp |-> sp]

-----------------------------------------------------------------------------
(* The whole image *)

Settled(script, fs, path, argv) ==
    IF script THEN ScriptSpec(fs, path, fs[path], argv) ELSE [path |-> path, argv |-> argv]

\* The entry point of what is loaded, and its stack.  `base' is the interpreter's
\* bias; `pc' is where the image is entered.
Entered(stack, spec, base, pc) ==
    IF IsErr(stack) THEN stack
    ELSE [m |-> stack.m, sp |-> stack.sp, prog |-> spec.path, base |-> base, pc |-> pc]
Launch(r, elf, spec, envp, base, pc) ==
    IF IsErr(r) THEN r
    ELSE Entered(SetupStack(r.m, spec.argv, envp,
                            <<<<AT_PHDR, PhdrVaddr(elf, Bias(elf))>>, <<AT_BASE, base>>,
                              <<AT_ENTRY, elf.entry + Bias(elf)>>>>),
                 spec, base, pc)

\* A program that is entered directly, and one behind its interpreter.
LoadAlone(elf, spec, envp) ==
    Launch(WithStack(LoadSegments(<<>>, elf, Bias(elf))), elf, spec, envp, 0, elf.entry + Bias(elf))

LoadBoth(target, ldElf, bias) ==
    IF IsErr(target) THEN target ELSE LoadSegments(target.m, ldElf, bias)
LoadBehind(elf, ldElf, chosen, spec, envp) ==
    IF IsErr(chosen) THEN chosen
    ELSE Launch(WithStack(LoadBoth(LoadSegments(<<>>, elf, Bias(elf)), ldElf, chosen.bias)),
                elf, spec, envp, chosen.bias, ldElf.entry + chosen.bias)
LoadDynamic(fs, elf, ld, spec, envp) ==
    CASE IsErr(ld) -> ld
      [] fs[ld.path].kind # "elf" -> Fail("ENOEXEC")
      [] OTHER -> LoadBehind(elf, fs[ld.path], ChooseBias(elf, Bias(elf), fs[ld.path]), spec, envp)

\* `loong' is the LoongArch build, which enters a self-contained program directly.
LoadElf(fs, loong, elf, spec, envp) ==
    CASE elf.kind # "elf" -> Fail("ENOEXEC")
      [] elf.interp = <<>> \/ (loong /\ CanEnterDirectly(elf)) -> LoadAlone(elf, spec, envp)
      [] OTHER -> LoadDynamic(fs, elf, Interpreter(fs, elf.interp), spec, envp)
LoadProgram(fs, loong, spec, envp) ==
    IF Exists(fs, spec.path) THEN LoadElf(fs, loong, fs[spec.path], spec, envp) ELSE Fail("ENOENT")

\* The middle of sys_execve(): from the vectors to an address space, an entry
\* point and a stack, or the error of the first step that fails.
Build(fs, loong, path, argv, envp) ==
    IF ~Exists(fs, path) THEN Fail("ENOENT")
    ELSE LoadProgram(fs, loong,
                     Settled(fs[path].kind = "script", fs, path, IF argv = <<>> THEN <<path>> ELSE argv),
                     IF envp = <<>> THEN DefaultEnv ELSE envp)

=============================================================================
