------------------------------ MODULE CloneExec ------------------------------
(***************************************************************************)
(* What clone() shares and what execve() replaces                          *)
(* (os/src/syscall/process.rs).  A task refers to an address space, a      *)
(* descriptor table and a table of signal actions, each named after the    *)
(* task that made it.  Everything a program leaves behind in the kernel    *)
(* (a handler's address, a close-on-exec descriptor, a robust list) is     *)
(* known by the program, the file, that left it.                           *)
(*                                                                         *)
(* execve() builds the image (ExecImage) while the caller still runs the   *)
(* old one and then replaces the process piece by piece; other tasks take  *)
(* steps in between.  A vfork parent is not held back here: ChildWait      *)
(* models its wait.                                                        *)
(***************************************************************************)
EXTENDS ExecImage

CONSTANTS
    XTasks,     \* task slots
    XFirst,     \* the first task
    XFirstFile, \* the file it runs
    Executables,\* the executable files, by path
    NoTask

VARIABLES
    loong,  \* the build: LoongArch, or else RISC-V
    xt,     \* per task: where it is, what it refers to
    space,  \* address spaces: contents, break and attached segments
    files,  \* descriptor tables: the close-on-exec descriptors
    actions    \* signal actions: the file whose handler is installed

xVars == <<loong, xt, space, files, actions>>

NoFile == <<>>
NewTask == [at |-> "none", grp |-> NoTask, mem |-> NoTask, fdt |-> NoTask, act |-> NoTask,
            prog |-> NoFile, exe |-> NoFile, sp |-> 0, pc |-> 0, robust |-> NoFile,
            path |-> NoFile, argv |-> <<>>, envp |-> <<>>, err |-> "none",
            new |-> [prog |-> NoFile]]
NewSpace == [m |-> <<>>, prog |-> NoFile, brk |-> NoFile, shm |-> {}]

Live(t) == xt[t].at \notin {"none", "dead"}
InProgram(t) == xt[t].at = "user"
Peers(t) == {u \in XTasks : u # t /\ Live(u) /\ xt[u].grp = xt[t].grp}
X(t, new) == xt' = [xt EXCEPT ![t] = new]

\* The first task, if it is there yet, runs XFirstFile with itself as its only
\* argument.
ExecInit(arch, born) ==
    /\ loong = arch
    /\ \E image \in {Build(Executables, arch, XFirstFile, <<>>, <<>>)} :
        /\ xt = [t \in XTasks |->
                   IF t \notin born THEN NewTask
                   ELSE [NewTask EXCEPT !.at = "user", !.grp = t, !.mem = t, !.fdt = t, !.act = t,
                                        !.prog = XFirstFile, !.exe = XFirstFile, !.sp = image.sp,
                                        !.pc = image.pc, !.path = XFirstFile]]
        /\ space = [t \in XTasks |->
                      IF t \notin born THEN NewSpace
                      ELSE [NewSpace EXCEPT !.m = image.m, !.prog = XFirstFile, !.brk = XFirstFile]]
    /\ files = [t \in XTasks |-> {}]
    /\ actions = [t \in XTasks |-> NoFile]

-----------------------------------------------------------------------------
(* What a program does that its successor must not inherit *)

OpenCloexec(t) ==
    /\ InProgram(t)
    /\ files' = [files EXCEPT ![xt[t].fdt] = @ \cup {xt[t].prog}]
    /\ UNCHANGED <<loong, xt, space, actions>>

Catch(t) ==
    /\ InProgram(t)
    /\ actions' = [actions EXCEPT ![xt[t].act] = xt[t].prog]
    /\ UNCHANGED <<loong, xt, space, files>>

\* set_robust_list(), brk() and shmat()
UseMemory(t) ==
    /\ InProgram(t)
    /\ X(t, [xt[t] EXCEPT !.robust = xt[t].prog])
    /\ space' = [space EXCEPT ![xt[t].mem].brk = xt[t].prog, ![xt[t].mem].shm = {xt[t].prog}]
    /\ UNCHANGED <<loong, files, actions>>

-----------------------------------------------------------------------------
(* clone() *)

ShareVm_Vfork(flags) == "VM" \in flags

\* A vfork child gets its own copy, "so execve cannot replace the parent's
\* shared MemorySet".
ShareVm(flags) == "VM" \in flags /\ "VFORK" \notin flags

Allowed(flags) ==
    /\ "SIGHAND" \in flags => "VM" \in flags
    /\ "THREAD" \in flags => "SIGHAND" \in flags

\* sys_clone().  A child that shares nothing gets copies under its own name.
CloneTask(t, u, flags) ==
    /\ InProgram(t) /\ xt[u].at = "none" /\ Allowed(flags)
    /\ LET own(shares, old) == IF shares THEN old ELSE u
           mem == own(ShareVm(flags), xt[t].mem)
           fdt == own("FILES" \in flags, xt[t].fdt)
           act == own("SIGHAND" \in flags, xt[t].act)
       IN /\ X(u, [xt[t] EXCEPT !.grp = own("THREAD" \in flags, xt[t].grp),
                                !.mem = mem, !.fdt = fdt, !.act = act, !.robust = NoFile])
          /\ space' = [space EXCEPT ![mem] = space[xt[t].mem]]
          /\ files' = [files EXCEPT ![fdt] = files[xt[t].fdt]]
          /\ actions' = [actions EXCEPT ![act] = actions[xt[t].act]]
    /\ UNCHANGED loong

-----------------------------------------------------------------------------
(* execve() *)

ExecReturn(t, e) == X(t, [xt[t] EXCEPT !.at = "user", !.err = e, !.new = [prog |-> NoFile]])

\* Read the vectors from the caller's memory, then open, parse and build.
\* /proc/self/exe stands for the caller's own file; frames may run out.
ExecBuild(t, path0, argvec, envvec) ==
    /\ InProgram(t)
    /\ \E path \in {IF path0 = <<>> THEN xt[t].exe ELSE path0},
          argv \in {ReadVector(argvec)}, envp \in {ReadVector(envvec)} :
         \/ IsErr(argv) /\ ExecReturn(t, argv.err)
         \/ ~IsErr(argv) /\ IsErr(envp) /\ ExecReturn(t, envp.err)
         \/ /\ ~IsErr(argv) /\ ~IsErr(envp)
            /\ \E image \in {Build(Executables, loong, path, argv.val, envp.val)} :
                 \/ IsErr(image) /\ ExecReturn(t, image.err)
                 \/ ~IsErr(image) /\ ExecReturn(t, "ENOMEM")
                 \/ /\ ~IsErr(image)
                    /\ X(t, [xt[t] EXCEPT !.at = "peers", !.new = image, !.path = path,
                                          !.argv = argvec, !.envp = envvec])
    /\ UNCHANGED <<loong, space, files, actions>>

\* terminate_thread_group_peers_for_exec()
ExecPeers(t) ==
    /\ xt[t].at = "peers"
    /\ xt' = [u \in XTasks |-> CASE u = t -> [xt[t] EXCEPT !.at = "shm"]
                                 [] u \in Peers(t) -> [xt[u] EXCEPT !.at = "dead"]
                                 [] OTHER -> xt[u]]
    /\ UNCHANGED <<loong, space, files, actions>>

\* detach_task_shared_memory()
ExecDetach(t) ==
    /\ xt[t].at = "shm"
    /\ X(t, [xt[t] EXCEPT !.at = "signals"])
    /\ space' = [space EXCEPT ![xt[t].mem].shm = {}]
    /\ UNCHANGED <<loong, files, actions>>

\* reset_signal_handlers_for_exec()
ExecActions(t) ==
    /\ xt[t].at = "signals"
    /\ X(t, [xt[t] EXCEPT !.at = "files"])
    /\ actions' = [actions EXCEPT ![xt[t].act] = NoFile]
    /\ UNCHANGED <<loong, space, files>>

\* exec_path, the robust list and close_on_exec(), under the task's lock
ExecFiles(t) ==
    /\ xt[t].at = "files"
    /\ X(t, [xt[t] EXCEPT !.at = "break", !.exe = xt[t].new.prog, !.robust = NoFile])
    /\ files' = [files EXCEPT ![xt[t].fdt] = {}]
    /\ UNCHANGED <<loong, space, actions>>

ExecBreak(t) ==
    /\ xt[t].at = "break"
    /\ X(t, [xt[t] EXCEPT !.at = "memory"])
    /\ space' = [space EXCEPT ![xt[t].mem].brk = xt[t].new.prog]
    /\ UNCHANGED <<loong, files, actions>>

\* The old space is dropped where it is and the registers are reset.
ExecReplace(t) ==
    /\ xt[t].at = "memory"
    /\ X(t, [xt[t] EXCEPT !.at = "user", !.err = "none", !.prog = xt[t].new.prog,
                          !.sp = xt[t].new.sp, !.pc = xt[t].new.pc, !.new = [prog |-> NoFile]])
    /\ space' = [space EXCEPT ![xt[t].mem].m = xt[t].new.m, ![xt[t].mem].prog = xt[t].new.prog]
    /\ UNCHANGED <<loong, files, actions>>

ExecStep(t) ==
    ExecPeers(t) \/ ExecDetach(t) \/ ExecActions(t) \/ ExecFiles(t) \/ ExecBreak(t) \/ ExecReplace(t)

-----------------------------------------------------------------------------
(* Properties *)

Readers == {t \in XTasks : InProgram(t)}
Memory(t) == space[xt[t].mem].m

\* The types; a stack pointer is aligned for two words and inside the stack
\* (setup_user_stack() "16 字节").
ExecTypeOK ==
    \A t \in XTasks :
        /\ xt[t].at \in {"none", "user", "peers", "shm", "signals", "files", "break", "memory", "dead"}
        /\ xt[t].err \in {"none", "EFAULT", "E2BIG", "ENOENT", "ENOEXEC", "EINVAL", "ENOMEM"}
        /\ Live(t) => /\ xt[t].sp \in (StackTop - StackSize)..(StackTop - 1)
                      /\ xt[t].sp % (2 * Word) = 0

\* What a program finds at the address in its stack pointer, read as its start
\* code reads it.
StringAt(m, p) ==
    LET end == Min({x \in p..(StackTop - 1) : m[x] = 0}) IN [i \in 1..(end - p) |-> m[p + i - 1]]
WordsFrom(m, a) ==
    LET ends == {x \in a..(StackTop - 1) : (x - a) % Word = 0 /\ m[x] = 0}
    IN [i \in 1..((Min(ends) - a) \div Word) |-> m[a + (i - 1) * Word]]
Argv(t) ==
    LET ptrs == WordsFrom(Memory(t), xt[t].sp + Word) IN
    [i \in DOMAIN ptrs |-> StringAt(Memory(t), ptrs[i])]
Envp(t) ==
    LET ptrs == WordsFrom(Memory(t), xt[t].sp + Word * (2 + Len(Argv(t)))) IN
    [i \in DOMAIN ptrs |-> StringAt(Memory(t), ptrs[i])]
Auxv(t, key) ==
    LET a == xt[t].sp + Word * (3 + Len(Argv(t)) + Len(Envp(t)))
        n == CHOOSE i \in 0..20 : Memory(t)[a + 2 * Word * i] = key
    IN Memory(t)[a + 2 * Word * n + Word]

\* The strings of a caller's vector, or what stands for an empty one.
Given(v, default) ==
    LET strs == SelectSeq(v, LAMBDA e : e.k = "str") IN
    IF strs = <<>> THEN default ELSE [i \in DOMAIN strs |-> strs[i].s]

\* A new program finds every argument and every environment string the caller
\* passed to execve(), in order and unchanged; a script's interpreter finds them
\* behind its own path, its argument and the script's path.  Nothing is cut off
\* ("without silently dropping a trailing argument", process.rs).
ArgsArrive ==
    \A t \in Readers :
        LET given == Given(xt[t].argv, <<xt[t].path>>)
            file == Executables[xt[t].path]
        IN /\ Memory(t)[xt[t].sp] = Len(Argv(t))
           /\ Envp(t) = Given(xt[t].envp, DefaultEnv)
           /\ IF file.kind = "elf" THEN Argv(t) = given
              ELSE \E sh \in {<<>>, <<ShArg>>} :
                      Argv(t) = <<xt[t].prog>> \o sh \o file.arg \o <<xt[t].path>> \o Tail(given)
           /\ StringAt(Memory(t), Auxv(t, AT_EXECFN)) = Head(Argv(t))
           /\ StringAt(Memory(t), Auxv(t, AT_PLATFORM)) = Platform

\* The byte of the file that the program's address a stands for.
ByteAt(elf, a) ==
    LET s == CHOOSE x \in Loads(elf) : x.vaddr <= a /\ a < x.vaddr + x.memsz IN
    IF a - s.vaddr < s.filesz THEN elf.data[s.off + a - s.vaddr + 1] ELSE 0
Placed(m, elf, bias) ==
    \A s \in Loads(elf) : \A a \in s.vaddr..(s.vaddr + s.memsz - 1) : m[a + bias] = ByteAt(elf, a)

\* Every segment of the program, and of its interpreter, is at its place with
\* the file's bytes and zeros behind them; control starts at the interpreter's
\* entry or the program's, and AT_ENTRY and AT_PHDR lead to the program's entry
\* and headers (load_segments_into(), choose_interpreter_bias()).
ImageExact ==
    \A t \in Readers :
        LET elf == Executables[xt[t].prog]
            base == Auxv(t, AT_BASE)
            ld == Executables[Interpreter(Executables, elf.interp).path]
        IN /\ Placed(Memory(t), elf, Bias(elf))
           /\ Memory(t)[Auxv(t, AT_ENTRY)] = ByteAt(elf, elf.entry)
           /\ Memory(t)[Auxv(t, AT_PHDR)] = elf.data[elf.phoff + 1]
           /\ IF base = 0 THEN xt[t].pc = Auxv(t, AT_ENTRY)
              ELSE Placed(Memory(t), ld, base) /\ xt[t].pc = ld.entry + base

\* A task in user mode runs in an address space that holds its own program and
\* its own break, whatever the other tasks execute: "execve cannot replace the
\* parent's shared MemorySet" (sys_clone()), and peers are gone before the memory
\* is replaced.
RunsItsImage ==
    \A t \in Readers : /\ xt[t].exe = xt[t].prog
                       /\ space[xt[t].mem].prog = xt[t].prog
                       /\ space[xt[t].mem].brk = xt[t].prog

\* Nothing of an earlier program is left to a new one: no handler's address, no
\* close-on-exec descriptor, no robust list and no attached segment
\* (reset_signal_handlers_for_exec(), close_on_exec(), sys_execve()).
NothingInherited ==
    \A t \in Readers :
        /\ actions[xt[t].act] \in {NoFile, xt[t].prog}
        /\ files[xt[t].fdt] \subseteq {xt[t].prog}
        /\ xt[t].robust \in {NoFile, xt[t].prog}
        /\ space[xt[t].mem].shm \subseteq {xt[t].prog}

\* Together: a program finds its own segments, arguments and environment in the
\* memory it runs in (sys_execve() up to the new user context).
ProgramsStart == ExecTypeOK /\ ImageExact /\ ArgsArrive

\* Together: no task runs in the image of another program or with what another
\* program left (sys_clone(), sys_execve()).
ProgramsApart == RunsItsImage /\ NothingInherited

=============================================================================
