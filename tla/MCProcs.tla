------------------------------- MODULE MCProcs -------------------------------
(***************************************************************************)
(* Processes: threads and their ends (TaskExit), futexes (Futex), children *)
(* and those who wait for them (ChildWait), signals (Signals), what clone  *)
(* shares and exec replaces (CloneExec).  A behaviour exercises one family *)
(* of calls, `fam', with `calls' of them still to make; the components the *)
(* family does not touch keep their initial state.  In the family "exit",  *)
(* which makes any number of calls, the CPUs of `on' run: one, or all of   *)
(* them but without job control, exec and clone.                           *)
(***************************************************************************)
EXTENDS TaskExit, Futex, ChildWait, Signals, CloneExec, TLC

CONSTANTS a1, a2, a3, b1, ga, gb, Shell

VARIABLES fam, calls, on

OfFutex == {"lock", "timed", "cond", "join"}
OfChildren == {"waits", "orphans", "vfork", "jobs"}
OfSignals == {"suspend", "handlers", "sigwait", "actions", "stops"}
OfExec == {"image", "sharing"}
Families ==
    [exit |-> 0, lock |-> 3, timed |-> 2, cond |-> 2, join |-> 3,
     waits |-> 4, orphans |-> 5, vfork |-> 5, jobs |-> 4,
     suspend |-> 3, handlers |-> 4, sigwait |-> 3, actions |-> 3, stops |-> 4,
     image |-> 1, sharing |-> 3]

-----------------------------------------------------------------------------
(* A process with two threads, a third that may be cloned, and another     *)
(* process that kills, stops and continues it.                             *)

MCTasks == {a1, a2, a3, b1}
MCGroups == {ga, gb}
MCGroupOf == a1 :> ga @@ a2 :> ga @@ a3 :> ga @@ b1 :> gb
MCFirstTasks == {a1, a2, b1}

ExitsNext ==
    \/ \E c \in on : Tick(c) \/ Kernel(c)
    \/ \E c \in on :
          IF on # Cpus THEN Program(c)
          ELSE Block(c) \/ Exit(c) \/ ExitGroup(c) \/ \E g \in Groups : Kill(c, g)
    \/ \E c \in on, t \in Tasks : Dispatch(c, t)
    \/ \E t \in Tasks : Wake(t)

-----------------------------------------------------------------------------
(* Futexes: three threads, a lock one of them holds at the start or a      *)
(* condition two of them wait for.                                         *)

FutexInit == FutexInitWith(IF fam \in {"lock", "timed"} THEN {Joinee} ELSE {},
                           IF fam = "cond" THEN FxTasks \ {Joinee} ELSE {})

FutexesCall(t) ==
    \/ fam = "lock" /\ IF t = Joinee THEN ExitThread(t) ELSE WantLock(t, FALSE)
    \/ fam = "cond" /\ WantLock(t, FALSE)
    \/ fam = "timed" /\ WantLock(t, TRUE)
    \/ fam \in {"timed", "join"} /\ \E e \in ftimers : FutexTimeout(e)
    \/ fam = "cond" /\ (ReleaseLock(t, "cond") \/ Broadcast(t))
    \/ fam = "join" /\ ExitThread(t)
    \/ fam \in {"timed", "join"} /\ FutexSignal(t)
    \/ fam = "join" /\ \E timed \in BOOLEAN : Join(t, timed)

-----------------------------------------------------------------------------
(* Children: the reaper, a shell and two more processes.                   *)

AnyExit(p) == WaitCall(p, NoProc, {"Exited"}, TRUE, FALSE)
Wait4(p) == AnyExit(p) \/ \E k \in Kids(p) : WaitCall(p, k, {"Exited"}, TRUE, FALSE)

ChildrenCall(p) ==
    \/ ExitCall(p)
    \/ fam = "waits" /\ (Wait4(p) \/ CatchChild(p))
    \/ fam = "orphans" /\ (AnyExit(p) \/ (p # Reaper /\ \E k \in Procs : Fork(p, k, FALSE)))
    \/ fam = "vfork" /\ Execve(p)
    \/ fam = "jobs" /\ p # Shell /\ \E k \in Procs : StopChild(p, k) \/ Continue(p, k)
    \/ /\ p = Shell
       /\ \/ fam = "vfork" /\ Wait4(p)
          \/ fam # "orphans" /\ \E k \in Procs : Fork(p, k, fam = "vfork")
          \/ /\ fam = "jobs"
             /\ \E want \in {{"Stopped"}, {"Continued", "Exited"}}, hang, keep \in BOOLEAN :
                    WaitCall(p, NoProc, want, hang, keep)

-----------------------------------------------------------------------------
(* Signals: two threads; 1 and 2 are caught, 3 stops, 4 cannot be blocked, *)
(* 5 is ignored by default.                                                *)

Fn(m) == [Default EXCEPT !.h = "fn", !.mask = m]
MCActs == [s \in Sigs |-> CASE s = 1 -> Fn({}) [] s = 2 -> Fn({1}) [] OTHER -> Default]

SignalsCall(t) ==
    LET send(S) == \E u \in SgThreads, s \in S : SendSignal(t, u, s) IN
    \/ /\ fam = "suspend"
       /\ \/ send({1, 2}) \/ SigProcMask(t, "block", {1, 2}) \/ SuspendCall(t, {})
          \/ 1 \in sg[t].blocked /\ SuspendCall(t, {1, 4})
    \/ /\ fam = "handlers"
       /\ \/ \E s \in {1, 2, 4} : SendSignal(t, t, s)
          \/ SigReturn(t, {2, 4})
          \/ \E how \in {"block", "unblock", "set"} : SigProcMask(t, how, {1, 4})
    \/ /\ fam = "sigwait"
       /\ \/ send({1, 2}) \/ SigProcMask(t, "block", {1})
          \/ \E timed \in BOOLEAN : TimedWaitCall(t, {1}, timed)
    \/ /\ fam = "actions"
       /\ \/ send({1, 3})
          \/ \E s \in {1, 3, 4}, a \in {Default, [Default EXCEPT !.h = "ign"],
                                        [Fn({1, 4}) EXCEPT !.reset = TRUE, !.nodefer = TRUE]} :
                SigAction(t, s, a)
    \/ /\ fam = "stops"
       /\ \/ send({3, 4, 5}) \/ ExecSignals(t) \/ ContinueAll
          \/ SigProcMask(t, "block", {3, 5}) \/ SigProcMask(t, "set", {})

-----------------------------------------------------------------------------
(* Exec: the programs of a small file system, with segments that share no  *)
(* page, and vectors on both sides of the limits.  <<3, 1>> is a dynamic   *)
(* program that its interpreter, found under /lib, is placed behind;       *)
(* <<3, 2>> is one it is placed around; <<3, 7>> leaves no room for it and *)
(* <<3, 8>> needs none on LoongArch.  <<3, 6>> is a script run by a script.*)

Elf(type, interp, segs, data, entry, phdr, dyn) ==
    [kind |-> "elf", type |-> type, interp |-> interp, data |-> data, entry |-> entry,
     phoff |-> 1, phdr |-> phdr, dyn |-> dyn,
     segs |-> [i \in DOMAIN segs |-> [vaddr |-> segs[i][1], off |-> segs[i][2],
                                      filesz |-> segs[i][3], memsz |-> segs[i][4]]]]
Script(interp, arg) == [kind |-> "script", interp |-> interp, arg |-> arg]

MCLibcSo == <<2, 8>>
MCBinSh == <<3, 11>>
MCBinBusybox == <<3, 12>>
MCBusybox == <<4>>
MCShArg == <<12>>
MCPlatform == <<13>>
MCRandom == <<14, 15>>
MCDefaultEnv == <<<<5, 5>>, <<6>>>>
MCFirstFile == <<3, 3>>

Ld == <<1, 7>>
MCExecutables ==
    <<3, 1>> :> Elf("dyn", Ld, <<<<0, 0, 5, 5>>, <<9, 5, 2, 6>>>>, <<11, 12, 13, 14, 15, 16, 17>>,
                    2, 0, <<"needed", "null">>)
 @@ <<3, 2>> :> Elf("exec", Ld, <<<<8, 0, 6, 6>>, <<16, 6, 1, 4>>>>, <<31, 32, 33, 34, 35, 36, 37>>,
                    9, 9, <<"other", "relocs">>)
 @@ <<3, 3>> :> Elf("exec", <<>>, <<<<24, 0, 3, 9>>>>, <<41, 42, 43>>, 25, 0, <<>>)
 @@ <<3, 4>> :> Script(MCBinSh, <<>>)
 @@ <<3, 5>> :> Script(<<3, 2>>, <<<<6>>>>)
 @@ <<3, 6>> :> Script(<<3, 4>>, <<>>)
 @@ <<3, 7>> :> Elf("dyn", Ld, <<<<0, 0, 3, 40>>>>, <<51, 52, 53>>, 1, 0, <<"needed">>)
 @@ <<3, 8>> :> Elf("dyn", Ld, <<<<0, 0, 3, 6>>>>, <<61, 62, 63>>, 2, 0, <<"other", "null">>)
 @@ <<3, 9>> :> [kind |-> "data"]
 @@ <<2, 7>> :> Elf("dyn", <<>>, <<<<0, 0, 4, 10>>>>, <<21, 22, 23, 24>>, 1, 0, <<"null">>)
 @@ MCBusybox :> Elf("exec", <<>>, <<<<32, 0, 4, 4>>>>, <<71, 72, 73, 74>>, 33, 0, <<>>)

Vector(strs, last) ==
    [i \in 1..(Len(strs) + 1) |->
        IF i > Len(strs) THEN [k |-> last, s |-> <<>>] ELSE [k |-> "str", s |-> strs[i]]]
Argvs == {<<>>, Vector(<<<<1>>>>, "fault")}
    \cup {Vector(strs, "end") : strs \in
            {<<>>, <<<<7, 8>>>>, <<<<7>>, <<8>>>>, <<<<1>>, <<2>>, <<3>>, <<4>>>>,
             <<<<1>>, <<2>>, <<3>>, <<4>>, <<5>>, <<6>>>>,
             <<<<1, 2, 3, 4, 5, 6, 7>>>>, <<<<1, 2, 3, 4, 5, 6, 7, 8, 9, 1, 2, 3>>>>}}
Envps == {<<>>, Vector(<<<<9, 9>>>>, "end"), Vector(<<>>, "fault")}

Execs ==
    [image |-> [path : DOMAIN Executables \cup {<<>>, <<3, 10>>}, argv : Argvs, envp : Envps],
     sharing |-> [path : {<<3, 3>>, <<3, 4>>}, argv : {<<>>}, envp : {<<>>}]]

ExecsCall(t) ==
    \/ \E x \in Execs[fam] : ExecBuild(t, x.path, x.argv, x.envp)
    \/ /\ fam = "sharing"
       /\ \/ OpenCloexec(t) \/ Catch(t) \/ UseMemory(t)
          \/ \E u \in XTasks, flags \in {{}, {"VM", "VFORK"}, {"VM", "SIGHAND", "THREAD", "FILES"}} :
                CloneTask(t, u, flags)

-----------------------------------------------------------------------------

ProcsInit ==
    /\ fam \in DOMAIN Families /\ calls = Families[fam]
    /\ on \in IF fam = "exit" THEN {Cpus} \cup {{c} : c \in Cpus} ELSE {{}}
    /\ Init /\ FutexInit /\ ChildInit(Shell) /\ SigInit(MCActs)
    /\ fam # "exit" => members[ga] = <<a1, a2>>
    /\ \E arch \in BOOLEAN : /\ fam \in OfExec \/ ~arch
                             /\ ExecInit(arch, IF fam \in OfExec THEN {XFirst} ELSE {})

OneCall == calls > 0 /\ calls' = calls - 1

ProcsNext ==
    /\ UNCHANGED <<fam, on>>
    /\ \/ /\ fam = "exit" /\ ExitsNext
          /\ UNCHANGED <<fxVars, cwVars, sgVars, xVars, calls>>
       \/ /\ fam \in OfFutex
          /\ \E t \in FxTasks : \/ FutexStep(t) /\ UNCHANGED calls
                                \/ OneCall /\ FutexesCall(t)
          /\ UNCHANGED <<vars, cwVars, sgVars, xVars>>
       \/ /\ fam \in OfChildren
          /\ \E p \in Procs : \/ ChildStep(p) /\ UNCHANGED calls
                              \/ OneCall /\ ChildrenCall(p)
          /\ UNCHANGED <<vars, fxVars, sgVars, xVars>>
       \/ /\ fam \in OfSignals
          /\ \E t \in SgThreads : \/ SigStep(t) /\ UNCHANGED calls
                                  \/ OneCall /\ SignalsCall(t)
          /\ UNCHANGED <<vars, fxVars, cwVars, xVars>>
       \/ /\ fam \in OfExec
          /\ \E t \in XTasks : \/ ExecStep(t) /\ UNCHANGED calls
                               \/ OneCall /\ ExecsCall(t)
          /\ UNCHANGED <<vars, fxVars, cwVars, sgVars>>

ProcsSpec == ProcsInit /\ [][ProcsNext]_<<vars, fxVars, cwVars, sgVars, xVars, fam, calls, on>>

ProcsSymmetry == Permutations(Cpus)

=============================================================================
