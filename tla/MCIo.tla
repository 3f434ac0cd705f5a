-------------------------------- MODULE MCIo --------------------------------
(***************************************************************************)
(* The descriptor layer: the table of descriptors (FdTable), pipes,        *)
(* eventfds and epoll (Pipes) and sockets (Sockets).  A behaviour          *)
(* exercises one family of calls, `fam', with `left' calls still to make;  *)
(* the components the family does not touch keep their initial state.      *)
(***************************************************************************)
EXTENDS FdTable, Pipes, Sockets, TLC

CONSTANTS t1, t2, t3, A, B, pipe1, pipe2, ev, n1

VARIABLES fam, left

Families == [pipe |-> 4, event |-> 3, poll |-> 3, epoll |-> 3, splice |-> 3,
             pair |-> 3, serve |-> 4, bind |-> 3, slots |-> 0]
OfPipes == {"pipe", "event", "poll", "epoll", "splice"}
OfSockets == {"pair", "serve", "bind"}

-----------------------------------------------------------------------------
(* pipes and eventfds: two threads of one process, one of another          *)

MCIoProcOf == t1 :> A @@ t2 :> A @@ t3 :> B
D(e, o) == [end |-> e, obj |-> o]
MCBootFds ==
    A :> (0 :> D("r", pipe1) @@ 1 :> D("w", pipe1) @@ 2 :> D("e", ev) @@ 3 :> D("r", pipe2)) @@
    B :> (0 :> D("r", pipe1) @@ 1 :> D("w", pipe2) @@ 2 :> D("e", ev) @@ 3 :> NoFd)
W(fd, r, w) == [fd |-> fd, rd |-> r, wr |-> w]
MCPollSets == {{W(0, TRUE, FALSE)}, {W(1, FALSE, TRUE)},
               {W(2, TRUE, FALSE), W(0, TRUE, FALSE)}}
Touched == [pipe |-> {0, 1}, event |-> {2}, poll |-> {0, 1, 2}, epoll |-> {0, 1}, splice |-> {0, 1, 3}]

PipesCall(t) ==
    LET is(fd, ends) == Mine(t)[fd] # NoFd /\ Mine(t)[fd].end \in ends
    IN  \/ \E fd \in Touched[fam], n \in IF fam = "poll" THEN {2} ELSE Counts :
             \/ is(fd, {"r", "e"}) /\ ReadCall(t, fd, n)
             \/ is(fd, {"w", "e"}) /\ WriteCall(t, fd, n)
        \/ \E fd \in Touched[fam] : PipeClose(t, fd)
        \/ fam = "pipe" /\ \E fd \in {0, 1} : PipeDup(t, fd, 3)
        \/ fam = "poll" /\ \E req \in PollSets : PollCall(t, req) \/ SelectCall(t, req)
        \/ /\ fam = "epoll"
           /\ \/ EpollCall(t) \/ CtlDel(t, 0) \/ CtlMod(t, 0, FALSE, FALSE)
              \/ CtlAdd(t, 0, TRUE, FALSE) \/ CtlAdd(t, 1, FALSE, TRUE)
        \/ fam = "splice" /\ \E fd \in {0, 3}, n \in Counts : SpliceCall(t, fd, 1, n)

-----------------------------------------------------------------------------
(* sockets: a connected pair, a listener and a client, two unbound sockets *)

Absent == [NewSocket("stream") EXCEPT !.st = "none"]
Sk(k, c, peer) == [NewSocket(k) EXCEPT !.connected = c, !.peer = peer]
Booted(one, two, b) ==
    [sock |-> [s \in SockIds |-> CASE s = 1 -> one [] s = 2 -> two [] OTHER -> Absent],
     sfd |-> [fd \in SockFds |-> CASE fd = 0 -> 1 [] fd = 1 -> 2 [] OTHER -> NoSock],
     binds |-> b]
Pair(k) == Booted(Sk(k, TRUE, 2), Sk(k, TRUE, 1), <<>>)
Server == Booted([Sk("stream", FALSE, NoSock) EXCEPT !.bound = n1, !.listening = TRUE],
                 Sk("stream", FALSE, NoSock),
                 <<[addr |-> n1, kind |-> "stream", s |-> 1, reuse |-> FALSE]>>)
Two == Booted(Sk("dgram", FALSE, NoSock), Sk("dgram", FALSE, NoSock), <<>>)
MCBootSocks == {Pair("stream"), Pair("seq"), Server, Two}

SocketsInit ==
    /\ SockInit
    /\ sock[1].listening <=> fam = "serve"
    /\ sock[1].connected <=> fam = "pair"

SocketsCall(t) ==
    \E fd \in SockFds :
        \/ SockClose(t, fd)
        \/ /\ fam = "pair"
           /\ \/ \E n \in 1 .. 2 : RecvCall(t, fd, n, n = 2)
              \/ \E op \in {"sendto", "write"} : SendCall(t, fd, op, 1, NoAddr)
              \/ \E r, w \in BOOLEAN : ShutdownCall(t, fd, r, w)
              \/ SockDup(t, fd)
              \/ SysSetsockopt(t, fd, FALSE, TRUE)
        \/ /\ fam = "serve"
           /\ \/ ConnectCall(t, fd, n1)
              \/ \E nb \in BOOLEAN : AcceptCall(t, fd, nb)
              \/ RecvCall(t, fd, 1, FALSE)
              \/ SendCall(t, fd, "sendto", 1, NoAddr)
              \/ SysSocket(t, "stream")
        \/ /\ fam = "bind"
           /\ \/ \E a \in Addrs : SysBind(t, fd, a)
              \/ ConnectCall(t, fd, n1)
              \/ SysSocketpair(t, "stream")
              \/ \E r \in BOOLEAN : SysSetsockopt(t, fd, r, FALSE)
              \/ SysListen(t, fd)
              \/ SendCall(t, fd, "sendto", 1, n1)
              \/ RecvCall(t, fd, 1, FALSE)

-----------------------------------------------------------------------------

IoInit ==
    /\ fam \in DOMAIN Families /\ left = Families[fam]
    /\ FdInit /\ PipeInit /\ SocketsInit

OneCall == left > 0 /\ left' = left - 1

IoNext ==
    /\ fam' = fam
    /\ \/ /\ fam \in OfPipes
          /\ \E t \in IoThreads : \/ PipeStep(t) /\ UNCHANGED left
                                  \/ OneCall /\ PipesCall(t)
          /\ UNCHANGED <<fdVars, sockVars>>
       \/ /\ fam \in OfSockets
          /\ \E t \in SkThreads : \/ SockStep(t) /\ UNCHANGED left
                                  \/ OneCall /\ SocketsCall(t)
          /\ UNCHANGED <<fdVars, pipeVars>>
       \/ /\ fam = "slots"
          /\ FdNext
          /\ UNCHANGED <<pipeVars, sockVars, left>>

IoSpec == IoInit /\ [][IoNext]_<<fdVars, pipeVars, sockVars, fam, left>>

=============================================================================
