------------------------------ MODULE Sockets ------------------------------
(***************************************************************************)
(* Sockets (syscall/net.rs, and the socket arms of fs/fd.rs): binding,     *)
(* listening, connecting, accepting, sending, receiving, half closes and   *)
(* the drop of the last reference.  A socket holds a number of bytes or    *)
(* packets.  Domains, ports and option values are left out; an address     *)
(* either is the wildcard or is not.                                       *)
(*                                                                         *)
(* Each step is what runs under one lock of a socket, or one wakeup.  The  *)
(* test of receive_eof() is two steps: it upgrades the weak reference to   *)
(* the peer, and drops it again, under the lock of the socket.             *)
(***************************************************************************)
EXTENDS Integers, Sequences, FiniteSets, FiniteSetsExt

CONSTANTS
    SkThreads,        \* threads of one process
    SockIds,          \* 1 .. the number of sockets ever made
    SockFds,          \* 0 .. rlimit_nofile - 1
    Addrs, AnyAddr,   \* addresses, and the wildcard among them
    QueueMax,         \* bound on the bytes or packets in a socket
    NoSock, NoAddr,
    BootSocks         \* the sockets at first: a set of [sock, sfd, binds]

VARIABLES
    sock,     \* SocketState of each socket
    sfd,      \* the descriptor table
    binds,    \* SOCKET_BINDINGS: [addr, kind, s], and the flag used, as a ghost
    sc        \* the call of each thread

sockVars == <<sock, sfd, binds, sc>>

NewSocket(kind) ==
    [st |-> "open", kind |-> kind, bound |-> NoAddr, listening |-> FALSE,
     connected |-> FALSE, shutR |-> FALSE, shutW |-> FALSE, peer |-> NoSock,
     peerW |-> FALSE, peerR |-> FALSE, n |-> 0, pending |-> <<>>, reuse |-> FALSE,
     timed |-> FALSE]

ScIdle == [pc |-> "idle", op |-> "none", s |-> NoSock, ref |-> {}, keys |-> {}, wk |-> {},
           n |-> 0, to |-> NoAddr, nb |-> FALSE]

Stream(s) == sock[s].kind = "stream"
Packets(s) == sock[s].kind \in {"dgram", "seq"}
Connecting(s) == sock[s].kind \in {"stream", "seq"}

(* The strong references to a socket: descriptors, queues of listeners and *)
(* calls under way                                                         *)
Alive(s) ==
    /\ s # NoSock /\ sock[s].st = "open"
    /\ \/ \E fd \in SockFds : sfd[fd] = s
       \/ \E t \in SkThreads : s \in sc[t].ref
       \/ \E l \in SockIds : \E i \in DOMAIN sock[l].pending : sock[l].pending[i] = s

Dead == {s \in SockIds : sock[s].st = "open" /\ ~Alive(s)}

(* a thread between the two halves of receive_eof() holds the socket's lock *)
Unlocked(s) == \A t \in SkThreads : sc[t].pc \in {"eof", "stuck"} => sc[t].s # s

FreeFds == {fd \in SockFds : sfd[fd] = NoSock}
Unmade == {s \in SockIds : sock[s].st = "none"}

(* receive_eof(), the weak reference read at this moment                   *)
PeerGone(s) == sock[s].peerW \/ ~Alive(sock[s].peer)
ReceiveEof(s) == Connecting(s) /\ sock[s].connected /\ PeerGone(s)

-----------------------------------------------------------------------------
(* control: a call holds what it looked up until it ends, and then drops it *)

ScStart(t, op, s, c) ==
    /\ sc[t].pc = "idle"
    /\ sc' = [sc EXCEPT ![t] = [c EXCEPT !.op = op, !.s = s, !.ref = {s}]]

ScEnd(t) == sc' = [sc EXCEPT ![t] = [ScIdle EXCEPT !.pc = "reap"]]
ScStep(t, pc) == sc' = [sc EXCEPT ![t].pc = pc]

(* A wakeup of the readers of wk, and of every waiter without a key        *)
SockWake(t) ==
    /\ sc[t].pc = "wake"
    /\ sc' = [u \in SkThreads |->
                IF u = t THEN [ScIdle EXCEPT !.pc = "reap"]
                ELSE IF sc[u].pc = "asleep" /\ (sc[u].keys = {} \/ sc[u].keys \cap sc[t].wk # {})
                THEN [sc[u] EXCEPT !.pc = "look"] ELSE sc[u]]
    /\ UNCHANGED <<sock, sfd, binds>>

(* SocketState::drop(): the peer, if there still is one, learns that this  *)
(* end is gone, and its readers are woken.  The queue of a listener goes   *)
(* with it.                                                                *)
Reap(t) ==
    /\ sc[t].pc = "reap"
    /\ \/ Dead = {} /\ sc' = [sc EXCEPT ![t] = ScIdle] /\ UNCHANGED sock
       \/ \E s \in Dead :
            LET p == sock[s].peer
                gone == [sock EXCEPT ![s].st = "dead", ![s].pending = <<>>]
            IN  IF Alive(p)
                THEN /\ Unlocked(p)
                     /\ sock' = [gone EXCEPT ![p].peerW = TRUE, ![p].peerR = TRUE]
                     /\ sc' = [sc EXCEPT ![t].pc = "wake", ![t].wk = {p}]
                ELSE sock' = gone /\ sc' = sc
    /\ UNCHANGED <<sfd, binds>>

-----------------------------------------------------------------------------
(* sys_socket() and sys_socketpair() *)

SysSocket(t, kind) ==
    /\ sc[t].pc = "idle" /\ FreeFds # {} /\ Unmade # {}
    /\ sock' = [sock EXCEPT ![Min(Unmade)] = NewSocket(kind)]
    /\ sfd' = [sfd EXCEPT ![Min(FreeFds)] = Min(Unmade)]
    /\ UNCHANGED <<binds, sc>>

(* Without room for the second descriptor the first one is taken back      *)
SysSocketpair(t, kind) ==
    LET l == Min(Unmade)
        r == Min(Unmade \ {l})
        end(p) == [NewSocket(kind) EXCEPT !.connected = TRUE, !.peer = p]
    IN  /\ sc[t].pc = "idle" /\ Cardinality(Unmade) >= 2
        /\ IF Cardinality(FreeFds) >= 2
           THEN LET f == Min(FreeFds)
                IN  /\ sock' = [sock EXCEPT ![l] = end(r), ![r] = end(l)]
                    /\ sfd' = [sfd EXCEPT ![f] = l, ![Min(FreeFds \ {f})] = r]
           ELSE /\ sock' = [sock EXCEPT ![l].st = "dead", ![r].st = "dead"]
                /\ UNCHANGED sfd
        /\ UNCHANGED <<binds, sc>>

(* closing a descriptor wakes the waiters without a key, and then drops    *)
(* the reference                                                           *)
SockClose(t, fd) ==
    /\ sfd[fd] # NoSock
    /\ ScStart(t, "close", sfd[fd], [ScIdle EXCEPT !.pc = "wake"])
    /\ sfd' = [sfd EXCEPT ![fd] = NoSock]
    /\ UNCHANGED <<sock, binds>>

(* dup(): another reference to the same socket                             *)
SockDup(t, fd) ==
    /\ sc[t].pc = "idle" /\ sfd[fd] # NoSock /\ FreeFds # {}
    /\ sfd' = [sfd EXCEPT ![Min(FreeFds)] = sfd[fd]]
    /\ UNCHANGED <<sock, binds, sc>>

-----------------------------------------------------------------------------
(* sys_bind() and sys_listen() *)

(* sockaddr_addr_matches(): what is bound may be the wildcard              *)
AddrMatches(bound, target) == bound = AnyAddr \/ bound = target

Live(seq) == SelectSeq(seq, LAMBDA e : Alive(e.s))

(* register_bound_socket() *)
InUse(kind, a) ==
    \E i \in DOMAIN binds : /\ Alive(binds[i].s) /\ binds[i].kind = kind
                            /\ AddrMatches(binds[i].addr, a)

SysBind(t, fd, a) ==
    LET s == sfd[fd]
    IN  /\ sc[t].pc = "idle" /\ s # NoSock /\ Unlocked(s)
        /\ sock[s].bound = NoAddr /\ ~sock[s].connected
        /\ InUse(sock[s].kind, a) => sock[s].reuse
        /\ binds' = Append(Live(binds), [addr |-> a, kind |-> sock[s].kind, s |-> s,
                                         reuse |-> sock[s].reuse])
        /\ sock' = [sock EXCEPT ![s].bound = a]
        /\ UNCHANGED <<sfd, sc>>

SysListen(t, fd) ==
    LET s == sfd[fd]
    IN  /\ sc[t].pc = "idle" /\ s # NoSock /\ Unlocked(s)
        /\ Stream(s) /\ ~sock[s].connected
        /\ sock' = [sock EXCEPT ![s].listening = TRUE]
        /\ UNCHANGED <<sfd, binds, sc>>

(* sys_setsockopt(): SO_REUSEADDR and SO_RCVTIMEO                          *)
SysSetsockopt(t, fd, reuse, timed) ==
    /\ sc[t].pc = "idle" /\ sfd[fd] # NoSock /\ Unlocked(sfd[fd])
    /\ sock' = [sock EXCEPT ![sfd[fd]].reuse = reuse, ![sfd[fd]].timed = timed]
    /\ UNCHANGED <<sfd, binds, sc>>

(* find_bound_socket(): the first live entry that matches                  *)
Found(kind, a) ==
    LET hits == SelectSeq(Live(binds), LAMBDA e : e.kind = kind /\ AddrMatches(e.addr, a))
    IN  IF hits = <<>> THEN NoSock ELSE hits[1].s

-----------------------------------------------------------------------------
(* sys_connect() *)

ConnectCall(t, fd, a) ==
    /\ sfd[fd] # NoSock
    /\ ScStart(t, "connect", sfd[fd], [ScIdle EXCEPT !.pc = "look", !.to = a])
    /\ UNCHANGED <<sock, sfd, binds>>

ConnectLook(t) ==
    LET s == sc[t].s
    IN  /\ sc[t].pc = "look" /\ sc[t].op = "connect" /\ Unlocked(s)
        /\ CASE sock[s].connected -> ScEnd(t) /\ UNCHANGED sock
             [] ~sock[s].connected /\ sock[s].kind = "dgram" ->
                  ScEnd(t) /\ sock' = [sock EXCEPT ![s].connected = TRUE]
             [] OTHER -> ScStep(t, "find") /\ UNCHANGED sock
        /\ UNCHANGED <<sfd, binds>>

ConnectFind(t) ==
    LET l == Found("stream", sc[t].to)
    IN  /\ sc[t].pc = "find" /\ sc[t].op = "connect"
        /\ IF l = NoSock THEN ScEnd(t)
           ELSE sc' = [sc EXCEPT ![t].pc = "push", ![t].ref = @ \cup {l}, ![t].keys = {l}]
        /\ binds' = Live(binds)
        /\ UNCHANGED <<sock, sfd>>

(* Under the listener's lock: the accepted end is made and queued          *)
ConnectPush(t) ==
    LET l == CHOOSE x \in sc[t].keys : TRUE
        a == Min(Unmade)
    IN  /\ sc[t].pc = "push" /\ Unlocked(l) /\ Unmade # {}
        /\ IF ~sock[l].listening THEN ScEnd(t) /\ UNCHANGED sock
           ELSE /\ sock' = [sock EXCEPT
                     ![a] = [NewSocket("stream") EXCEPT !.connected = TRUE, !.peer = sc[t].s],
                     ![l].pending = Append(@, a)]
                /\ sc' = [sc EXCEPT ![t].pc = "join", ![t].ref = @ \cup {a}, ![t].keys = {a}]
        /\ UNCHANGED <<sfd, binds>>

(* Under the client's lock: it takes the accepted end as its peer, whatever *)
(* peer it has; then every waiter without a key is woken                   *)
ConnectJoin(t) ==
    LET s == sc[t].s
    IN  /\ sc[t].pc = "join" /\ Unlocked(s)
        /\ sock' = [sock EXCEPT ![s].connected = TRUE,
                                ![s].peer = CHOOSE x \in sc[t].keys : TRUE]
        /\ sc' = [sc EXCEPT ![t].pc = "wake", ![t].keys = {}]
        /\ UNCHANGED <<sfd, binds>>

-----------------------------------------------------------------------------
(* sys_accept4() *)

AcceptCall(t, fd, nb) ==
    /\ sfd[fd] # NoSock
    /\ ScStart(t, "accept", sfd[fd], [ScIdle EXCEPT !.pc = "look", !.nb = nb])
    /\ UNCHANGED <<sock, sfd, binds>>

AcceptLook_Peek(t) ==
    LET s == sc[t].s
    IN  /\ sc[t].pc = "look" /\ sc[t].op = "accept" /\ Unlocked(s)
        /\ IF sock[s].listening /\ sock[s].pending # <<>>
           THEN sc' = [sc EXCEPT ![t].pc = "take", ![t].ref = @ \cup {Head(sock[s].pending)},
                                 ![t].wk = {Head(sock[s].pending)}]
           ELSE IF ~sock[s].listening \/ sc[t].nb THEN ScEnd(t) ELSE ScStep(t, "wait")
        /\ UNCHANGED <<sock, sfd, binds>>

AcceptLook(t) ==
    LET s == sc[t].s
    IN  /\ sc[t].pc = "look" /\ sc[t].op = "accept" /\ Unlocked(s)
        /\ IF sock[s].listening /\ sock[s].pending # <<>>
           THEN /\ sock' = [sock EXCEPT ![s].pending = Tail(@)]
                /\ sc' = [sc EXCEPT ![t].pc = "take", ![t].ref = @ \cup {Head(sock[s].pending)},
                                    ![t].wk = {Head(sock[s].pending)}]
           ELSE /\ UNCHANGED sock
                /\ IF ~sock[s].listening \/ sc[t].nb THEN ScEnd(t) ELSE ScStep(t, "wait")
        /\ UNCHANGED <<sfd, binds>>

(* The connection is off the queue: a full table, or an address that       *)
(* cannot be written, drops it                                             *)
AcceptTake(t) ==
    /\ sc[t].pc = "take"
    /\ \/ /\ FreeFds # {}
          /\ sfd' = [sfd EXCEPT ![Min(FreeFds)] = CHOOSE x \in sc[t].wk : TRUE]
       \/ UNCHANGED sfd
    /\ ScEnd(t)
    /\ UNCHANGED <<sock, binds>>

(* sleep_on_io_if(): no key *)
AcceptSleep(t) ==
    /\ sc[t].pc = "wait" /\ sc[t].op = "accept" /\ Unlocked(sc[t].s)
    /\ IF sock[sc[t].s].listening /\ sock[sc[t].s].pending = <<>>
       THEN ScStep(t, "asleep") ELSE ScStep(t, "look")
    /\ UNCHANGED <<sock, sfd, binds>>

-----------------------------------------------------------------------------
(* sys_sendto(), and write() on a socket *)

SendCall(t, fd, op, n, to) ==
    /\ sfd[fd] # NoSock
    /\ ScStart(t, op, sfd[fd], [ScIdle EXCEPT !.pc = "look", !.n = n, !.to = to])
    /\ UNCHANGED <<sock, sfd, binds>>

(* Under the sender's lock: is there someone to send to                    *)
SendLook(t) ==
    LET s == sc[t].s
        dgram == sock[s].kind = "dgram" /\ sc[t].op = "sendto"
        fails == \/ sock[s].shutW
                 \/ Connecting(s) /\ ~sock[s].connected
                 \/ ~dgram /\ (sock[s].peerR \/ ~Alive(sock[s].peer))
                 \/ dgram /\ sc[t].to = NoAddr
    IN  /\ sc[t].pc = "look" /\ sc[t].op \in {"sendto", "write"} /\ Unlocked(s)
        /\ IF fails THEN ScEnd(t)
           ELSE IF dgram THEN ScStep(t, "find")
           ELSE sc' = [sc EXCEPT ![t].pc = "put", ![t].wk = {sock[s].peer},
                                 ![t].ref = @ \cup {sock[s].peer}]
        /\ UNCHANGED <<sock, sfd, binds>>

SendFind(t) ==
    LET p == Found("dgram", sc[t].to)
    IN  /\ sc[t].pc = "find" /\ sc[t].op = "sendto"
        /\ IF p = NoSock THEN ScEnd(t)
           ELSE sc' = [sc EXCEPT ![t].pc = "put", ![t].wk = {p}, ![t].ref = @ \cup {p}]
        /\ binds' = Live(binds)
        /\ UNCHANGED <<sock, sfd>>

SendPut_Quiet(t) ==
    LET p == CHOOSE x \in sc[t].wk : TRUE
    IN  /\ sc[t].pc = "put" /\ Unlocked(p) /\ sock[p].n < QueueMax
        /\ sock' = [sock EXCEPT ![p].n = @ + 1]
        /\ ScEnd(t)
        /\ UNCHANGED <<sfd, binds>>

(* Under the receiver's lock; only write() looks whether it still reads    *)
SendPut(t) ==
    LET p == CHOOSE x \in sc[t].wk : TRUE
        k == IF Packets(p) THEN 1 ELSE sc[t].n
    IN  /\ sc[t].pc = "put" /\ Unlocked(p)
        /\ IF sc[t].op = "write" /\ sock[p].shutR THEN ScEnd(t) /\ UNCHANGED sock
           ELSE /\ sock[p].n + k <= QueueMax
                /\ sock' = [sock EXCEPT ![p].n = @ + k]
                /\ ScStep(t, "wake")
        /\ UNCHANGED <<sfd, binds>>

-----------------------------------------------------------------------------
(* sys_recvfrom() *)

RecvCall(t, fd, n, nb) ==
    /\ sfd[fd] # NoSock
    /\ ScStart(t, "recv", sfd[fd], [ScIdle EXCEPT !.pc = "look", !.n = n, !.nb = nb])
    /\ UNCHANGED <<sock, sfd, binds>>

(* what one receive takes from the queue                                   *)
Taken(s, n) == IF Packets(s) THEN 1 ELSE Min({n, sock[s].n})

RecvLook(t) ==
    LET s == sc[t].s
    IN  /\ sc[t].pc = "look" /\ sc[t].op = "recv" /\ Unlocked(s)
        /\ CASE sock[s].shutR \/ (Connecting(s) /\ ~sock[s].connected) ->
                  ScEnd(t) /\ UNCHANGED sock
             [] ~(sock[s].shutR \/ (Connecting(s) /\ ~sock[s].connected)) /\ sock[s].n > 0 ->
                  /\ sock' = [sock EXCEPT ![s].n = @ - Taken(s, sc[t].n)]
                  /\ ScEnd(t)
             [] OTHER ->
                  /\ UNCHANGED sock
                  /\ IF ReceiveEof(s) THEN ScEnd(t)
                     ELSE IF Connecting(s)
                     THEN sc' = [sc EXCEPT ![t].pc = "eof", ![t].ref = @ \cup {sock[s].peer}]
                     ELSE IF sc[t].nb THEN ScEnd(t) ELSE ScStep(t, "wait")
        /\ UNCHANGED <<sfd, binds>>

(* The upgraded reference to the peer is dropped under the lock of s.      *)
(* When it has become the last one, SocketState::drop() runs here and      *)
(* takes the lock of its own peer, which is s, for good.                   *)
RecvEof(t) ==
    LET s == sc[t].s
        p == sock[s].peer
        last == /\ \A fd \in SockFds : sfd[fd] # p
                /\ \A u \in SkThreads \ {t} : p \notin sc[u].ref
                /\ \A l \in SockIds : \A i \in DOMAIN sock[l].pending : sock[l].pending[i] # p
    IN  /\ sc[t].pc = "eof"
        /\ CASE last /\ sock[p].peer = s -> ScStep(t, "stuck")
             [] ~(last /\ sock[p].peer = s) /\ sc[t].nb -> ScEnd(t)
             [] OTHER -> sc' = [sc EXCEPT ![t].pc = "wait", ![t].ref = {s}]
        /\ UNCHANGED <<sock, sfd, binds>>

(* sleep_on_io_key_if() on the key of the socket                           *)
RecvSleep(t) ==
    LET s == sc[t].s
        blocks == /\ ~sock[s].shutR /\ sock[s].n = 0 /\ ~ReceiveEof(s)
                  /\ Stream(s) => sock[s].connected
    IN  /\ sc[t].pc = "wait" /\ sc[t].op = "recv" /\ Unlocked(s)
        /\ IF blocks THEN sc' = [sc EXCEPT ![t].pc = "asleep", ![t].keys = {s}]
           ELSE ScStep(t, "look")
        /\ UNCHANGED <<sock, sfd, binds>>

(* SO_RCVTIMEO passes, or a signal is pending                              *)
SockSleepEnds(t) ==
    /\ sc[t].pc = "asleep"
    /\ sc[t].op = "recv" => sock[sc[t].s].timed
    /\ ScEnd(t)
    /\ UNCHANGED <<sock, sfd, binds>>

-----------------------------------------------------------------------------
(* sys_shutdown() *)

ShutdownCall(t, fd, r, w) ==
    LET s == sfd[fd]
        p == sock[s].peer
    IN  /\ s # NoSock /\ Unlocked(s) /\ (r \/ w)
        /\ sock' = [sock EXCEPT ![s].shutR = @ \/ r, ![s].shutW = @ \/ w]
        /\ IF Alive(p)
           THEN ScStart(t, IF r /\ w THEN "shutRW" ELSE IF r THEN "shutR" ELSE "shutW", s,
                        [ScIdle EXCEPT !.pc = "tell"])
           ELSE ScStart(t, "none", s, [ScIdle EXCEPT !.pc = "wake"])
        /\ UNCHANGED <<sfd, binds>>

(* Under the peer's lock; the peer was upgraded before                     *)
ShutdownTell(t) ==
    LET p == sock[sc[t].s].peer
    IN  /\ sc[t].pc = "tell" /\ Unlocked(p)
        /\ sock' = [sock EXCEPT ![p].peerR = @ \/ sc[t].op \in {"shutR", "shutRW"},
                                ![p].peerW = @ \/ sc[t].op \in {"shutW", "shutRW"}]
        /\ sc' = [sc EXCEPT ![t].pc = "wake", ![t].wk = {p}]
        /\ UNCHANGED <<sfd, binds>>

-----------------------------------------------------------------------------

SockInit ==
    /\ \E b \in BootSocks : sock = b.sock /\ sfd = b.sfd /\ binds = b.binds
    /\ sc = [t \in SkThreads |-> ScIdle]

SockStep(t) ==
    \/ SockWake(t) \/ Reap(t)
    \/ ConnectLook(t) \/ ConnectFind(t) \/ ConnectPush(t) \/ ConnectJoin(t)
    \/ AcceptLook(t) \/ AcceptTake(t) \/ AcceptSleep(t)
    \/ SendLook(t) \/ SendFind(t) \/ SendPut(t)
    \/ RecvLook(t) \/ RecvEof(t) \/ RecvSleep(t) \/ SockSleepEnds(t)
    \/ ShutdownTell(t)

SockCall(t) ==
    \/ \E kind \in {"stream", "dgram", "seq"} : SysSocket(t, kind) \/ SysSocketpair(t, kind)
    \/ \E fd \in SockFds :
         \/ SockClose(t, fd) \/ SockDup(t, fd) \/ SysListen(t, fd)
         \/ \E a \in Addrs : SysBind(t, fd, a) \/ ConnectCall(t, fd, a)
         \/ \E b \in BOOLEAN : AcceptCall(t, fd, b)
         \/ \E n \in 1 .. 2, b \in BOOLEAN : RecvCall(t, fd, n, b)
         \/ \E n \in 1 .. 2, op \in {"sendto", "write"}, a \in Addrs \cup {NoAddr} :
              SendCall(t, fd, op, n, a)
         \/ \E r, w \in BOOLEAN : ShutdownCall(t, fd, r, w) \/ SysSetsockopt(t, fd, r, w)

SockNext == \E t \in SkThreads : SockStep(t) \/ SockCall(t)

SockSpec == SockInit /\ [][SockNext]_sockVars

-----------------------------------------------------------------------------

(* Every socket, descriptor and call stays in its type, and a receive never *)
(* takes more from a socket than it holds                                  *)
SockTypeOK ==
    /\ \A s \in SockIds :
         /\ sock[s].n \in 0 .. QueueMax
         /\ sock[s].peer \in SockIds \cup {NoSock}
         /\ sock[s].pending \in Seq(SockIds)
         /\ sock[s].st \in {"none", "open", "dead"}
    /\ sfd \in [SockFds -> SockIds \cup {NoSock}]
    /\ \A t \in SkThreads : sc[t].ref \subseteq SockIds

(* A connection that waits to be accepted waits in one place of one queue, *)
(* is not yet behind a descriptor or taken by another accept, and is       *)
(* connected: accept4() hands every connection to one caller               *)
QueuedOnce ==
    \A l \in SockIds : \A i \in DOMAIN sock[l].pending :
        LET a == sock[l].pending[i]
        IN  /\ sock[a].st = "open" /\ sock[a].connected
            /\ \A fd \in SockFds : sfd[fd] # a
            /\ \A t \in SkThreads : ~(sc[t].pc = "take" /\ a \in sc[t].wk)
            /\ \A m \in SockIds : \A j \in DOMAIN sock[m].pending :
                 sock[m].pending[j] = a => m = l /\ j = i

(* A thread asleep in recvfrom() or accept4() is not left behind: while    *)
(* there is something to receive, the other end is closed or a connection  *)
(* waits, some thread is still on its way to the wakeup.  (A reader put to *)
(* sleep before its own socket is shut down for reading is the exception   *)
(* in the code: only the peer's readers are woken.)                        *)
NoStrandedSocket ==
    \A t \in SkThreads :
        LET s == sc[t].s
            due == IF sc[t].op = "accept" THEN sock[s].pending # <<>>
                   ELSE sock[s].n > 0 \/ ReceiveEof(s)
        IN  sc[t].pc = "asleep" /\ due =>
              \/ Dead # {}
              \/ \E u \in SkThreads : sc[u].pc = "join"
              \/ \E u \in SkThreads : sc[u].pc = "wake" /\ (sc[t].keys = {} \/ s \in sc[u].wk)

(* A socket is told that nothing more will come only when its other end    *)
(* shut its writing half or is gone - for a socket that was connected once: *)
(* sys_connect() tests `connected' and sets it under two holds of the lock *)
EofJustified ==
    \A s \in SockIds :
        LET ends == {a \in SockIds : sock[a].peer = s}
        IN  sock[s].peerW /\ Cardinality(ends) = 1 =>
              \A a \in ends : sock[a].shutW \/ sock[a].st = "dead"

(* Of two live sockets of a kind bound to one address the later one had    *)
(* SO_REUSEADDR set when it was bound                                      *)
BindExclusive ==
    \A i, j \in DOMAIN binds :
        /\ i < j /\ binds[i].kind = binds[j].kind /\ Alive(binds[i].s)
        /\ AddrMatches(binds[i].addr, binds[j].addr)
        => binds[j].reuse

(* Together: a connection has one taker, an address one owner, and an end  *)
(* of file its reason.                                                     *)
SocketsSafe == SockTypeOK /\ QueuedOnce /\ BindExclusive /\ EofJustified

=============================================================================
