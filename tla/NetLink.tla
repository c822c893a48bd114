------------------------------ MODULE NetLink ------------------------------
(***************************************************************************)
(* The board's TCP connection to the PC, kept by two threads of net.c that *)
(* share one descriptor, one flag and one semaphore.                       *)
(*                                                                         *)
(* net_connect_tsk finds the PC (udp.c), creates a socket, connects it,    *)
(* sets g_conn_state and posts g_sem_conn_state; then it polls the cable.  *)
(* net_recv_tsk waits for the semaphore, receives frames and runs their    *)
(* handlers.  Whichever sees a failure calls client_break_socket, which    *)
(* closes whatever g_tcp_client_fd names at that moment.                   *)
(*                                                                         *)
(* A socket is a number that is used again once it is closed.  A call of   *)
(* recv() belongs to the socket the descriptor named when it was made.     *)
(***************************************************************************)
EXTENDS Integers, FiniteSets

CONSTANTS
  Sockets,       \* kernel sockets, at least three so that one is always free
  NoSocket,
  MaxCuts        \* bound: how often the cable or the PC goes away

ASSUME NetLinkAssumption ==
  /\ Sockets \subseteq Nat /\ IsFiniteSet(Sockets) /\ Cardinality(Sockets) >= 3
  /\ NoSocket \notin Sockets
  /\ MaxCuts \in Nat

VARIABLES
  cable,          \* IFF_RUNNING of eth0
  cuts,           \* failures so far
  sock,           \* state of each socket
  fd,             \* what g_tcp_client_fd names
  g_conn_state,   \* TRUE is LINK_ON
  sem_conn,       \* g_sem_conn_state
  conn,           \* where net_connect_tsk is
  recv,           \* where net_recv_tsk is
  recv_sock,      \* the socket its recv() was called on
  overtaken       \* a connection was begun before net_recv_tsk had seen the
                  \* end of the one before

linkVars == <<cable, cuts, sock, fd, g_conn_state, sem_conn, conn, recv,
              recv_sock, overtaken>>

LinkTypeOK ==
  /\ cable \in BOOLEAN /\ cuts \in 0 .. MaxCuts
  /\ sock \in [Sockets -> {"closed", "open", "connected", "gone"}]
  /\ fd \in Sockets \cup {NoSocket}
  /\ g_conn_state \in BOOLEAN /\ sem_conn \in Nat
  /\ conn \in {"handshake", "connecting", "connected", "post", "watch",
               "break", "off"}
  /\ recv \in {"wait", "recv", "handle", "break", "off"}
  /\ recv_sock \in Sockets \cup {NoSocket} /\ overtaken \in BOOLEAN

LinkStart(n) ==
  /\ cable = TRUE /\ cuts = n
  /\ sock = [s \in Sockets |-> "closed"] /\ fd = NoSocket
  /\ g_conn_state = FALSE /\ sem_conn = 0
  /\ conn = "handshake" /\ recv = "wait" /\ recv_sock = NoSocket
  /\ overtaken = FALSE

LinkInit == LinkStart(0)

\* The program starts again.
LinkRestart ==
  /\ sock' = [s \in Sockets |-> "closed"] /\ fd' = NoSocket
  /\ g_conn_state' = FALSE /\ sem_conn' = 0
  /\ conn' = "handshake" /\ recv' = "wait" /\ recv_sock' = NoSocket
  /\ overtaken' = FALSE
  /\ UNCHANGED <<cable, cuts>>

Usable(s) == s # NoSocket /\ sock[s] = "connected"

-----------------------------------------------------------------------------
(* the network *)

CableOut ==
  /\ cable /\ cuts < MaxCuts
  /\ cable' = FALSE /\ cuts' = cuts + 1
  /\ UNCHANGED <<sock, fd, g_conn_state, sem_conn, conn, recv, recv_sock, overtaken>>

CableIn ==
  /\ ~cable /\ cable' = TRUE
  /\ UNCHANGED <<cuts, sock, fd, g_conn_state, sem_conn, conn, recv, recv_sock, overtaken>>

\* The PC closes the connection: recv() returns 0 from now on.
PcGone(s) ==
  /\ sock[s] = "connected" /\ cuts < MaxCuts
  /\ sock' = [sock EXCEPT ![s] = "gone"] /\ cuts' = cuts + 1
  /\ UNCHANGED <<cable, fd, g_conn_state, sem_conn, conn, recv, recv_sock, overtaken>>

-----------------------------------------------------------------------------
(* net_connect_tsk *)

\* The kernel gives the lowest number that is free.
FreeSockets == {s \in Sockets : sock[s] = "closed" /\ s # recv_sock}

\* The PC answers the board's broadcast, as soon as there is a way to it.
ShakehandWithPc == conn = "handshake" /\ cable

TcpClientCreateSocketAnnounced(s) ==
  /\ ShakehandWithPc
  /\ s \in FreeSockets /\ \A r \in FreeSockets : s <= r
  /\ sock' = [sock EXCEPT ![s] = "open"]
  /\ fd' = s /\ conn' = "connecting" /\ sem_conn' = sem_conn + 1
  /\ overtaken' = (overtaken \/ recv # "wait" \/ sem_conn > 0)
  /\ UNCHANGED <<cable, cuts, g_conn_state, recv, recv_sock>>

TcpClientCreateSocketOn(s) ==
  /\ ShakehandWithPc
  /\ s \in FreeSockets /\ \A r \in FreeSockets : s <= r
  /\ sock' = [sock EXCEPT ![s] = "open"]
  /\ fd' = s /\ conn' = "connecting" /\ g_conn_state' = TRUE
  /\ overtaken' = (overtaken \/ recv # "wait" \/ sem_conn > 0)
  /\ UNCHANGED <<cable, cuts, sem_conn, recv, recv_sock>>

\* The new socket replaces the number in g_tcp_client_fd; nothing closes the old
\* one here.
TcpClientCreateSocket(s) ==
  /\ ShakehandWithPc
  /\ s \in FreeSockets /\ \A r \in FreeSockets : s <= r
  /\ sock' = [sock EXCEPT ![s] = "open"]
  /\ fd' = s /\ conn' = "connecting"
  /\ overtaken' = (overtaken \/ recv # "wait" \/ sem_conn > 0)
  /\ UNCHANGED <<cable, cuts, g_conn_state, sem_conn, recv, recv_sock>>

\* connect() on any other socket fails and is repeated every millisecond.
ClientConnectServer ==
  /\ conn = "connecting" /\ cable
  /\ sock[fd] = "open"
  /\ sock' = [sock EXCEPT ![fd] = "connected"]
  /\ conn' = "connected"
  /\ UNCHANGED <<cable, cuts, fd, g_conn_state, sem_conn, recv, recv_sock, overtaken>>

LinkOn ==
  /\ conn = "connected"
  /\ g_conn_state' = TRUE /\ conn' = "post"
  /\ UNCHANGED <<cable, cuts, sock, fd, sem_conn, recv, recv_sock, overtaken>>

PostConnState ==
  /\ conn = "post"
  /\ sem_conn' = sem_conn + 1 /\ conn' = "watch"
  /\ UNCHANGED <<cable, cuts, sock, fd, g_conn_state, recv, recv_sock, overtaken>>

CheckLinkStatusCable ==
  /\ conn = "watch" /\ sock[fd] # "closed" /\ ~cable /\ conn' = "break"
  /\ UNCHANGED <<cable, cuts, sock, fd, g_conn_state, sem_conn, recv, recv_sock, overtaken>>

\* Once a second: ioctl fails on a closed descriptor, the cable is out, or
\* net_recv_tsk has cleared the flag.
CheckLinkStatus ==
  /\ conn = "watch"
  /\ \/ sock[fd] = "closed" /\ conn' = "handshake"
     \/ sock[fd] # "closed" /\ ~cable /\ conn' = "break"
     \/ sock[fd] # "closed" /\ cable /\ ~g_conn_state /\ conn' = "handshake"
  /\ UNCHANGED <<cable, cuts, sock, fd, g_conn_state, sem_conn, recv, recv_sock, overtaken>>

\* client_break_socket, first half: whoever calls it closes g_tcp_client_fd.
CloseSocket == sock' = [sock EXCEPT ![fd] = "closed"]

ConnectBreak ==
  /\ conn = "break" /\ CloseSocket /\ conn' = "off"
  /\ UNCHANGED <<cable, cuts, fd, g_conn_state, sem_conn, recv, recv_sock, overtaken>>

ConnectOff ==
  /\ conn = "off" /\ g_conn_state' = FALSE /\ conn' = "handshake"
  /\ UNCHANGED <<cable, cuts, sock, fd, sem_conn, recv, recv_sock, overtaken>>

-----------------------------------------------------------------------------
(* net_recv_tsk *)

WaitConnStateUntested ==
  /\ recv = "wait"
  /\ sem_conn' = sem_conn - 1
  /\ recv' = "recv" /\ recv_sock' = fd
  /\ UNCHANGED <<cable, cuts, sock, fd, g_conn_state, conn, overtaken>>

WaitConnState ==
  /\ recv = "wait" /\ sem_conn > 0
  /\ sem_conn' = sem_conn - 1
  /\ recv' = "recv" /\ recv_sock' = fd
  /\ UNCHANGED <<cable, cuts, sock, fd, g_conn_state, conn, overtaken>>

\* A whole frame with its body arrived; its handler starts.
ReceiveFrame ==
  /\ recv = "recv" /\ Usable(recv_sock) /\ cable
  /\ recv' = "handle"
  /\ UNCHANGED <<cable, cuts, sock, fd, g_conn_state, sem_conn, conn, recv_sock, overtaken>>

HandlerReturns ==
  /\ recv = "handle"
  /\ recv' = "recv" /\ recv_sock' = fd
  /\ UNCHANGED <<cable, cuts, sock, fd, g_conn_state, sem_conn, conn, overtaken>>

\* handle_receive_error
ReceiveError ==
  /\ recv = "recv" /\ ~Usable(recv_sock)
  /\ recv' = "break"
  /\ UNCHANGED <<cable, cuts, sock, fd, g_conn_state, sem_conn, conn, recv_sock, overtaken>>

ReceiveBreak ==
  /\ recv = "break" /\ CloseSocket /\ recv' = "off"
  /\ UNCHANGED <<cable, cuts, fd, g_conn_state, sem_conn, conn, recv_sock, overtaken>>

ReceiveOff ==
  /\ recv = "off" /\ g_conn_state' = FALSE /\ recv' = "wait"
  /\ UNCHANGED <<cable, cuts, sock, fd, sem_conn, conn, recv_sock, overtaken>>

-----------------------------------------------------------------------------
NetworkStep == CableOut \/ CableIn \/ \E s \in Sockets : PcGone(s)

ConnectStep ==
  \/ \E s \in Sockets : TcpClientCreateSocket(s)
  \/ ClientConnectServer \/ LinkOn \/ PostConnState \/ CheckLinkStatus
  \/ ConnectBreak \/ ConnectOff

\* the steps of net_recv_tsk outside a handler
ReceiveStep == WaitConnState \/ ReceiveError \/ ReceiveBreak \/ ReceiveOff

-----------------------------------------------------------------------------
(* properties *)

\* net_connect_tsk connects the socket it has just created ("创建客户端socket,
\* 并向服务器发起连接", net.c:149): nobody closes it before connect() succeeds,
\* as long as net_recv_tsk saw the end of each connection before the next began.
ConnectsItsSocket == conn = "connecting" /\ ~overtaken => sock[fd] = "open"

\* Under the same condition a connection makes one token: net_recv_tsk never
\* finds the semaphore posted by a connection that is already gone, and closes
\* the socket on which it saw the failure.
LinkAgrees ==
  ~overtaken =>
    /\ sem_conn + (IF recv = "wait" THEN 0 ELSE 1) <= 1
    /\ g_conn_state => sock[fd] # "open"
    /\ recv = "break" => fd = recv_sock

\* When the connection is lost it comes back, as often as the network allows,
\* however the two threads' reactions to the loss interleave ("创建客户端socket,
\* 并向服务器发起连接", net.c:149, for as long as the program runs).
LinkReturns == ~g_conn_state ~> g_conn_state

-----------------------------------------------------------------------------
(* the link by itself: every handler returns *)

LinkNext ==
  NetworkStep \/ ConnectStep \/ ReceiveStep \/ ReceiveFrame \/ HandlerReturns

\* The threads run, and a cable that is pulled out is put in again.
LinkFairness ==
  /\ WF_linkVars(ConnectStep) /\ WF_linkVars(ReceiveStep)
  /\ WF_linkVars(HandlerReturns) /\ WF_linkVars(CableIn)

LinkSpec == LinkInit /\ [][LinkNext]_linkVars /\ LinkFairness
=============================================================================
