----------------------------- MODULE UdpSocket -----------------------------
(***************************************************************************)
(* The UDP socket of the Pluto layer (app/pluto/socket/udp_socket.c): the  *)
(* client of the cloud opens, closes and sends, and a thread of its own    *)
(* receives.  Both run udp_create_socket on the one variable               *)
(* udp_socket_fd, without a lock.                                          *)
(*                                                                         *)
(* The sockets of the TCP/IP stack and the client, which is in the closed  *)
(* part of the Pluto layer, are external.                                  *)
(***************************************************************************)
EXTENDS Naturals, FiniteSets

CONSTANTS
  Socket,      \* descriptors the stack hands out
  NoSocket,    \* -1
  Length,      \* lengths of datagrams
  MaxFails     \* bound: calls of socket, bind and recvfrom that fail

ASSUME UdpAssumption ==
  /\ NoSocket \notin Socket /\ Length \subseteq Nat
  /\ MaxFails \in Nat

Actor == {"client", "thread"}

VARIABLES
  udp_socket_fd,
  udp_task_init,
  pc,        \* actor -> where it is
  open,      \* the sockets the stack has open
  bound,     \* those that have the port
  resets,    \* pluto_reset_system is under way
  wanted,    \* the client has opened the socket since the chip started
  refused,   \* history: bind has failed since the chip started
  fails,     \* calls failed
  wire,      \* the length of the last datagram that left, 0: none
  result     \* what udp_socket_send returned last: "zero", "other", "none"

udpVars == <<udp_socket_fd, udp_task_init, pc, open, bound, resets, wanted, refused, fails,
             wire, result>>

UdpInit ==
  /\ udp_socket_fd = NoSocket /\ udp_task_init = FALSE
  /\ pc = [client |-> "idle", thread |-> "none"]
  /\ open = {} /\ bound = {} /\ resets = FALSE /\ wanted = FALSE
  /\ refused = FALSE
  /\ fails = 0 /\ wire = 0 /\ result = "none"

Goes(a, from, to) == pc[a] = from /\ pc' = [pc EXCEPT ![a] = to]

\* Where an actor goes on after udp_create_socket.
Back(a) == IF a = "client" THEN "idle" ELSE "test"

Fails == fails < MaxFails /\ fails' = fails + 1

---------------------------------------------------------------------------
\* The client.

\* udp_socket_init: the thread is started before there is a socket.
Open ==
  /\ pc["client"] = "idle"
  /\ pc' = [client |-> "create", thread |-> IF udp_task_init THEN pc["thread"] ELSE "test"]
  /\ udp_task_init' = TRUE /\ wanted' = TRUE
  /\ UNCHANGED <<udp_socket_fd, open, bound, resets, refused, fails, wire, result>>

\* udp_socket_send: sendto returns the length of what it sent, or -1.
Send(len) ==
  /\ pc["client"] = "idle"
  /\ \/ /\ udp_socket_fd # NoSocket
        /\ wire' = len
        /\ result' = IF len = 0 THEN "zero" ELSE "other"
     \/ /\ wire' = 0 /\ result' = "other"
  /\ UNCHANGED <<udp_socket_fd, udp_task_init, pc, open, bound, resets, wanted,
                 refused, fails>>

---------------------------------------------------------------------------
\* udp_create_socket, on either thread.

\* A socket there is kept.
CreateKeeps(a) ==
  /\ udp_socket_fd # NoSocket
  /\ Goes(a, "create", Back(a))
  /\ UNCHANGED <<udp_socket_fd, udp_task_init, open, bound, resets, wanted, refused,
                 fails, wire, result>>

CreateStarts(a) ==
  /\ udp_socket_fd = NoSocket
  /\ Goes(a, "create", "socket")
  /\ UNCHANGED <<udp_socket_fd, udp_task_init, open, bound, resets, wanted, refused,
                 fails, wire, result>>

\* socket succeeds
CreateGets(a) ==
  /\ Goes(a, "socket", "bind")
  /\ \E s \in Socket \ open : udp_socket_fd' = s /\ open' = open \cup {s}
  /\ UNCHANGED <<udp_task_init, bound, resets, wanted, refused,
                 fails, wire, result>>

\* Mutant: the chip is not started again.
CreateStays(a) ==
  /\ Fails
  /\ Goes(a, "socket", Back(a))
  /\ udp_socket_fd' = NoSocket
  /\ UNCHANGED <<udp_task_init, open, bound, resets, wanted, refused, wire, result>>

\* socket fails: pluto_reset_system(3000)
CreateResets(a) ==
  /\ Fails
  /\ Goes(a, "socket", Back(a))
  /\ udp_socket_fd' = NoSocket /\ resets' = TRUE
  /\ UNCHANGED <<udp_task_init, open, bound, wanted, refused, wire, result>>

\* Mutant: the body of udp_socket_deinit, as it stands in the comment.
DeinitClears ==
  /\ open' = open \ {udp_socket_fd} /\ bound' = bound \ {udp_socket_fd}
  /\ udp_socket_fd' = NoSocket

\* The call of udp_socket_deinit: its body is commented out.
Deinit == UNCHANGED <<udp_socket_fd, open, bound>>

CreateBinds(a) ==
  /\ Goes(a, "bind", Back(a))
  /\ \/ /\ bound' = bound \cup ({udp_socket_fd} \cap open)
        /\ UNCHANGED <<udp_socket_fd, open, fails, refused>>
     \/ Fails /\ Deinit /\ refused' = TRUE
  /\ UNCHANGED <<udp_task_init, resets, wanted, wire, result>>

---------------------------------------------------------------------------
\* udp_socket_thread_rec.  Without a socket it sleeps and looks again.

ThreadReceives ==
  /\ udp_socket_fd # NoSocket
  /\ Goes("thread", "test", "recv")
  /\ UNCHANGED <<udp_socket_fd, udp_task_init, open, bound, resets, wanted, refused,
                 fails, wire, result>>

\* A datagram, passed on to socket_udp_input.
ThreadGets ==
  /\ udp_socket_fd \in bound
  /\ Goes("thread", "recv", "test")
  /\ UNCHANGED <<udp_socket_fd, udp_task_init, open, bound, resets, wanted, refused,
                 fails, wire, result>>

\* recvfrom fails: udp_socket_deinit and udp_create_socket.
ThreadRecovers ==
  /\ Fails
  /\ Goes("thread", "recv", "create")
  /\ Deinit
  /\ UNCHANGED <<udp_task_init, resets, wanted, refused, wire, result>>

\* The chip starts again; the client opens its socket when it has an address.
UdpRestart ==
  /\ resets
  /\ udp_socket_fd' = NoSocket /\ udp_task_init' = FALSE
  /\ pc' = [client |-> "idle", thread |-> "none"]
  /\ open' = {} /\ bound' = {} /\ resets' = FALSE /\ wanted' = FALSE
  /\ refused' = FALSE
  /\ wire' = 0 /\ result' = "none"
  /\ UNCHANGED fails

Create(a) ==
  CreateKeeps(a) \/ CreateStarts(a) \/ CreateGets(a) \/ CreateResets(a) \/ CreateBinds(a)

UdpNext ==
  \/ Open
  \/ \E len \in Length : Send(len)
  \/ \E a \in Actor : Create(a)
  \/ ThreadReceives \/ ThreadGets \/ ThreadRecovers
  \/ UdpRestart

UdpSpec == UdpInit /\ [][UdpNext]_udpVars

---------------------------------------------------------------------------

FlagsOK == /\ udp_task_init \in BOOLEAN /\ resets \in BOOLEAN /\ wanted \in BOOLEAN
           /\ refused \in BOOLEAN

FieldsOK ==
  /\ udp_socket_fd \in Socket \cup {NoSocket}
  /\ pc \in [Actor -> {"none", "idle", "test", "recv", "create", "socket", "bind"}]
  /\ pc["client"] \notin {"none", "test", "recv"} /\ pc["thread"] # "idle"
  /\ open \subseteq Socket /\ bound \subseteq open
  /\ fails \in 0 .. MaxFails
  /\ wire \in Length \cup {0} /\ result \in {"zero", "other", "none"}

UdpTypeOK == FlagsOK /\ FieldsOK

\* The stack has at most the one socket open that udp_socket_fd names, however
\* often the client opens it and whatever fails on the thread: nothing leaks
\* and nothing is used after it was closed.  It holds because the body of
\* udp_socket_deinit is commented out (udp_socket.c:47-52); with it both
\* threads may be in udp_create_socket at a time.
OneUdpSocket == open = {udp_socket_fd} \ {NoSocket}

\* udp_socket.h:27 "return: 0 is succeed, other's faild": a send that returns
\* zero has put the datagram on the wire, and one that does not has not.
SendTellsTruth ==
  [][\A len \in Length : Send(len) => (result' = "zero" <=> wire' = len)]_udpVars
============================================================================
