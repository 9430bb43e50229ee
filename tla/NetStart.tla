------------------------------ MODULE NetStart ------------------------------
(***************************************************************************)
(* From the settings of the WiFi network to a socket that listens: the     *)
(* station (WifiStation) and the UDP socket (UdpSocket) of one device.     *)
(* pluto_task starts the client of the cloud when the station has an       *)
(* address, the client opens the socket, and a socket that cannot be made  *)
(* restarts the chip, which takes the station down with it.                *)
(***************************************************************************)
EXTENDS WifiStation, UdpSocket

netVars == <<wifiVars, udpVars>>

NetInit == WifiInit /\ UdpInit

\* The client, started by pluto_task (pluto_entry.c:38), opens its socket.
ClientOpens == server /\ Open

\* pluto_reset_system(3000) of udp_create_socket: the station begins again
\* with the settings it has stored.
NetRestart ==
  /\ UdpRestart
  /\ link' = (IF conf = "none" THEN "off" ELSE "joining")
  /\ smart' = (IF conf = "none" THEN "started" ELSE "off")
  /\ ip' = FALSE /\ events' = <<"start">> /\ wifi_event_group' = {}
  /\ airkiss_state' = "LINK_OVER"
  /\ at' = (IF gateway THEN "wait" ELSE "none")
  /\ uxBits' = {} /\ runtime' = "max" /\ got_ip_flag' = FALSE
  /\ polling' = TRUE /\ server' = FALSE
  /\ UNCHANGED <<gateway, conf, losses>>

Sockets ==
  \/ ClientOpens
  \/ \E len \in Length : Send(len)
  \/ \E a \in Actor : Create(a)
  \/ ThreadReceives \/ ThreadGets \/ ThreadRecovers

NetNext ==
  \/ WifiNext /\ UNCHANGED udpVars
  \/ Sockets /\ UNCHANGED wifiVars
  \/ NetRestart

NetSpec == NetInit /\ [][NetNext]_netVars

\* The threads of both run, the driver ends an attempt to join, and a client
\* that was started opens its socket.
NetFairSpec ==
  /\ NetSpec
  /\ WF_wifiVars(Join) /\ WF_wifiVars(Loop) /\ WF_wifiVars(Task) /\ WF_wifiVars(Poll)
  /\ \A a \in Actor : WF_udpVars(Create(a))
  /\ WF_udpVars(~wanted /\ ClientOpens)
  /\ WF_netVars(NetRestart)

---------------------------------------------------------------------------

\* A device that keeps its address listens on its port in the end, through
\* failures of socket, each of which restarts the whole chip
\* (udp_socket.c:66), unless bind has failed since: then the socket stays,
\* without its port (:76).
ListensInTheEnd == <>[]ip => <>[](udp_socket_fd \in bound \/ refused)
============================================================================
