------------------------------- MODULE ZbMap -------------------------------
(***************************************************************************)
(* The port table of the gateway as gwzb-esp32-v2.0/app/zb_map.c uses it.  *)
(* Every endpoint of a Zigbee device is one numbered port; the ports are   *)
(* kept by the pdo_* functions of libplutolib.a and survive a restart.     *)
(*                                                                         *)
(* A table is a function from the port numbers in use to what zb_map.c     *)
(* stores with a port: the IEEE address ("exaddr") and the short address   *)
(* ("addr") of the device and the endpoint ("ep").                         *)
(***************************************************************************)
EXTENDS Naturals, FiniteSets

CONSTANTS Dev,     \* the devices, named by their IEEE address
          Addr,    \* short network addresses
          Ep,      \* endpoint numbers
          PortNum  \* the numbers pdo_get_free_port may return

ASSUME PortNumAssumption == PortNum \subseteq Nat

Port == [exaddr : Dev, addr : Addr, ep : Ep]

NoPorts == [p \in {} |-> {}]

\* What pdo_count_port_by_value("addr", ...) and pdo_count_port_by_string
\* ("exaddr", ...) count.
PortsWith(table, field, val) == {p \in DOMAIN table : table[p][field] = val}

PortsAt(table, addr) == PortsWith(table, "addr", addr)
PortsOf(table, dev) == PortsWith(table, "exaddr", dev)

\* pdo_get_port_by_value_index: number k of the ports of a set, in order.
PortByIndex(S, k) == CHOOSE p \in S : Cardinality({q \in S : q < p}) = k

\* pdo_delete_port
DeletePort(table, port) == [p \in DOMAIN table \ {port} |-> table[p]]

\* Mutant: the loop ends one port early.
DeleteAllButOne(table, field, val) ==
  LET Matching(t) == PortsWith(t, field, val)
      num == Cardinality(Matching(table))
      after[i \in 0 .. num] ==
        IF i <= 1 THEN table
        ELSE DeletePort(after[i - 1], PortByIndex(Matching(after[i - 1]), num - i))
  IN  after[num]

\* The loop of zb_delete_device and zb_delete_device_by_exaddr: count the
\* matching ports once, then look each one up again by a falling index.
DeleteMatching(table, field, val) ==
  LET Matching(t) == PortsWith(t, field, val)
      num == Cardinality(Matching(table))
      after[i \in 0 .. num] ==
        IF i = 0 THEN table
        ELSE DeletePort(after[i - 1], PortByIndex(Matching(after[i - 1]), num - i))
  IN  after[num]

zb_delete_device(table, addr) == DeleteMatching(table, "addr", addr)
zb_delete_device_by_exaddr(table, dev) == DeleteMatching(table, "exaddr", dev)

\* zb_create_port: the lowest free number gets the endpoint; nothing looks
\* whether another port has the endpoint already.
zb_create_port(table, dev, addr, ep) ==
  LET free == PortNum \ DOMAIN table
      new  == CHOOSE p \in free : \A q \in free : p <= q
  IN  IF free = {} THEN table
      ELSE [p \in DOMAIN table \cup {new} |->
              IF p = new THEN [exaddr |-> dev, addr |-> addr, ep |-> ep]
              ELSE table[p]]
============================================================================
