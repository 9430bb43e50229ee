---------------------------- MODULE ZbZdoProofs ----------------------------
(***************************************************************************)
(* Proofs about the interview of new devices (ZbZdo) and the port table    *)
(* (ZbMap), in five parts:                                                 *)
(*                                                                         *)
(*   1. the loop of zb_delete_device takes out all the matching ports;     *)
(*   2. the types are invariant;                                           *)
(*   3. what a step may do to the table (OldPortsGo, PortsFromTheList);    *)
(*   4. a device that waits is on a list that the timer serves;            *)
(*   5. in a network that behaves well a device gets a port for each       *)
(*      endpoint, and no more of them than it is asked.                    *)
(*                                                                         *)
(* Part 1 is about a recursive function.  What it computes is shown with   *)
(* the least-number principle (LeastOf): if the loop went wrong there      *)
(* would be a first turn at which it does.                                 *)
(***************************************************************************)
EXTENDS ZbZdo, FiniteSetTheorems, SequenceTheorems, WellFoundedInduction, TLAPS

---------------------------------------------------------------------------
(* 1. The port table *)

\* A set of natural numbers that is not empty has a least element.
LEMMA LeastOf ==
  ASSUME NEW T \in SUBSET Nat, T # {}
  PROVE  \E m \in T : \A k \in T : m <= k
<1> DEFINE R == {ss \in Nat \X Nat : ss[1] < ss[2]}
<1>1. IsWellFoundedOn(R, Nat)
  BY NatLessThanWellFounded, Zenon DEF OpToRel
<1> HIDE DEF R
<1>2. PICK m \in T : \A k \in T : ~ (<<k, m>> \in R)
  BY <1>1, WFMin, Zenon
<1>3. ASSUME NEW k \in T PROVE m <= k
  <2>1. <<k, m>> \in Nat \X Nat /\ <<k, m>>[1] = k /\ <<k, m>>[2] = m
    OBVIOUS
  <2>2. ~ (k < m)
    BY <1>2, <2>1 DEF R
  <2> QED BY <2>2
<1> QED BY <1>3

\* A finite set of natural numbers that is not empty has a greatest element: a
\* least set without one would have one as soon as an element is taken away.
LEMMA GreatestOf ==
  ASSUME NEW S \in SUBSET Nat, IsFiniteSet(S), S # {}
  PROVE  \E m \in S : \A k \in S : k <= m
<1> DEFINE HasMax(U) == \E m \in U : \A k \in U : k <= m
           Bad == {n \in Nat : \E U \in SUBSET Nat :
                     IsFiniteSet(U) /\ U # {} /\ Cardinality(U) = n /\ ~HasMax(U)}
<1> SUFFICES ASSUME ~HasMax(S) PROVE FALSE
  OBVIOUS
<1>1. Cardinality(S) \in Bad
  BY FS_CardinalityType
<1>2. PICK n \in Bad : \A k \in Bad : n <= k
  BY <1>1, LeastOf
<1>3. PICK U \in SUBSET Nat :
        IsFiniteSet(U) /\ U # {} /\ Cardinality(U) = n /\ ~HasMax(U)
  BY <1>2
<1>4. PICK x \in U : TRUE
  BY <1>3
<1>5. /\ IsFiniteSet(U \ {x}) /\ Cardinality(U \ {x}) = n - 1
      /\ U \ {x} \in SUBSET Nat
  BY <1>3, <1>4, FS_RemoveElement
<1>6. U \ {x} # {}
  <2> SUFFICES ASSUME U = {x} PROVE FALSE
    BY <1>4
  <2> QED BY <1>3
<1>7. HasMax(U \ {x})
  <2>1. n - 1 \in Nat
    BY <1>5, FS_CardinalityType
  <2>2. n - 1 \notin Bad
    BY <1>2, <2>1
  <2> QED BY <1>5, <1>6, <2>1, <2>2
<1>8. PICK y \in U \ {x} : \A k \in U \ {x} : k <= y
  BY <1>7
<1>9. x \in Nat /\ y \in Nat /\ \A k \in U : k \in Nat
  BY <1>3, <1>4, <1>8
<1>10. CASE x <= y
  BY <1>3, <1>8, <1>9, <1>10
<1>11. CASE y <= x
  <2>1. \A k \in U : k <= x
    BY <1>8, <1>9, <1>11
  <2> QED BY <1>3, <1>4, <2>1
<1> QED BY <1>9, <1>10, <1>11

\* The index of the last of the matching ports is the index of a matching port.
LEMMA LastByIndex ==
  ASSUME NEW S \in SUBSET Nat, IsFiniteSet(S), S # {}
  PROVE  PortByIndex(S, Cardinality(S) - 1) \in S
<1>1. PICK m \in S : \A k \in S : k <= m
  BY GreatestOf
<1>2. {q \in S : q < m} = S \ {m}
  <2>1. m \in Nat /\ \A k \in S : k \in Nat
    BY <1>1
  <2>2. \A k \in S : k < m <=> k # m
    BY <1>1, <2>1
  <2> QED BY <2>2
<1>3. Cardinality({q \in S : q < m}) = Cardinality(S) - 1
  BY <1>2, FS_RemoveElement
<1> QED BY <1>3 DEF PortByIndex

\* A table without the ports of a set.
Without(t, S) == [p \in DOMAIN t \ S |-> t[p]]

\* A table of ports, of which there are finitely many.
PortTable(t) == (\E P \in SUBSET PortNum : t \in [P -> Port]) /\ IsFiniteSet(DOMAIN t)

\* The loop of zb_delete_device and zb_delete_device_by_exaddr takes the
\* matching ports out of the table, all of them and no others.
LEMMA DeleteMatchingRemoves ==
  ASSUME NEW t, PortTable(t), NEW field, NEW val
  PROVE  DeleteMatching(t, field, val) = Without(t, PortsWith(t, field, val))
<1>0. PICK D \in SUBSET PortNum : t \in [D -> Port] /\ IsFiniteSet(D)
  BY DEF PortTable
<1> DEFINE Matching(u) == PortsWith(u, field, val)
           num == Cardinality(Matching(t))
           Step(u, i) == DeletePort(u, PortByIndex(Matching(u), num - i))
           Loop(f, n) == f = [i \in 0 .. n |-> IF i = 0 THEN t ELSE Step(f[i - 1], i)]
           after == CHOOSE f : Loop(f, num)
           \* the tables the loop goes through
           Left(u, k) == /\ Matching(u) \subseteq Matching(t)
                         /\ IsFiniteSet(Matching(u)) /\ Cardinality(Matching(u)) = k
                         /\ u = [p \in (D \ Matching(t)) \cup Matching(u) |-> t[p]]
<1>1. /\ Matching(t) \subseteq D /\ IsFiniteSet(Matching(t))
      /\ num \in Nat /\ DOMAIN t = D
  BY <1>0, FS_Subset, FS_CardinalityType DEF PortsWith
<1>2. ASSUME NEW i \in 1 .. num, NEW u, Left(u, num - (i - 1))
      PROVE  Left(Step(u, i), num - i)
  <2> DEFINE p == PortByIndex(Matching(u), num - i)
  <2>1. Matching(u) # {} /\ Matching(u) \in SUBSET Nat
    <3> HIDE DEF Matching, num
    <3>1. num - (i - 1) # 0
      BY <1>1
    <3> QED BY <1>1, <1>2, <3>1, PortNumAssumption, FS_EmptySet
  <2>2. num - i = Cardinality(Matching(u)) - 1
    BY <1>1, <1>2
  <2>3. p \in Matching(u)
    BY <1>2, <2>1, <2>2, LastByIndex
  <2> HIDE DEF p
  <2>4. DeletePort(u, p) = [q \in (D \ Matching(t)) \cup (Matching(u) \ {p}) |-> t[q]]
    BY <1>2, <2>3 DEF DeletePort
  <2>5. Matching(DeletePort(u, p)) = Matching(u) \ {p}
    BY <1>2, <2>4 DEF PortsWith
  <2>6. /\ IsFiniteSet(Matching(u) \ {p})
        /\ Cardinality(Matching(u) \ {p}) = num - i
    BY <1>2, <2>2, <2>3, FS_RemoveElement
  <2>7. Left(DeletePort(u, p), num - i)
    BY <1>2, <2>4, <2>5, <2>6
  <2> QED BY <2>7 DEF p
<1> HIDE DEF Matching, num, Step, Left
\* The loop is defined ...
<1>3. \E f : Loop(f, num)
  <2> DEFINE Bad == {n \in 0 .. num : ~ \E f : Loop(f, n)}
  <2> SUFFICES ASSUME Bad # {} PROVE FALSE
    BY <1>1
  <2>1. PICK n \in Bad : \A k \in Bad : n <= k
    <3>1. Bad \in SUBSET Nat
      BY <1>1
    <3> HIDE DEF Bad
    <3> QED BY <3>1, LeastOf
  <2>2. n # 0
    <3>1. Loop([i \in {0} |-> t], 0)
      BY SMT
    <3> QED BY <3>1, <2>1
  <2>3. PICK f : Loop(f, n - 1)
    <3>1. n - 1 \in 0 .. num /\ ~ (n <= n - 1)
      BY <1>1, <2>1, <2>2
    <3> QED BY <2>1, <3>1
  <2> DEFINE g == [i \in 0 .. n |-> IF i = n THEN Step(f[n - 1], n) ELSE f[i]]
  <2>4. Loop(g, n)
    <3>1. ASSUME NEW i \in 0 .. n
          PROVE  g[i] = IF i = 0 THEN t ELSE Step(g[i - 1], i)
      <4>1. n \in Nat /\ n > 0
        BY <1>1, <2>1, <2>2
      <4>2. CASE i = n
        BY <4>1, <4>2
      <4>3. CASE i # n
        <5>1. i \in 0 .. n - 1 /\ g[i] = f[i] /\ (i # 0 => i - 1 \in 0 .. n - 1 /\ g[i - 1] = f[i - 1])
          BY <4>1, <4>3
        <5> HIDE DEF g
        <5> QED BY <2>3, <5>1
      <4> QED BY <4>2, <4>3
    <3>2. g = [i \in 0 .. n |-> g[i]]
      OBVIOUS
    <3> HIDE DEF g
    <3> QED BY <3>1, <3>2
  <2> QED BY <2>1, <2>4
<1>4. Loop(after, num)
  BY <1>3
<1> HIDE DEF after
\* ... and each turn takes one matching port out of the table.
<1>5. \A i \in 0 .. num : Left(after[i], num - i)
  <2> DEFINE Bad == {i \in 0 .. num : ~Left(after[i], num - i)}
  <2> SUFFICES ASSUME Bad # {} PROVE FALSE
    OBVIOUS
  <2>1. PICK i \in Bad : \A k \in Bad : i <= k
    <3>1. Bad \in SUBSET Nat
      BY <1>1
    <3> HIDE DEF Bad
    <3> QED BY <3>1, LeastOf
  <2>2. i # 0
    <3>1. after[0] = t
      BY <1>1, <1>4
    <3>2. Left(t, num)
      BY <1>0, <1>1 DEF Left, num, Matching
    <3> QED BY <1>1, <2>1, <3>1, <3>2
  <2>3. i - 1 \in 0 .. num /\ i \in 1 .. num
    BY <1>1, <2>1, <2>2
  <2>4. Left(after[i - 1], num - (i - 1))
    BY <2>1, <2>3
  <2>5. after[i] = Step(after[i - 1], i)
    BY <1>4, <2>1, <2>2
  <2> QED BY <1>2, <2>1, <2>3, <2>4, <2>5
<1>6. Left(after[num], 0)
  BY <1>1, <1>5
<1>7. Matching(after[num]) = {}
  BY <1>6, FS_EmptySet DEF Left
<1>8. after[num] = [p \in D \ Matching(t) |-> t[p]]
  BY <1>6, <1>7 DEF Left
<1>9. DeleteMatching(t, field, val) = after[num]
  BY DEF DeleteMatching, after, Step, num, Matching
<1> QED BY <1>1, <1>8, <1>9 DEF Matching, Without

\* A table with one port more.
WithPort(t, n, d, a, ep) ==
  [p \in DOMAIN t \cup {n} |->
     IF p = n THEN [exaddr |-> d, addr |-> a, ep |-> ep] ELSE t[p]]

\* zb_create_port gives the endpoint a free number, or leaves the table.
LEMMA CreatePortAdds ==
  ASSUME NEW t, NEW d \in Dev, NEW a \in Addr, NEW ep \in Ep
  PROVE  \/ /\ PortNum \ DOMAIN t = {}
            /\ zb_create_port(t, d, a, ep) = t
         \/ \E n \in PortNum \ DOMAIN t :
              zb_create_port(t, d, a, ep) = WithPort(t, n, d, a, ep)
<1> DEFINE free == PortNum \ DOMAIN t
           new == CHOOSE p \in free : \A q \in free : p <= q
<1>1. CASE free = {}
  BY <1>1 DEF zb_create_port
<1>2. CASE free # {}
  <2>1. \E p \in free : \A q \in free : p <= q
    BY <1>2, PortNumAssumption, LeastOf
  <2>2. new \in free
    BY <2>1
  <2> QED BY <1>2, <2>2 DEF zb_create_port, WithPort
<1> QED BY <1>1, <1>2

\* Deleting and creating ports makes a table of ports again.
LEMMA DeleteKeepsTable ==
  ASSUME NEW t, PortTable(t), NEW field, NEW val
  PROVE  PortTable(DeleteMatching(t, field, val))
<1>1. PICK P \in SUBSET PortNum : t \in [P -> Port] /\ IsFiniteSet(P)
  BY DEF PortTable
<1>2. DeleteMatching(t, field, val) = Without(t, PortsWith(t, field, val))
  BY DeleteMatchingRemoves
<1> DEFINE S == PortsWith(t, field, val)
<1> HIDE DEF S
<1>3. Without(t, S) \in [P \ S -> Port]
  BY <1>1 DEF Without
<1>4. IsFiniteSet(P \ S)
  BY <1>1, FS_Difference
<1> QED BY <1>2, <1>3, <1>4 DEF PortTable, S

\* zb_create_port makes a table of ports again.
LEMMA CreateKeepsTable ==
  ASSUME NEW t, PortTable(t), NEW d \in Dev, NEW a \in Addr, NEW ep \in Ep
  PROVE  PortTable(zb_create_port(t, d, a, ep))
<1>1. PICK P \in SUBSET PortNum : t \in [P -> Port] /\ IsFiniteSet(P)
  BY DEF PortTable
<1>2. ASSUME NEW n \in PortNum \ DOMAIN t
      PROVE  PortTable(WithPort(t, n, d, a, ep))
  <2>1. IsFiniteSet(P \cup {n}) /\ P \cup {n} \in SUBSET PortNum
    BY <1>1, FS_AddElement
  <2>2. WithPort(t, n, d, a, ep) \in [P \cup {n} -> Port]
    BY <1>1 DEF WithPort, Port
  <2> QED BY <2>1, <2>2 DEF PortTable
<1> QED BY <1>2, CreatePortAdds
---------------------------------------------------------------------------
(* 2. The types *)

\* The type invariant, and that there are finitely many ports at any time.
ZdoInv == ZdoTypeOK /\ IsFiniteSet(DOMAIN ports)

\* Asking keeps the counts within the bound.
LEMMA AskType ==
  ASSUME NEW bag \in [Question -> 0 .. MaxAsked], NEW Q
  PROVE  Ask(bag, Q) \in [Question -> 0 .. MaxAsked]
  BY ZdoConstants DEF Ask

\* Questions that are taken out of the bag were counted in it.
LEMMA TakeOutType ==
  ASSUME NEW bag \in [Question -> 0 .. MaxAsked],
         NEW Q, \A q \in Q : q \in Question /\ bag[q] > 0
  PROVE  /\ TakeOut(bag, Q) \in [Question -> 0 .. MaxAsked]
         /\ \A q \in Question : TakeOut(bag, Q)[q] <= bag[q]
  BY ZdoConstants DEF TakeOut

\* The questions left after an answer are counted within the bound.
LEMMA AnswerType ==
  ASSUME NEW q \in Question, CanAnswer(q), asked \in [Question -> 0 .. MaxAsked],
         NEW left \in Answer(q)
  PROVE  left \in [Question -> 0 .. MaxAsked]
<1>1. asked[q] - 1 \in 0 .. MaxAsked
  BY ZdoConstants DEF CanAnswer
<1> QED BY <1>1 DEF Answer

\* A list changed in place is a list as long as it was.
LEMMA ListMap ==
  ASSUME NEW D, NEW list \in Seq(D), NEW S, NEW f, \A i \in S : f[i] \in D
  PROVE  /\ [i \in DOMAIN list |-> IF i \in S THEN f[i] ELSE list[i]] \in Seq(D)
         /\ Len([i \in DOMAIN list |-> IF i \in S THEN f[i] ELSE list[i]]) = Len(list)
<1>1. /\ Len(list) \in Nat /\ DOMAIN list = 1 .. Len(list)
      /\ \A i \in 1 .. Len(list) : list[i] \in D
  OBVIOUS
<1>2. [i \in 1 .. Len(list) |-> IF i \in S THEN f[i] ELSE list[i]]
        \in [1 .. Len(list) -> D]
  BY <1>1
<1> QED BY <1>1, <1>2

\* There are at most 254 endpoints, so NOT_KNOWN is no number of endpoints.
LEMMA EpType == IsFiniteSet(Ep) /\ Cardinality(Ep) \in 0 .. 254
<1> DEFINE all == 1 .. 254
<1>1. IsFiniteSet(all) /\ Cardinality(all) = 254
  <2>1. 1 \in Int /\ 254 \in Int /\ ~ (1 > 254)
    OBVIOUS
  <2>2. IsFiniteSet(1 .. 254) /\ Cardinality(1 .. 254) = 254 - 1 + 1
    BY ZenonT(30), <2>1, FS_Interval
  <2> QED BY <2>2
<1>2. Ep \in SUBSET all
  BY ZdoConstants
<1> HIDE DEF all
<1>3. IsFiniteSet(Ep) /\ Cardinality(Ep) <= 254
  BY <1>1, <1>2, FS_Subset
<1>4. Cardinality(Ep) \in Nat
  BY <1>3, FS_CardinalityType
<1> QED BY <1>3, <1>4

\* What an entry of the list holds, and which changes keep it one.
LEMMA DeviceFields ==
  ASSUME NEW r \in Device
  PROVE  /\ r.exAddr \in Dev /\ r.addr \in Addr /\ r.stry \in 0 .. DEVICE_TRY
         /\ r.point_num \in {NOT_KNOWN, Cardinality(Ep)}
         /\ r.finish_count \in 0 .. MaxCount + 1
         /\ [r EXCEPT !.point_num = Cardinality(Ep)] \in Device
         /\ \A n \in 0 .. DEVICE_TRY : [r EXCEPT !.stry = n] \in Device
         /\ \A n \in 0 .. MaxCount + 1 : [r EXCEPT !.finish_count = n] \in Device
  BY DEF Device

\* What the type invariant says of the list.
LEMMA ListType ==
  ASSUME ZdoInv
  PROVE  /\ pNewDevice \in Seq(Device) /\ Len(pNewDevice) \in 0 .. MaxDevices
         /\ DOMAIN pNewDevice = 1 .. Len(pNewDevice)
         /\ \A i \in DOMAIN pNewDevice : pNewDevice[i] \in Device
         /\ pNewDevice # <<>> =>
              /\ Head(pNewDevice) = pNewDevice[1] /\ 1 \in DOMAIN pNewDevice
              /\ Tail(pNewDevice) \in Seq(Device)
              /\ Len(Tail(pNewDevice)) = Len(pNewDevice) - 1
              /\ \A i \in DOMAIN Tail(pNewDevice) :
                    Tail(pNewDevice)[i] = pNewDevice[i + 1]
<1>1. pNewDevice \in Seq(Device) /\ Len(pNewDevice) <= MaxDevices
  BY DEF ZdoInv, ZdoTypeOK
<1>2. MaxDevices \in Nat
  BY ZdoConstants
<1> HIDE DEF Device
<1> QED BY <1>1, <1>2

\* A step of zdo_task keeps the types: the tries are not counted below zero.
LEMMA TaskType == ASSUME ZdoInv, zdo_task PROVE ZdoInv'
<1> HIDE DEF Device
<1>0. /\ pNewDevice \in Seq(Device) /\ Len(pNewDevice) \in 0 .. MaxDevices
      /\ zdo_msgs \in 1 .. MaxZdoMsgs /\ MaxZdoMsgs \in Nat /\ MaxDevices \in Nat
  BY ListType, ZdoConstants DEF zdo_task, ZdoInv, ZdoTypeOK
<1>1. CASE ZdoTaskPop
  <2>1. pNewDevice' \in Seq(Device) /\ Len(pNewDevice') <= MaxDevices
    BY <1>0, <1>1, ListType DEF ZdoTaskPop
  <2> QED BY <1>1, <2>1 DEF ZdoTaskPop, ZdoInv, ZdoTypeOK
<1>2. CASE ZdoTaskAsk
  <2> DEFINE r == [pNewDevice[1] EXCEPT !.stry = @ - 1]
  <2>1. pNewDevice[1] \in Device /\ 1 \in 1 .. Len(pNewDevice) /\ ~HeadFinished
    BY <1>2, ListType DEF ZdoTaskAsk, UseTry
  <2>2. pNewDevice[1].stry \in 0 .. DEVICE_TRY /\ pNewDevice[1].stry # 0 /\ DEVICE_TRY \in Nat
    BY <1>2, <2>1, ListType, DeviceFields, ZdoConstants DEF ZdoTaskAsk, UseTry, HeadFinished
  <2>3. r \in Device
    <3>1. pNewDevice[1].stry - 1 \in 0 .. DEVICE_TRY
      BY <2>2
    <3> QED BY <2>1, <3>1, DeviceFields
  <2>4. pNewDevice' = [pNewDevice EXCEPT ![1] = r]
    BY <1>2 DEF ZdoTaskAsk, UseTry
  <2> HIDE DEF r
  <2>5. pNewDevice' \in Seq(Device) /\ Len(pNewDevice') <= MaxDevices
    BY <1>0, <2>1, <2>3, <2>4, ExceptSeq
  <2>6. asked' \in [Question -> 0 .. MaxAsked]
    BY <1>2, AskType DEF ZdoTaskAsk, UseTry, ZdoInv, ZdoTypeOK
  <2>7. zdo_msgs' \in 0 .. MaxZdoMsgs
    BY <1>0, <1>2 DEF ZdoTaskAsk, UseTry
  <2> QED BY <1>2, <2>5, <2>6, <2>7 DEF ZdoTaskAsk, UseTry, ZdoInv, ZdoTypeOK
<1>3. CASE ZdoTaskEnd
  <2>1. zdo_msgs' \in 0 .. MaxZdoMsgs
    BY <1>0, <1>3 DEF ZdoTaskEnd
  <2> QED BY <1>3, <2>1 DEF ZdoTaskEnd, ZdoInv, ZdoTypeOK
<1> QED BY <1>1, <1>2, <1>3 DEF zdo_task

\* Every step keeps the types.
LEMMA TypeStep == ZdoInv /\ [ZdoNext]_zdoVars => ZdoInv'
<1> SUFFICES ASSUME ZdoInv, [ZdoNext]_zdoVars PROVE ZdoInv'
  OBVIOUS
<1> HIDE DEF Device
<1>0. /\ PortTable(ports) /\ asked \in [Question -> 0 .. MaxAsked]
      /\ pNewDevice \in Seq(Device) /\ Len(pNewDevice) \in 0 .. MaxDevices
      /\ DOMAIN pNewDevice = 1 .. Len(pNewDevice)
      /\ zdo_msgs \in 0 .. MaxZdoMsgs
      /\ MaxZdoMsgs \in Nat /\ MaxDevices \in Nat /\ MaxAsked \in Nat
      /\ MaxCount \in 0 .. 254
  BY ListType, ZdoConstants DEF ZdoInv, ZdoTypeOK, PortTable
<1>1. ASSUME NEW d \in Dev, NEW a \in Addr, Announce(d, a) PROVE ZdoInv'
  <2> DEFINE new == [exAddr |-> d, addr |-> a, stry |-> DEVICE_TRY,
                     point_num |-> NOT_KNOWN, finish_count |-> 0]
  <2>1. new \in Device
    BY ZdoConstants DEF Device
  <2>2. pNewDevice' = Append(pNewDevice, new)
    BY <1>1 DEF Announce
  <2> HIDE DEF new
  <2>3. pNewDevice' \in Seq(Device) /\ Len(pNewDevice') <= MaxDevices
    BY <1>0, <1>1, <2>1, <2>2, AppendProperties DEF Announce
  <2>4. zdo_timer' \in BOOLEAN /\ zdo_msgs' \in 0 .. MaxZdoMsgs
    <3>1. pNewDevice = <<>> => zdo_msgs + 1 \in 0 .. MaxZdoMsgs
      BY <1>0, <1>1 DEF Announce
    <3> QED BY <1>0, <1>1, <3>1 DEF Announce, StartTask, ZdoInv, ZdoTypeOK
  <2>5. PortTable(ports')
    BY <1>0, <1>1, DeleteKeepsTable DEF Announce, zb_delete_device_by_exaddr
  <2>6. nwk' \in [Dev -> Addr \cup {"none"}] /\ asked' = asked
    BY <1>1 DEF Announce, ZdoInv, ZdoTypeOK
  <2> QED BY <1>0, <2>3, <2>4, <2>5, <2>6 DEF ZdoInv, ZdoTypeOK, PortTable
<1>2. ASSUME NEW d \in Dev, NEW a \in Addr, AnnounceNoMemory(d, a) PROVE ZdoInv'
  <2>1. PortTable(ports')
    BY <1>0, <1>2, DeleteKeepsTable DEF AnnounceNoMemory, zb_delete_device_by_exaddr
  <2> QED BY <1>2, <2>1 DEF AnnounceNoMemory, ZdoInv, ZdoTypeOK, PortTable
<1>3. ASSUME NEW d \in Dev, Leave(d) PROVE ZdoInv'
  <2>1. PortTable(ports')
    BY <1>0, <1>3, DeleteKeepsTable DEF Leave, zb_delete_device
  <2> QED BY <1>3, <2>1 DEF Leave, ZdoInv, ZdoTypeOK, PortTable
<1>4. ASSUME NEW a \in Addr, ActiveEpRsp(a) PROVE ZdoInv'
  <2> DEFINE f == [i \in DOMAIN pNewDevice |-> [pNewDevice[i] EXCEPT !.point_num = Cardinality(Ep)]]
             S == FirstAt(a)
  <2>1. \A i \in DOMAIN pNewDevice : f[i] \in Device
    BY ListType, DeviceFields
  <2>2. pNewDevice' = [i \in DOMAIN pNewDevice |-> IF i \in S THEN f[i] ELSE pNewDevice[i]]
    BY <1>4 DEF ActiveEpRsp, set_point_num
  <2> HIDE DEF f, S
  <2>3. pNewDevice' \in Seq(Device) /\ Len(pNewDevice') <= MaxDevices
    BY <1>0, <2>1, <2>2, ListMap
  <2>4. ActiveEp(a) \in Question
    BY DEF ActiveEp, Question
  <2>5. \A left \in Answer(ActiveEp(a)) : left \in [Question -> 0 .. MaxAsked]
    BY <1>4, <2>4, AnswerType DEF ActiveEpRsp, set_point_num, ZdoInv, ZdoTypeOK
  <2>6. asked' \in [Question -> 0 .. MaxAsked]
    BY <1>4, <2>5, AskType DEF ActiveEpRsp, set_point_num
  <2> QED BY <1>4, <2>3, <2>6 DEF ActiveEpRsp, set_point_num, ZdoInv, ZdoTypeOK
<1>5. ASSUME NEW a \in Addr, NEW ep \in Ep, SimpleDescRsp(a, ep) PROVE ZdoInv'
  <2> DEFINE f == [i \in DOMAIN pNewDevice |-> [pNewDevice[i] EXCEPT !.finish_count = (@ + 1) % 256]]
             S == FirstAt(a)
  <2>1. \A i \in S : i \in DOMAIN pNewDevice /\ f[i] \in Device
    <3>1. ASSUME NEW i \in S
          PROVE  i \in DOMAIN pNewDevice /\ pNewDevice[i].finish_count \in 0 .. MaxCount
      <4>1. i \in DOMAIN pNewDevice
        BY DEF FirstAt
      <4>2. pNewDevice[i].finish_count \in 0 .. MaxCount + 1
        BY <4>1, ListType, DeviceFields
      <4>3. pNewDevice[i].finish_count <= MaxCount
        BY <1>5 DEF SimpleDescRsp, ep_describe_process
      <4> QED BY <1>0, <4>1, <4>2, <4>3
    <3>2. \A n \in 0 .. MaxCount : (n + 1) % 256 \in 0 .. MaxCount + 1
      BY <1>0
    <3>3. \A i \in S : (pNewDevice[i].finish_count + 1) % 256 \in 0 .. MaxCount + 1
      BY <3>1, <3>2
    <3> QED BY ZenonT(30), <3>1, <3>3, ListType, DeviceFields
  <2>2. pNewDevice' = [i \in DOMAIN pNewDevice |-> IF i \in S THEN f[i] ELSE pNewDevice[i]]
    BY <1>5 DEF SimpleDescRsp, ep_describe_process
  <2>3. \A i \in FirstAt(a) : pNewDevice[i].exAddr \in Dev
    <3>1. \A i \in FirstAt(a) : pNewDevice[i] \in Device
      BY ListType DEF FirstAt
    <3> QED BY <3>1, DeviceFields
  <2> HIDE DEF f, S
  <2>4. pNewDevice' \in Seq(Device) /\ Len(pNewDevice') <= MaxDevices
    BY <1>0, <2>1, <2>2, ListMap
  <2>5. SimpleDesc(a, ep) \in Question
    BY DEF SimpleDesc, Question
  <2>6. asked' \in [Question -> 0 .. MaxAsked]
    BY <1>5, <2>5, AnswerType DEF SimpleDescRsp, ep_describe_process, ZdoInv, ZdoTypeOK
  <2>7. PortTable(ports')
    <3>1. CASE ports' = ports
      BY <1>0, <3>1
    <3>2. ASSUME NEW i \in FirstAt(a), ports' = zb_create_port(ports, pNewDevice[i].exAddr, a, ep)
          PROVE  PortTable(ports')
      BY <1>0, <2>3, <3>2, CreateKeepsTable
    <3> QED BY <1>5, <3>1, <3>2 DEF SimpleDescRsp, ep_describe_process
  <2> QED BY <1>5, <2>4, <2>6, <2>7 DEF SimpleDescRsp, ep_describe_process, ZdoInv, ZdoTypeOK, PortTable
<1>6. ASSUME NEW Q \in SUBSET Question, Lose(Q) PROVE ZdoInv'
  <2>1. asked' \in [Question -> 0 .. MaxAsked]
    BY <1>0, <1>6, TakeOutType DEF Lose
  <2> QED BY <1>6, <2>1 DEF Lose, ZdoInv, ZdoTypeOK
<1>7. CASE ZdoTimerFires
  BY <1>7, ZdoConstants DEF ZdoTimerFires, ZdoInv, ZdoTypeOK
<1>8. CASE zdo_task
  BY <1>8, TaskType
<1>9. CASE Restart
  <2>1. pNewDevice' \in Seq(Device) /\ Len(pNewDevice') <= MaxDevices
    BY <1>0, <1>9 DEF Restart
  <2>2. zdo_timer' \in BOOLEAN
    BY <1>9, Zenon DEF Restart
  <2>3. zdo_msgs' = 0 /\ 0 \in 0 .. MaxZdoMsgs
    BY <1>0, <1>9 DEF Restart
  <2>4. asked' \in [Question -> 0 .. MaxAsked]
    BY <1>0, <1>9, TakeOutType DEF Restart
  <2> QED BY <1>9, <2>1, <2>2, <2>3, <2>4 DEF Restart, ZdoInv, ZdoTypeOK
<1>10. CASE UNCHANGED zdoVars
  BY <1>10 DEF zdoVars, ZdoInv, ZdoTypeOK
<1> QED
  BY <1>1, <1>2, <1>3, <1>4, <1>5, <1>6, <1>7, <1>8, <1>9, <1>10 DEF ZdoNext

\* The gateway starts with the right types.
LEMMA InitTypes == ZdoInit => ZdoInv
<1> SUFFICES ASSUME ZdoInit PROVE ZdoInv
  OBVIOUS
<1>1. pNewDevice \in Seq(Device) /\ Len(pNewDevice) <= MaxDevices
  <2> HIDE DEF Device
  <2> QED BY ZdoConstants DEF ZdoInit
<1>2. ports \in [{} -> Port] /\ IsFiniteSet(DOMAIN ports)
  BY FS_EmptySet DEF ZdoInit, NoPorts
<1>3. zdo_timer \in BOOLEAN /\ zdo_msgs \in 0 .. MaxZdoMsgs
  <2>1. zdo_timer \in BOOLEAN
    BY Zenon DEF ZdoInit
  <2> QED BY <2>1, ZdoConstants DEF ZdoInit
<1>4. asked \in [Question -> 0 .. MaxAsked] /\ nwk \in [Dev -> Addr \cup {"none"}]
  BY ZdoConstants DEF ZdoInit
<1> QED BY <1>1, <1>2, <1>3, <1>4 DEF ZdoInv, ZdoTypeOK

\* Whatever is lost, repeated or late: the list, the table and the questions
\* keep their types, however many devices, addresses, endpoints and port
\* numbers there are, and there are finitely many ports at any time.
THEOREM InterviewTypes == ZdoSpec => []ZdoTypeOK
<1>1. ZdoInv => ZdoTypeOK
  BY DEF ZdoInv
<1> QED BY <1>1, InitTypes, TypeStep, PTL DEF ZdoSpec
---------------------------------------------------------------------------
(* 3. What a step may do to the table *)

\* A device that announces itself loses the ports it had.
LEMMA AnnouncePorts ==
  ASSUME ZdoInv, NEW d \in Dev, NEW a \in Addr, Announce(d, a) \/ AnnounceNoMemory(d, a)
  PROVE  ports' = Without(ports, PortsOf(ports, d))
<1>1. PortTable(ports)
  BY DEF ZdoInv, ZdoTypeOK, PortTable
<1>2. zb_delete_device_by_exaddr(ports, d) = Without(ports, PortsOf(ports, d))
  BY <1>1, DeleteMatchingRemoves DEF zb_delete_device_by_exaddr, PortsOf
<1>3. PortsOf(ports, d) = {} => ports = Without(ports, PortsOf(ports, d))
  BY <1>1 DEF PortTable, Without
<1> QED BY <1>2, <1>3 DEF Announce, AnnounceNoMemory

\* A device that leaves loses the ports of its address.
LEMMA LeavePorts ==
  ASSUME ZdoInv, NEW d \in Dev, Leave(d)
  PROVE  ports' = Without(ports, PortsAt(ports, nwk[d]))
<1>1. PortTable(ports)
  BY DEF ZdoInv, ZdoTypeOK, PortTable
<1>2. zb_delete_device(ports, nwk[d]) = Without(ports, PortsAt(ports, nwk[d]))
  BY <1>1, DeleteMatchingRemoves DEF zb_delete_device, PortsAt
<1> QED BY <1>2 DEF Leave

\* A descriptor makes one port, for a device on the list, or none.
LEMMA DescPorts ==
  ASSUME ZdoInv, NEW a \in Addr, NEW ep \in Ep, SimpleDescRsp(a, ep)
  PROVE  \/ ports' = ports
         \/ \E i \in FirstAt(a), n \in PortNum \ DOMAIN ports :
              ports' = WithPort(ports, n, pNewDevice[i].exAddr, a, ep)
<1>1. ASSUME NEW i \in FirstAt(a)
      PROVE  pNewDevice[i].exAddr \in Dev
  BY ListType, DeviceFields DEF FirstAt
<1>2. ASSUME NEW i \in FirstAt(a),
             ports' = zb_create_port(ports, pNewDevice[i].exAddr, a, ep)
      PROVE  \/ ports' = ports
             \/ \E n \in PortNum \ DOMAIN ports :
                  ports' = WithPort(ports, n, pNewDevice[i].exAddr, a, ep)
  BY <1>1, <1>2, CreatePortAdds
<1> QED BY <1>2 DEF SimpleDescRsp, ep_describe_process

\* Every other step leaves the table alone.
OtherStep ==
  \/ \E a \in Addr : ActiveEpRsp(a)
  \/ \E Q \in SUBSET Question : Lose(Q)
  \/ ZdoTimerFires \/ zdo_task \/ Restart \/ UNCHANGED zdoVars

\* The other handlers leave the table alone.
LEMMA OtherStepPorts == ASSUME OtherStep PROVE ports' = ports
  BY DEF OtherStep, ActiveEpRsp, set_point_num, Lose, ZdoTimerFires, zdo_task, ZdoTaskPop,
         ZdoTaskAsk, UseTry, ZdoTaskEnd, Restart, zdoVars

\* Only an announcement makes the list longer.
LEMMA ListGrows ==
  ASSUME ZdoInv, [ZdoNext]_zdoVars, Len(pNewDevice') > Len(pNewDevice)
  PROVE  \E d \in Dev, a \in Addr : Announce(d, a)
<1> HIDE DEF Device
<1>0. pNewDevice \in Seq(Device) /\ Len(pNewDevice) \in Nat
  BY ListType, ZdoConstants
<1>1. ASSUME NEW d \in Dev, NEW a \in Addr, AnnounceNoMemory(d, a) PROVE FALSE
  BY <1>0, <1>1 DEF AnnounceNoMemory
<1>2. ASSUME NEW d \in Dev, Leave(d) PROVE FALSE
  BY <1>0, <1>2 DEF Leave
<1>3. ASSUME NEW f, NEW S, 
             pNewDevice' = [i \in DOMAIN pNewDevice |-> IF i \in S THEN f[i] ELSE pNewDevice[i]]
      PROVE  FALSE
  BY <1>0, <1>3
<1>4. ASSUME NEW a \in Addr, ActiveEpRsp(a) PROVE FALSE
  <2> DEFINE f == [i \in DOMAIN pNewDevice |-> [pNewDevice[i] EXCEPT !.point_num = Cardinality(Ep)]]
             S == FirstAt(a)
  <2>1. pNewDevice' = [i \in DOMAIN pNewDevice |-> IF i \in S THEN f[i] ELSE pNewDevice[i]]
    BY <1>4 DEF ActiveEpRsp, set_point_num
  <2> HIDE DEF f, S
  <2> QED BY <1>3, <2>1
<1>5. ASSUME NEW a \in Addr, NEW ep \in Ep, SimpleDescRsp(a, ep) PROVE FALSE
  <2> DEFINE f == [i \in DOMAIN pNewDevice |-> [pNewDevice[i] EXCEPT !.finish_count = (@ + 1) % 256]]
             S == FirstAt(a)
  <2>1. pNewDevice' = [i \in DOMAIN pNewDevice |-> IF i \in S THEN f[i] ELSE pNewDevice[i]]
    BY <1>5 DEF SimpleDescRsp, ep_describe_process
  <2> HIDE DEF f, S
  <2> QED BY <1>3, <2>1
<1>6. ASSUME NEW Q \in SUBSET Question, Lose(Q) PROVE FALSE
  BY <1>0, <1>6 DEF Lose
<1>7. CASE ZdoTimerFires
  BY <1>0, <1>7 DEF ZdoTimerFires
<1>8. CASE zdo_task
  <2>1. CASE ZdoTaskPop
    BY <1>0, <2>1, ListType DEF ZdoTaskPop
  <2>2. CASE ZdoTaskAsk
    BY <1>0, <2>2 DEF ZdoTaskAsk, UseTry
  <2>3. CASE ZdoTaskEnd
    BY <1>0, <2>3 DEF ZdoTaskEnd
  <2> QED BY <1>8, <2>1, <2>2, <2>3 DEF zdo_task
<1>9. CASE Restart
  BY <1>0, <1>9 DEF Restart
<1>10. CASE UNCHANGED zdoVars
  BY <1>0, <1>10 DEF zdoVars
<1> QED
  BY <1>1, <1>2, <1>4, <1>5, <1>6, <1>7, <1>8, <1>9, <1>10 DEF ZdoNext

\* The table loses ports or gains one, and what it keeps is not changed.
LEMMA TableStep ==
  ASSUME ZdoInv, [ZdoNext]_zdoVars
  PROVE  \/ \E S : ports' = Without(ports, S)
         \/ \E a \in Addr, ep \in Ep : \E i \in FirstAt(a), n \in PortNum \ DOMAIN ports :
              ports' = WithPort(ports, n, pNewDevice[i].exAddr, a, ep)
<1>1. ports = Without(ports, {})
  BY DEF ZdoInv, ZdoTypeOK, Without
<1>2. ASSUME NEW d \in Dev, NEW a \in Addr, Announce(d, a) \/ AnnounceNoMemory(d, a)
      PROVE  \E S : ports' = Without(ports, S)
  BY <1>2, AnnouncePorts
<1>3. ASSUME NEW d \in Dev, Leave(d)
      PROVE  \E S : ports' = Without(ports, S)
  BY <1>3, LeavePorts
<1>4. ASSUME NEW a \in Addr, NEW ep \in Ep, SimpleDescRsp(a, ep)
      PROVE  \/ ports' = Without(ports, {})
             \/ \E i \in FirstAt(a), n \in PortNum \ DOMAIN ports :
                  ports' = WithPort(ports, n, pNewDevice[i].exAddr, a, ep)
  BY <1>1, <1>4, DescPorts
<1>5. CASE OtherStep
  BY <1>1, <1>5, OtherStepPorts
<1> QED BY <1>2, <1>3, <1>4, <1>5 DEF ZdoNext, OtherStep

OldPortsGoStep ==
  /\ \A d \in Dev : nwk[d] # "none" /\ nwk'[d] = "none" => PortsAt(ports', nwk[d]) = {}
  /\ Len(pNewDevice') > Len(pNewDevice) =>
       PortsOf(ports', pNewDevice'[Len(pNewDevice')].exAddr) = {}
  /\ \A p \in DOMAIN ports \cap DOMAIN ports' : ports'[p] = ports[p]

\* A device that left has no port at the address it had.
LEMMA LeaveEmpties ==
  ASSUME ZdoInv, [ZdoNext]_zdoVars, NEW d \in Dev, nwk[d] # "none", nwk'[d] = "none"
  PROVE  PortsAt(ports', nwk[d]) = {}
<1>1. nwk \in [Dev -> Addr \cup {"none"}] /\ "none" \notin Addr
  BY ZdoConstants DEF ZdoInv, ZdoTypeOK
<1>2. ASSUME NEW e \in Dev, NEW a \in Addr, Announce(e, a) \/ AnnounceNoMemory(e, a)
      PROVE  FALSE
  <2>1. nwk' = [nwk EXCEPT ![e] = a]
    BY <1>2 DEF Announce, AnnounceNoMemory
  <2> QED BY <1>1, <2>1
<1>3. ASSUME NEW e \in Dev, Leave(e)
      PROVE  PortsAt(ports', nwk[d]) = {}
  <2>1. e = d
    BY <1>1, <1>3 DEF Leave
  <2> QED BY <1>3, <2>1, LeavePorts DEF PortsAt, PortsWith, Without
<1>4. ASSUME NEW a \in Addr, NEW ep \in Ep, SimpleDescRsp(a, ep)
      PROVE  FALSE
  BY <1>4 DEF SimpleDescRsp, ep_describe_process
<1>5. CASE OtherStep
  <2>1. nwk' = nwk
    BY <1>5 DEF OtherStep, ActiveEpRsp, set_point_num, Lose, ZdoTimerFires, zdo_task, ZdoTaskPop,
                ZdoTaskAsk, UseTry, ZdoTaskEnd, Restart, zdoVars
  <2> QED BY <2>1
<1> QED BY <1>2, <1>3, <1>4, <1>5 DEF ZdoNext, OtherStep

\* OldPortsGo for one step.
LEMMA OldPortsGoes == ZdoInv /\ [ZdoNext]_zdoVars => OldPortsGoStep
<1> SUFFICES ASSUME ZdoInv, [ZdoNext]_zdoVars PROVE OldPortsGoStep
  OBVIOUS
<1>1. ASSUME Len(pNewDevice') > Len(pNewDevice)
      PROVE  PortsOf(ports', pNewDevice'[Len(pNewDevice')].exAddr) = {}
  <2>1. PICK d \in Dev, a \in Addr : Announce(d, a)
    BY <1>1, ListGrows
  <2> DEFINE new == [exAddr |-> d, addr |-> a, stry |-> DEVICE_TRY,
                     point_num |-> NOT_KNOWN, finish_count |-> 0]
  <2>2. new \in Device
    BY ZdoConstants DEF Device
  <2>3. pNewDevice' = Append(pNewDevice, new)
    BY <2>1 DEF Announce
  <2>4. new.exAddr = d
    OBVIOUS
  <2> HIDE DEF new
  <2>5. pNewDevice'[Len(pNewDevice')].exAddr = d
    BY <2>2, <2>3, <2>4, ListType, AppendProperties
  <2>6. PortsOf(ports', d) = {}
    BY <2>1, AnnouncePorts DEF PortsOf, PortsWith, Without
  <2> QED BY <2>5, <2>6
<1>2. \A p \in DOMAIN ports \cap DOMAIN ports' : ports'[p] = ports[p]
  <2>1. ASSUME NEW S, ports' = Without(ports, S),
               NEW p \in DOMAIN ports \cap DOMAIN ports'
        PROVE  ports'[p] = ports[p]
    BY <2>1 DEF Without
  <2>2. ASSUME NEW n \in PortNum \ DOMAIN ports, NEW d, NEW a, NEW ep,
               ports' = WithPort(ports, n, d, a, ep),
               NEW p \in DOMAIN ports \cap DOMAIN ports'
        PROVE  ports'[p] = ports[p]
    BY <2>2 DEF WithPort
  <2> QED BY <2>1, <2>2, TableStep
<1> QED BY <1>1, <1>2, LeaveEmpties DEF OldPortsGoStep

PortsFromTheListStep ==
  \A p \in DOMAIN ports' \ DOMAIN ports :
    \E i \in DOMAIN pNewDevice :
      /\ pNewDevice[i].exAddr = ports'[p].exaddr
      /\ pNewDevice[i].addr = ports'[p].addr

\* PortsFromTheList for one step.
LEMMA NewPortsFromTheList == ZdoInv /\ [ZdoNext]_zdoVars => PortsFromTheListStep
<1> SUFFICES ASSUME ZdoInv, [ZdoNext]_zdoVars,
                    NEW p \in DOMAIN ports' \ DOMAIN ports
             PROVE  \E i \in DOMAIN pNewDevice :
                      /\ pNewDevice[i].exAddr = ports'[p].exaddr
                      /\ pNewDevice[i].addr = ports'[p].addr
  BY DEF PortsFromTheListStep
<1>1. \A S : ports' # Without(ports, S)
  BY DEF Without
<1>a. PICK a \in Addr, ep \in Ep : \E i \in FirstAt(a), n \in PortNum \ DOMAIN ports :
        ports' = WithPort(ports, n, pNewDevice[i].exAddr, a, ep)
  BY <1>1, TableStep
<1>2. PICK i \in FirstAt(a), n \in PortNum \ DOMAIN ports :
        ports' = WithPort(ports, n, pNewDevice[i].exAddr, a, ep)
  BY <1>a
<1>3. p = n /\ ports'[p] = [exaddr |-> pNewDevice[i].exAddr, addr |-> a, ep |-> ep]
  BY <1>2 DEF WithPort
<1>4. i \in DOMAIN pNewDevice /\ pNewDevice[i].addr = a
  BY DEF FirstAt
<1> QED BY <1>3, <1>4

\* A device that leaves takes the ports of its address with it, one that
\* announces itself starts without ports under any address, and no handler
\* changes a port that it does not delete: the loops of zb_delete_device and
\* zb_delete_device_by_exaddr miss none.
THEOREM OldPortsLeave == ZdoSpec => OldPortsGo
<1>1. OldPortsGoStep =>
        [/\ \A d \in Dev : nwk[d] # "none" /\ nwk'[d] = "none" =>
               PortsAt(ports', nwk[d]) = {}
         /\ Len(pNewDevice') > Len(pNewDevice) =>
               PortsOf(ports', pNewDevice'[Len(pNewDevice')].exAddr) = {}
         /\ \A p \in DOMAIN ports \cap DOMAIN ports' : ports'[p] = ports[p]]_zdoVars
  BY DEF OldPortsGoStep
<1> QED BY <1>1, InitTypes, TypeStep, OldPortsGoes, PTL DEF ZdoSpec, OldPortsGo

\* A port is made for a device that is on the list, under the names it has
\* there: a descriptor that comes after the interview makes no port.
THEOREM NoPortAfterInterview == ZdoSpec => PortsFromTheList
<1>1. PortsFromTheListStep =>
        [\A p \in DOMAIN ports' \ DOMAIN ports :
           \E i \in DOMAIN pNewDevice :
             /\ pNewDevice[i].exAddr = ports'[p].exaddr
             /\ pNewDevice[i].addr = ports'[p].addr]_zdoVars
  BY DEF PortsFromTheListStep
<1> QED BY <1>1, InitTypes, TypeStep, NewPortsFromTheList, PTL
     DEF ZdoSpec, PortsFromTheList
---------------------------------------------------------------------------
(* 4. The timer *)

\* One step of zdo_task: the timer is stopped only when the list is empty.
LEMMA TaskKeepsServing == ASSUME DeviceServed, zdo_task PROVE DeviceServed'
<1>1. CASE ZdoTaskPop
  BY <1>1 DEF ZdoTaskPop, DeviceServed
<1>2. CASE ZdoTaskAsk
  BY <1>2 DEF ZdoTaskAsk, UseTry, DeviceServed
<1>3. CASE ZdoTaskEnd
  BY <1>3 DEF ZdoTaskEnd, DeviceServed
<1> QED BY <1>1, <1>2, <1>3 DEF zdo_task

\* Every step keeps the timer as long as there is a device on the list.
LEMMA StepKeepsServing == DeviceServed /\ [ZdoNext]_zdoVars => DeviceServed'
<1> SUFFICES ASSUME DeviceServed, [ZdoNext]_zdoVars PROVE DeviceServed'
  OBVIOUS
<1> USE DEF DeviceServed
<1>1. ASSUME NEW d \in Dev, NEW a \in Addr, Announce(d, a) PROVE DeviceServed'
  BY <1>1 DEF Announce, StartTask
<1>2. ASSUME NEW d \in Dev, NEW a \in Addr, AnnounceNoMemory(d, a) PROVE DeviceServed'
  BY <1>2 DEF AnnounceNoMemory
<1>3. ASSUME NEW d \in Dev, Leave(d) PROVE DeviceServed'
  BY <1>3 DEF Leave
<1>4. ASSUME NEW a \in Addr, ActiveEpRsp(a) PROVE DeviceServed'
  <2>1. pNewDevice' # <<>> => pNewDevice # <<>>
    BY <1>4 DEF ActiveEpRsp, set_point_num
  <2> QED BY <1>4, <2>1 DEF ActiveEpRsp, set_point_num
<1>5. ASSUME NEW a \in Addr, NEW ep \in Ep, SimpleDescRsp(a, ep) PROVE DeviceServed'
  <2>1. pNewDevice' # <<>> => pNewDevice # <<>>
    BY <1>5 DEF SimpleDescRsp, ep_describe_process
  <2> QED BY <1>5, <2>1 DEF SimpleDescRsp, ep_describe_process
<1>6. ASSUME NEW Q \in SUBSET Question, Lose(Q) PROVE DeviceServed'
  BY <1>6 DEF Lose
<1>7. CASE ZdoTimerFires
  BY <1>7 DEF ZdoTimerFires
<1>8. CASE zdo_task
  BY <1>8, TaskKeepsServing
<1>9. CASE Restart
  BY <1>9 DEF Restart
<1>10. CASE UNCHANGED zdoVars
  BY <1>10 DEF zdoVars
<1> QED
  BY <1>1, <1>2, <1>3, <1>4, <1>5, <1>6, <1>7, <1>8, <1>9, <1>10 DEF ZdoNext

\* Whatever is lost, repeated or late, whatever device announces itself or
\* leaves and however often the gateway restarts: a device that waits for its
\* interview is on a list that is served by the timer.
THEOREM InterviewServed == ZdoSpec => []DeviceServed
<1>1. ZdoInit => DeviceServed
  BY DEF ZdoInit, DeviceServed
<1> QED BY <1>1, StepKeepsServing, PTL DEF ZdoSpec
---------------------------------------------------------------------------
(* 5. A network that behaves well *)

\* A network that behaves well and in which no device announces itself again
\* while it is on the list, and a device that may be asked twice.
CalmNetwork == Calm = TRUE /\ Reannounce = FALSE /\ MaxAsked > 0 /\ DEVICE_TRY > 1

\* Device i of the list has not answered.
NotAnswered(i) == pNewDevice[i].point_num = NOT_KNOWN /\ pNewDevice[i].finish_count = 0

\* Device i of the list as it was put there, without ports.
Unasked(i) ==
  /\ pNewDevice[i].stry = DEVICE_TRY
  /\ NotAnswered(i)
  /\ PortsOf(ports, pNewDevice[i].exAddr) = {}

\* The questions under way from which a port for endpoint ep may come.
UnderWay(a, ep) == asked[ActiveEp(a)] + asked[SimpleDesc(a, ep)]

\* Port numbers for every time an endpoint of any device is asked for.
EnoughPorts ==
  /\ IsFiniteSet(Dev)
  /\ IsFiniteSet(PortNum) =>
       Cardinality(PortNum) >= Cardinality(Dev) * Cardinality(Ep) * DEVICE_TRY

\* A second zdo_task message waits only for a head that is not asked yet, and
\* while questions are under way only for a head that has not answered and
\* has a try left: it does not end an interview that is not over.  What is
\* asked is asked of the head.
MessagesInv ==
  /\ zdo_msgs <= 2
  /\ pNewDevice = <<>> => Quiet /\ zdo_msgs <= 1
  /\ zdo_msgs = 2 => Quiet /\ pNewDevice[1].stry = DEVICE_TRY /\ NotAnswered(1)
  /\ zdo_msgs = 1 => Quiet \/ (pNewDevice[1].stry > 0 /\ NotAnswered(1))
  /\ \A q \in Question : asked[q] # 0 => q.addr = pNewDevice[1].addr

\* No two devices of the list, and none that is there, have the same address.
NamesInv ==
  /\ \A i, j \in DOMAIN pNewDevice :
        i # j => /\ pNewDevice[i].addr # pNewDevice[j].addr
                 /\ pNewDevice[i].exAddr # pNewDevice[j].exAddr
  /\ \A i \in DOMAIN pNewDevice :
        nwk[pNewDevice[i].exAddr] \in {"none", pNewDevice[i].addr}
  /\ \A i \in DOMAIN pNewDevice, d \in Dev :
        nwk[d] = pNewDevice[i].addr => d = pNewDevice[i].exAddr
  /\ \A d, e \in Dev : nwk[d] = nwk[e] /\ nwk[d] # "none" => d = e
  /\ \A p \in DOMAIN ports : nwk[ports[p].exaddr] = ports[p].addr

\* Those behind the head have not been asked, nor has a head with all its tries.
WaitInv ==
  /\ \A i \in DOMAIN pNewDevice : i > 1 => Unasked(i)
  /\ pNewDevice # <<>> /\ pNewDevice[1].stry = DEVICE_TRY => Unasked(1) /\ Quiet

\* Each try used on the head stands for one port of each endpoint at most,
\* made or still to come ...
TriesInv ==
  pNewDevice # <<>> =>
    \A ep \in Ep :
      PortCount(ports, pNewDevice[1].exAddr, ep) + UnderWay(pNewDevice[1].addr, ep)
        <= DEVICE_TRY - pNewDevice[1].stry

\* ... and once it was asked, a head that is there has a port for each endpoint
\* or is still to get one.
OwedInv ==
  /\ EnoughPorts /\ pNewDevice # <<>>
  /\ nwk[pNewDevice[1].exAddr] # "none" /\ pNewDevice[1].stry < DEVICE_TRY
  => \A ep \in Ep :
       \/ PortCount(ports, pNewDevice[1].exAddr, ep) > 0
       \/ UnderWay(pNewDevice[1].addr, ep) > 0

\* No endpoint has more ports than a device has tries.
BoundInv == \A d \in Dev, ep \in Ep : PortCount(ports, d, ep) <= DEVICE_TRY

\* A calm network; only the head of the list is asked.
CalmInv ==
  /\ MessagesInv /\ NamesInv /\ WaitInv
  /\ TriesInv /\ OwedInv /\ BoundInv

\* The types in the form the steps need them.
LEMMA Types ==
  ASSUME ZdoInv
  PROVE  /\ Len(pNewDevice) \in Nat /\ DOMAIN pNewDevice = 1 .. Len(pNewDevice)
         /\ pNewDevice # <<>> => Len(pNewDevice) > 0 /\ 1 \in DOMAIN pNewDevice
         /\ \A i \in DOMAIN pNewDevice :
              /\ pNewDevice[i].exAddr \in Dev /\ pNewDevice[i].addr \in Addr
              /\ pNewDevice[i].stry \in 0 .. DEVICE_TRY
         /\ \A d \in Dev : nwk[d] \in Addr \cup {"none"}
         /\ \A q \in Question : asked[q] \in Nat
         /\ \A p \in DOMAIN ports :
              ports[p].exaddr \in Dev /\ ports[p].addr \in Addr /\ ports[p].ep \in Ep
         /\ zdo_msgs \in Nat /\ "none" \notin Addr /\ DEVICE_TRY \in Nat
         /\ \A ep \in Ep : ep \in Nat /\ ep # 0
         /\ IsFiniteSet(DOMAIN ports) /\ PortTable(ports)
<1>1. /\ pNewDevice \in Seq(Device) /\ Len(pNewDevice) \in 0 .. MaxDevices
      /\ MaxDevices \in Nat
  BY ListType, ZdoConstants
<1>2. /\ Len(pNewDevice) \in Nat /\ DOMAIN pNewDevice = 1 .. Len(pNewDevice)
      /\ pNewDevice # <<>> => Len(pNewDevice) > 0 /\ 1 \in DOMAIN pNewDevice
  <2> HIDE DEF Device
  <2> QED BY <1>1
<1>3. \A i \in DOMAIN pNewDevice :
        /\ pNewDevice[i].exAddr \in Dev /\ pNewDevice[i].addr \in Addr
        /\ pNewDevice[i].stry \in 0 .. DEVICE_TRY
  BY ListType, DeviceFields
<1>4. \A p \in DOMAIN ports :
              ports[p].exaddr \in Dev /\ ports[p].addr \in Addr /\ ports[p].ep \in Ep
  BY DEF ZdoInv, ZdoTypeOK, Port
<1>5. \A q \in Question : asked[q] \in Nat
  BY ZdoConstants DEF ZdoInv, ZdoTypeOK
<1>6. zdo_msgs \in Nat
  BY ZdoConstants DEF ZdoInv, ZdoTypeOK
<1>7. (\A ep \in Ep : ep \in Nat /\ ep # 0) /\ DEVICE_TRY \in Nat
  BY ZdoConstants
<1>8. "none" \notin Addr /\ \A d \in Dev : nwk[d] \in Addr \cup {"none"}
  BY ZdoConstants DEF ZdoInv, ZdoTypeOK
<1>9. IsFiniteSet(DOMAIN ports) /\ PortTable(ports)
  BY DEF ZdoInv, ZdoTypeOK, PortTable
<1> QED BY <1>2, <1>3, <1>4, <1>5, <1>6, <1>7, <1>8, <1>9

\* The questions of an endpoint are told apart, and counted.
LEMMA Questions ==
  ASSUME ZdoInv, NEW a \in Addr, NEW ep \in Ep
  PROVE  /\ ActiveEp(a) \in Question /\ ActiveEp(a).addr = a
         /\ SimpleDesc(a, ep) \in Question /\ SimpleDesc(a, ep).addr = a
         /\ \A b \in Addr : SimpleDesc(a, ep) # ActiveEp(b)
         /\ \A b \in Addr, e \in Ep :
              SimpleDesc(b, e) = SimpleDesc(a, ep) => b = a /\ e = ep
         /\ UnderWay(a, ep) \in Nat
         /\ Quiet => UnderWay(a, ep) = 0
<1>1. /\ ActiveEp(a) \in Question /\ ActiveEp(a).addr = a
      /\ SimpleDesc(a, ep) \in Question /\ SimpleDesc(a, ep).addr = a
  BY DEF ActiveEp, SimpleDesc, Question
<1>2. \A b \in Addr : SimpleDesc(a, ep) # ActiveEp(b)
  BY Types DEF ActiveEp, SimpleDesc
<1>3. \A b \in Addr, e \in Ep :
              SimpleDesc(b, e) = SimpleDesc(a, ep) => b = a /\ e = ep
  BY DEF SimpleDesc
<1>4. asked[ActiveEp(a)] \in Nat /\ asked[SimpleDesc(a, ep)] \in Nat
  BY <1>1, Types
<1> QED BY <1>1, <1>2, <1>3, <1>4 DEF UnderWay, Quiet

\* The ports of an endpoint are counted by a number.
LEMMA CountType ==
  ASSUME NEW t, IsFiniteSet(DOMAIN t), NEW d, NEW ep
  PROVE  /\ PortCount(t, d, ep) \in Nat
         /\ PortCount(t, d, ep) = 0 <=> \A p \in PortsOf(t, d) : t[p].ep # ep
<1> DEFINE S == {p \in PortsOf(t, d) : t[p].ep = ep}
<1>1. S \in SUBSET DOMAIN t
  BY DEF PortsOf, PortsWith
<1>2. IsFiniteSet(S)
  BY <1>1, FS_Subset
<1>3. Cardinality(S) \in Nat /\ (Cardinality(S) = 0 <=> S = {})
  BY <1>2, FS_CardinalityType, FS_EmptySet
<1> QED BY <1>3 DEF PortCount

\* A table without some of the ports has no more of an endpoint.
LEMMA CountFewer ==
  ASSUME NEW t, NEW u, IsFiniteSet(DOMAIN t), NEW d, NEW ep,
         \A p \in PortsOf(u, d) : p \in PortsOf(t, d) /\ u[p] = t[p]
  PROVE  PortCount(u, d, ep) <= PortCount(t, d, ep)
<1> DEFINE S == {p \in PortsOf(t, d) : t[p].ep = ep}
           U == {p \in PortsOf(u, d) : u[p].ep = ep}
<1>1. S \in SUBSET DOMAIN t /\ U \in SUBSET S
  BY DEF PortsOf, PortsWith
<1>2. IsFiniteSet(S)
  BY <1>1, FS_Subset
<1> QED BY <1>1, <1>2, FS_Subset DEF PortCount

\* A table with the same ports of a device has as many of an endpoint.
LEMMA CountSame ==
  ASSUME NEW t, NEW u, NEW d, NEW ep, PortsOf(u, d) = PortsOf(t, d),
         \A p \in PortsOf(t, d) : u[p] = t[p]
  PROVE  PortCount(u, d, ep) = PortCount(t, d, ep)
<1>1. {p \in PortsOf(u, d) : u[p].ep = ep} = {p \in PortsOf(t, d) : t[p].ep = ep}
  OBVIOUS
<1> QED BY <1>1 DEF PortCount

\* A new port is counted for its endpoint, and for no other.
LEMMA CountMore ==
  ASSUME NEW t, IsFiniteSet(DOMAIN t), NEW n, n \notin DOMAIN t,
         NEW d, NEW a, NEW ep, NEW e, NEW f
  PROVE  PortCount(WithPort(t, n, d, a, ep), e, f)
           = PortCount(t, e, f) + (IF e = d /\ f = ep THEN 1 ELSE 0)
<1> DEFINE u == WithPort(t, n, d, a, ep)
           S == {p \in PortsOf(t, e) : t[p].ep = f}
           U == {p \in PortsOf(u, e) : u[p].ep = f}
<1>1. /\ DOMAIN u = DOMAIN t \cup {n}
      /\ \A p \in DOMAIN t : u[p] = t[p]
      /\ u[n].exaddr = d /\ u[n].ep = ep
  BY DEF WithPort
<1>2. n \notin S /\ S \in SUBSET DOMAIN t
  BY DEF PortsOf, PortsWith
<1>3. IsFiniteSet(S)
  BY <1>2, FS_Subset
<1>4. Cardinality(S) \in Nat
  BY <1>3, FS_CardinalityType
<1>5. /\ PortCount(WithPort(t, n, d, a, ep), e, f) = Cardinality(U)
      /\ PortCount(t, e, f) = Cardinality(S)
  BY DEF PortCount
<1>6. e = d /\ f = ep => Cardinality(U) = Cardinality(S) + 1
  <2> HAVE e = d /\ f = ep
  <2> HIDE DEF u
  <2>1. U = S \cup {n}
    BY <1>1, <1>2 DEF PortsOf, PortsWith
  <2>2. Cardinality(S \cup {n}) = Cardinality(S) + 1
    BY <1>2, <1>3, FS_AddElement
  <2> QED BY <2>1, <2>2
<1>7. ~ (e = d /\ f = ep) => U = S
  <2> HIDE DEF u
  <2> QED BY <1>1, <1>2 DEF PortsOf, PortsWith
<1> HIDE DEF u, S, U
<1> QED BY <1>4, <1>5, <1>6, <1>7

\* While an endpoint has no port and there are enough of them, one is free:
\* the ports are numbered by their endpoint and their place among its ports.
LEMMA FreePort ==
  ASSUME EnoughPorts, NEW t, PortTable(t), DEVICE_TRY \in Nat \ {0},
         \A e \in Dev, f \in Ep : PortCount(t, e, f) <= DEVICE_TRY,
         NEW d \in Dev, NEW ep \in Ep, PortCount(t, d, ep) = 0
  PROVE  PortNum \ DOMAIN t # {}
<1> SUFFICES ASSUME PortNum \ DOMAIN t = {} PROVE FALSE
  OBVIOUS
<1>1. /\ DOMAIN t = PortNum /\ IsFiniteSet(PortNum) /\ IsFiniteSet(DOMAIN t)
      /\ \A p \in PortNum : t[p].exaddr \in Dev /\ t[p].ep \in Ep
  BY DEF PortTable, Port
<1> DEFINE T == (Dev \X Ep) \ {<<d, ep>>}
           Of(c) == {p \in PortsOf(t, c[1]) : t[p].ep = c[2]}
           num == [c \in T |-> CHOOSE g \in [Of(c) -> 1 .. DEVICE_TRY] :
                     \A p, r \in Of(c) : g[p] = g[r] => p = r]
           cell == [p \in PortNum |-> <<t[p].exaddr, t[p].ep>>]
           place == [p \in PortNum |-> <<cell[p], num[cell[p]][p]>>]
<1>2. ASSUME NEW c \in Dev \X Ep
      PROVE  \E g \in [Of(c) -> 1 .. DEVICE_TRY] : \A p, r \in Of(c) : g[p] = g[r] => p = r
  <2>1. Of(c) \in SUBSET DOMAIN t
    BY DEF PortsOf, PortsWith
  <2>2. IsFiniteSet(Of(c))
    BY <1>1, <2>1, FS_Subset
  <2>3. c[1] \in Dev /\ c[2] \in Ep
    OBVIOUS
  <2>4. Cardinality(Of(c)) <= DEVICE_TRY
    BY <2>3 DEF PortCount
  <2> DEFINE C == Of(c)
             n == Cardinality(C)
  <2> HIDE DEF C
  <2>5. n \in Nat /\ n <= DEVICE_TRY
    BY <2>2, <2>4, FS_CardinalityType DEF C
  <2>6. IsFiniteSet(1 .. n) /\ Cardinality(1 .. n) = n
    <3>1. 1 \in Int /\ n \in Int /\ n - 1 + 1 = n
      BY <2>5
    <3>2. /\ IsFiniteSet(1 .. n)
          /\ Cardinality(1 .. n) = IF 1 > n THEN 0 ELSE n - 1 + 1
      BY <3>1, FS_Interval, ZenonT(30)
    <3> QED BY <2>5, <3>2
  <2>7. ExistsBijection(C, 1 .. n)
    BY <2>2, <2>6, FS_SameCardinalityBij DEF C
  <2>8. PICK g \in Bijection(C, 1 .. n) : TRUE
    BY <2>7 DEF ExistsBijection
  <2>9. g \in [C -> 1 .. n] /\ \A p, r \in C : g[p] = g[r] => p = r
    BY <2>8 DEF Bijection, Injection, IsInjective
  <2>10. g \in [C -> 1 .. DEVICE_TRY]
    BY <2>5, <2>9
  <2> QED BY <2>9, <2>10 DEF C
<1>3. ASSUME NEW c \in T
      PROVE  /\ num[c] \in [Of(c) -> 1 .. DEVICE_TRY]
             /\ \A p, r \in Of(c) : num[c][p] = num[c][r] => p = r
  <2>1. c \in Dev \X Ep
    OBVIOUS
  <2> DEFINE Good(g) == \A p, r \in Of(c) : g[p] = g[r] => p = r
             C == Of(c)
  <2>2. \E g \in [C -> 1 .. DEVICE_TRY] : Good(g)
    BY <1>2, <2>1
  <2>3. num[c] = CHOOSE g \in [C -> 1 .. DEVICE_TRY] : Good(g)
    OBVIOUS
  <2> HIDE DEF num, Good, C
  <2>4. num[c] \in [C -> 1 .. DEVICE_TRY] /\ Good(num[c])
    BY <2>2, <2>3
  <2> QED BY <2>4 DEF Good, C
<1>4. ASSUME NEW p \in PortNum
      PROVE  cell[p] \in T /\ p \in Of(cell[p])
  <2>1. t[p].exaddr \in Dev /\ t[p].ep \in Ep /\ p \in PortsOf(t, t[p].exaddr)
    BY <1>1 DEF PortsOf, PortsWith
  <2>2. ~ (t[p].exaddr = d /\ t[p].ep = ep)
    BY <1>1, <2>1, CountType
  <2> QED BY <2>1, <2>2
<1> HIDE DEF num, cell
<1>5. place \in [PortNum -> T \X (1 .. DEVICE_TRY)]
  <2>1. ASSUME NEW p \in PortNum PROVE num[cell[p]][p] \in 1 .. DEVICE_TRY
    <3> DEFINE c == cell[p]
               C == Of(c)
    <3>1. c \in T /\ p \in C
      BY <1>4
    <3>2. num[c] \in [C -> 1 .. DEVICE_TRY]
      BY <1>3, <3>1
    <3> HIDE DEF C, T
    <3> QED BY <3>1, <3>2
  <2> HIDE DEF T
  <2> QED BY <1>4, <2>1
<1>6. ASSUME NEW p \in PortNum, NEW r \in PortNum, place[p] = place[r] PROVE p = r
  <2> DEFINE c == cell[p]
             C == Of(c)
  <2>1. cell[r] = c /\ num[c][p] = num[c][r]
    BY <1>6
  <2>2. c \in T /\ p \in C /\ r \in C
    BY <1>4, <2>1
  <2>3. \A x, y \in C : num[c][x] = num[c][y] => x = y
    BY <1>3, <2>2
  <2> HIDE DEF C, T
  <2> QED BY <2>1, <2>2, <2>3
<1> DEFINE K == 1 .. DEVICE_TRY
<1>7. IsFiniteSet(K) /\ Cardinality(K) = DEVICE_TRY
  <2>1. 1 \in Int /\ DEVICE_TRY \in Int /\ ~ (1 > DEVICE_TRY)
    OBVIOUS
  <2>2. IsFiniteSet(1 .. DEVICE_TRY) /\ Cardinality(1 .. DEVICE_TRY) = DEVICE_TRY - 1 + 1
    BY ZenonT(30), <2>1, FS_Interval
  <2> QED BY <2>2
<1> HIDE DEF place, K, T
<1>8. place \in Injection(PortNum, T \X K)
  BY <1>5, <1>6 DEF Injection, IsInjective, K
<1>9. /\ IsFiniteSet(Dev \X Ep)
      /\ Cardinality(Dev \X Ep) = Cardinality(Dev) * Cardinality(Ep)
      /\ Cardinality(Dev) \in Nat /\ Cardinality(Ep) \in Nat
      /\ Cardinality(Dev \X Ep) \in Nat
  BY EpType, FS_Product, FS_CardinalityType DEF EnoughPorts
<1>10. IsFiniteSet(T) /\ Cardinality(T) = Cardinality(Dev \X Ep) - 1
  <2>1. <<d, ep>> \in Dev \X Ep
    OBVIOUS
  <2> QED BY <1>9, <2>1, FS_RemoveElement DEF T
<1>11. IsFiniteSet(T \X K) /\ Cardinality(T \X K) = Cardinality(T) * DEVICE_TRY
  BY <1>7, <1>10, FS_Product
<1>12. Cardinality(PortNum) <= Cardinality(T \X K)
  BY <1>8, <1>11, FS_Injection
<1>13. Cardinality(PortNum) \in Nat /\ Cardinality(PortNum) >= Cardinality(Dev \X Ep) * DEVICE_TRY
  BY <1>1, <1>9, FS_CardinalityType DEF EnoughPorts
<1>14. ASSUME NEW m \in Nat, NEW k \in Nat \ {0} PROVE (m - 1) * k < m * k
  BY <1>14
<1>15. Cardinality(T) * DEVICE_TRY < Cardinality(Dev \X Ep) * DEVICE_TRY
  BY <1>9, <1>10, <1>14
<1>16. Cardinality(T) * DEVICE_TRY \in Int /\ Cardinality(Dev \X Ep) * DEVICE_TRY \in Int
  BY <1>9, <1>10
<1> QED BY <1>11, <1>12, <1>13, <1>15, <1>16

\* A device that announces itself waits unasked, or is the head of the list.
LEMMA CalmAnnounce ==
  ASSUME CalmNetwork, ZdoInv, CalmInv, NEW d \in Dev, NEW a \in Addr, Announce(d, a)
  PROVE  CalmInv'
<1> DEFINE new == [exAddr |-> d, addr |-> a, stry |-> DEVICE_TRY,
                   point_num |-> NOT_KNOWN, finish_count |-> 0]
           L == Len(pNewDevice)
<1>1. /\ new \in Device /\ new.exAddr = d /\ new.addr = a /\ new.stry = DEVICE_TRY
      /\ new.point_num = NOT_KNOWN /\ new.finish_count = 0
  BY ZdoConstants DEF Device
<1>2. pNewDevice' = Append(pNewDevice, new)
  BY DEF Announce
<1> HIDE DEF new
<1>3. /\ L \in Nat /\ DOMAIN pNewDevice = 1 .. L /\ DOMAIN pNewDevice' = 1 .. L + 1
      /\ \A i \in 1 .. L : pNewDevice'[i] = pNewDevice[i]
      /\ pNewDevice'[L + 1] = new
      /\ pNewDevice' # <<>>
  <2> HIDE DEF Device
  <2> QED BY <1>1, <1>2, ListType, AppendProperties, Types
<1>4. /\ asked' = asked /\ nwk' = [nwk EXCEPT ![d] = a]
      /\ \A e \in Dev \ {d} : nwk[e] # a
      /\ \A i \in DOMAIN pNewDevice : pNewDevice[i].exAddr # d
  BY DEF Announce, CalmNetwork, Listed
<1>5. \A i \in DOMAIN pNewDevice : pNewDevice[i].addr # a
  <2> DEFINE T == {i \in DOMAIN pNewDevice : pNewDevice[i].addr = a}
  <2> SUFFICES ASSUME T # {} PROVE FALSE
    OBVIOUS
  <2>1. T \in SUBSET Nat
    BY <1>3
  <2>2. PICK m \in T : \A k \in T : m <= k
    BY <2>1, LeastOf
  <2>3. m \in FirstAt(a)
    BY <1>3, <2>2 DEF FirstAt
  <2> QED BY <2>3 DEF Announce, CalmNetwork
<1>6. /\ \A p \in DOMAIN ports' : p \in DOMAIN ports /\ ports'[p] = ports[p] /\ ports[p].exaddr # d
      /\ PortsOf(ports', d) = {}
      /\ \A e : e # d => PortsOf(ports', e) = PortsOf(ports, e)
      /\ \A e : \A p \in PortsOf(ports', e) : p \in PortsOf(ports, e) /\ ports'[p] = ports[p]
  BY AnnouncePorts DEF PortsOf, PortsWith, Without
<1>7. nwk'[d] = a /\ \A e \in Dev : e # d => nwk'[e] = nwk[e]
  BY <1>4 DEF ZdoInv, ZdoTypeOK
<1>8. /\ pNewDevice # <<>> => pNewDevice'[1] = pNewDevice[1]
      /\ pNewDevice = <<>> => pNewDevice'[1] = new
  BY <1>3, Types
<1>9. (Quiet => Quiet') /\ (\A b : \A ep : UnderWay(b, ep)' = UnderWay(b, ep))
  BY <1>4 DEF Quiet, UnderWay
<1>10. ASSUME NEW i \in DOMAIN pNewDevice, Unasked(i) PROVE Unasked(i)'
  BY <1>3, <1>4, <1>6, <1>10 DEF Unasked, NotAnswered
<1>11. ASSUME NEW i \in Nat, i = L + 1 PROVE Unasked(i)'
  BY <1>1, <1>3, <1>6, <1>11 DEF Unasked, NotAnswered
<1>12. MessagesInv'
  <2>1. CASE pNewDevice = <<>>
    <3>1. zdo_msgs' = zdo_msgs + 1 /\ zdo_msgs <= 1 /\ Quiet
      BY <2>1 DEF Announce, StartTask, CalmInv, MessagesInv
    <3>2. pNewDevice'[1].stry = DEVICE_TRY /\ NotAnswered(1)'
      BY <1>1, <1>8, <2>1 DEF NotAnswered
    <3>3. Quiet' /\ zdo_msgs' <= 2
      BY <1>9, <3>1, Types
    <3>4. \A q \in Question : asked'[q] = 0
      BY <3>3 DEF Quiet
    <3> QED BY <1>3, <3>2, <3>3, <3>4 DEF MessagesInv
  <2>2. CASE pNewDevice # <<>>
    <3>1. zdo_msgs' = zdo_msgs
      BY <2>2 DEF Announce, StartTask
    <3>2. NotAnswered(1) => NotAnswered(1)'
      BY <1>8, <2>2 DEF NotAnswered
    <3> QED BY <1>3, <1>4, <1>8, <1>9, <2>2, <3>1, <3>2 DEF CalmInv, MessagesInv
  <2> QED BY <2>1, <2>2
<1>13. NamesInv'
  <2>1. \A i, j \in DOMAIN pNewDevice' :
        i # j => /\ pNewDevice'[i].addr # pNewDevice'[j].addr
                 /\ pNewDevice'[i].exAddr # pNewDevice'[j].exAddr
    BY <1>1, <1>3, <1>4, <1>5 DEF CalmInv, NamesInv
  <2>2. \A i \in DOMAIN pNewDevice' :
        nwk'[pNewDevice'[i].exAddr] \in {"none", pNewDevice'[i].addr}
    BY <1>1, <1>3, <1>4, <1>7, Types DEF CalmInv, NamesInv
  <2>3. \A i \in DOMAIN pNewDevice', e \in Dev :
        nwk'[e] = pNewDevice'[i].addr => e = pNewDevice'[i].exAddr
    BY <1>1, <1>3, <1>4, <1>5, <1>7, Types DEF CalmInv, NamesInv
  <2>4. \A c, e \in Dev : nwk'[c] = nwk'[e] /\ nwk'[c] # "none" => c = e
    BY <1>4, <1>7 DEF CalmInv, NamesInv
  <2>5. \A p \in DOMAIN ports' : nwk'[ports'[p].exaddr] = ports'[p].addr
    BY <1>6, <1>7, Types DEF CalmInv, NamesInv
  <2> QED BY <2>1, <2>2, <2>3, <2>4, <2>5 DEF NamesInv
<1>14. WaitInv'
  <2>1. \A i \in DOMAIN pNewDevice' : i > 1 => Unasked(i)'
    BY <1>3, <1>10, <1>11 DEF CalmInv, WaitInv
  <2>2. CASE pNewDevice = <<>>
    <3>1. L = 0 /\ Quiet
      BY <2>2 DEF CalmInv, MessagesInv
    <3> QED BY <1>9, <1>11, <2>1, <3>1 DEF WaitInv
  <2>3. CASE pNewDevice # <<>>
    BY <1>8, <1>9, <1>10, <2>1, <2>3, Types DEF CalmInv, WaitInv
  <2> QED BY <2>2, <2>3
<1>15. \A e \in Dev, ep \in Ep :
         /\ PortCount(ports', e, ep) <= PortCount(ports, e, ep)
         /\ PortCount(ports', e, ep) \in Nat /\ PortCount(ports, e, ep) \in Nat
         /\ e # d => PortCount(ports', e, ep) = PortCount(ports, e, ep)
         /\ e = d => PortCount(ports', e, ep) = 0
  <2>1. IsFiniteSet(DOMAIN ports) /\ IsFiniteSet(DOMAIN ports')
    BY <1>6, Types, FS_Subset
  <2> QED BY <1>6, <2>1, CountType, CountFewer, CountSame
<1>16. BoundInv'
  <2>1. ASSUME NEW e \in Dev, NEW ep \in Ep PROVE PortCount(ports', e, ep) <= DEVICE_TRY
    <3>1. PortCount(ports, e, ep) <= DEVICE_TRY
      BY DEF CalmInv, BoundInv
    <3> QED BY <1>15, <3>1, Types
  <2> QED BY <2>1 DEF BoundInv
<1>17. TriesInv' /\ OwedInv'
  <2>1. CASE pNewDevice = <<>>
    <3>1. pNewDevice'[1].exAddr = d /\ pNewDevice'[1].addr = a /\ pNewDevice'[1].stry = DEVICE_TRY
      BY <1>1, <1>8, <2>1
    <3>2. Quiet
      BY <2>1 DEF CalmInv, MessagesInv
    <3>3. \A ep \in Ep : PortCount(ports', d, ep) = 0 /\ UnderWay(a, ep)' = 0
      BY <1>9, <1>15, <3>2, Questions
    <3>4. ~ (DEVICE_TRY < DEVICE_TRY) /\ 0 + 0 <= DEVICE_TRY - DEVICE_TRY
      BY Types
    <3> QED BY <3>1, <3>3, <3>4 DEF TriesInv, OwedInv
  <2>2. CASE pNewDevice # <<>>
    <3>1. /\ 1 \in DOMAIN pNewDevice /\ pNewDevice[1].exAddr # d /\ pNewDevice[1].exAddr \in Dev
          /\ pNewDevice'[1] = pNewDevice[1]
      BY <1>4, <1>8, <2>2, Types
    <3>2. nwk'[pNewDevice'[1].exAddr] = nwk[pNewDevice[1].exAddr]
      BY <1>7, <3>1
    <3>3. \A ep \in Ep : PortCount(ports', pNewDevice'[1].exAddr, ep)
                           = PortCount(ports, pNewDevice[1].exAddr, ep)
      BY <1>15, <3>1
    <3>4. \A ep \in Ep : UnderWay(pNewDevice[1].addr, ep)' = UnderWay(pNewDevice[1].addr, ep)
      BY <1>4, <3>1 DEF UnderWay
    <3> QED BY <2>2, <3>1, <3>2, <3>3, <3>4 DEF CalmInv, TriesInv, OwedInv
  <2> QED BY <2>1, <2>2
<1> QED BY <1>12, <1>13, <1>14, <1>16, <1>17 DEF CalmInv

\* A device leaves when nothing is asked, and takes no port of another with it.
LEMMA CalmLeave ==
  ASSUME CalmNetwork, ZdoInv, CalmInv, NEW d \in Dev, Leave(d)
  PROVE  CalmInv'
<1>1. /\ pNewDevice' = pNewDevice /\ asked' = asked /\ zdo_msgs' = zdo_msgs
      /\ nwk' = [nwk EXCEPT ![d] = "none"] /\ nwk[d] # "none"
  BY DEF Leave
<1>2. nwk'[d] = "none" /\ \A e \in Dev : e # d => nwk'[e] = nwk[e]
  BY <1>1 DEF ZdoInv, ZdoTypeOK
<1>3. \A p \in DOMAIN ports' : /\ p \in DOMAIN ports /\ ports'[p] = ports[p]
                               /\ ports[p].addr # nwk[d]
  BY LeavePorts DEF PortsAt, PortsWith, Without
<1>4. \A p \in DOMAIN ports' : ports[p].exaddr # d
  BY <1>3 DEF CalmInv, NamesInv
<1>5. \A e : \A p \in PortsOf(ports', e) : p \in PortsOf(ports, e) /\ ports'[p] = ports[p]
  BY <1>3 DEF PortsOf, PortsWith
<1>6. (Quiet => Quiet') /\ (NotAnswered(1) => NotAnswered(1)')
  BY <1>1 DEF Quiet, NotAnswered
<1>7. MessagesInv'
  BY <1>1, <1>6 DEF CalmInv, MessagesInv
<1>8. NamesInv'
  <2>1. \A i \in DOMAIN pNewDevice' :
        nwk'[pNewDevice'[i].exAddr] \in {"none", pNewDevice'[i].addr}
    BY <1>1, <1>2, Types DEF CalmInv, NamesInv
  <2>2. \A i \in DOMAIN pNewDevice', e \in Dev :
        nwk'[e] = pNewDevice'[i].addr => e = pNewDevice'[i].exAddr
    BY <1>1, <1>2, Types DEF CalmInv, NamesInv
  <2>3. \A c, e \in Dev : nwk'[c] = nwk'[e] /\ nwk'[c] # "none" => c = e
    BY <1>2 DEF CalmInv, NamesInv
  <2>4. \A p \in DOMAIN ports' : nwk'[ports'[p].exaddr] = ports'[p].addr
    BY <1>2, <1>3, <1>4, Types DEF CalmInv, NamesInv
  <2> QED BY <1>1, <2>1, <2>2, <2>3, <2>4 DEF CalmInv, NamesInv
<1>9. WaitInv'
  <2>1. ASSUME NEW i \in DOMAIN pNewDevice, Unasked(i) PROVE Unasked(i)'
    BY <1>1, <1>5, <2>1 DEF Unasked, NotAnswered
  <2> QED BY <1>1, <1>6, <2>1, Types DEF CalmInv, WaitInv
<1>10. \A e \in Dev, ep \in Ep :
         /\ PortCount(ports', e, ep) <= PortCount(ports, e, ep)
         /\ PortCount(ports', e, ep) \in Nat /\ PortCount(ports, e, ep) \in Nat
  <2>1. IsFiniteSet(DOMAIN ports) /\ IsFiniteSet(DOMAIN ports')
    BY <1>3, Types, FS_Subset
  <2> QED BY <1>5, <2>1, CountType, CountFewer
<1>11. BoundInv'
  <2>1. ASSUME NEW e \in Dev, NEW ep \in Ep PROVE PortCount(ports', e, ep) <= DEVICE_TRY
    <3>1. PortCount(ports, e, ep) <= DEVICE_TRY
      BY DEF CalmInv, BoundInv
    <3> QED BY <1>10, <3>1, Types
  <2> QED BY <2>1 DEF BoundInv
<1> DEFINE h == pNewDevice[1]
<1>12. pNewDevice # <<>> => h.exAddr \in Dev /\ h.addr \in Addr /\ h.stry \in 0 .. DEVICE_TRY
  BY Types
<1>13. TriesInv'
  <2> SUFFICES ASSUME pNewDevice # <<>>, NEW ep \in Ep
               PROVE  PortCount(ports', h.exAddr, ep) + UnderWay(h.addr, ep)'
                        <= DEVICE_TRY - h.stry
    BY <1>1 DEF TriesInv
  <2>1. PortCount(ports, h.exAddr, ep) + UnderWay(h.addr, ep) <= DEVICE_TRY - h.stry
    BY DEF CalmInv, TriesInv
  <2>2. UnderWay(h.addr, ep)' = UnderWay(h.addr, ep) /\ UnderWay(h.addr, ep) \in Nat
    BY <1>1, <1>12, Questions DEF UnderWay
  <2> HIDE DEF h
  <2> QED BY <1>10, <1>12, <2>1, <2>2, Types
<1>14. OwedInv'
  <2> SUFFICES ASSUME EnoughPorts, pNewDevice # <<>>, nwk'[h.exAddr] # "none",
                      h.stry < DEVICE_TRY, NEW ep \in Ep
               PROVE  PortCount(ports', h.exAddr, ep) > 0 \/ UnderWay(h.addr, ep)' > 0
    BY <1>1 DEF OwedInv
  <2>1. h.exAddr # d /\ h.exAddr \in Dev /\ nwk[h.exAddr] # "none"
    BY <1>2, <1>12
  <2>2. PortCount(ports, h.exAddr, ep) > 0 \/ UnderWay(h.addr, ep) > 0
    BY <2>1 DEF CalmInv, OwedInv
  <2>3. UnderWay(h.addr, ep)' = UnderWay(h.addr, ep)
    BY <1>1 DEF UnderWay
  <2>4. \A p \in PortsOf(ports, h.exAddr) : p \in DOMAIN ports'
    <3>1. ASSUME NEW p \in PortsOf(ports, h.exAddr)
          PROVE  p \in DOMAIN ports /\ ports[p].addr # nwk[d]
      BY <1>1, <2>1 DEF CalmInv, NamesInv, PortsOf, PortsWith
    <3> QED BY <3>1, LeavePorts DEF PortsAt, PortsWith, Without
  <2>5. /\ PortsOf(ports', h.exAddr) = PortsOf(ports, h.exAddr)
        /\ \A p \in PortsOf(ports, h.exAddr) : ports'[p] = ports[p]
    BY <1>3, <2>4 DEF PortsOf, PortsWith
  <2>6. PortCount(ports', h.exAddr, ep) = PortCount(ports, h.exAddr, ep)
    BY <2>5 DEF PortCount
  <2> QED BY <2>2, <2>3, <2>6
<1> QED BY <1>7, <1>8, <1>9, <1>11, <1>13, <1>14 DEF CalmInv

\* An answer comes from the head of the list, which is there and was asked, and
\* nothing waits for the task.
LEMMA AnswerOfHead ==
  ASSUME CalmNetwork, ZdoInv, CalmInv, NEW q \in Question, CanAnswer(q)
  PROVE  /\ pNewDevice # <<>> /\ 1 \in DOMAIN pNewDevice
         /\ q.addr = pNewDevice[1].addr /\ FirstAt(q.addr) = {1}
         /\ nwk[pNewDevice[1].exAddr] = q.addr /\ q.addr \in Addr
         /\ pNewDevice[1].exAddr \in Dev
         /\ pNewDevice[1].stry \in 0 .. DEVICE_TRY - 1
         /\ zdo_msgs = 0 /\ asked[q] \in Nat \ {0}
         /\ Answer(q) = {[asked EXCEPT ![q] = @ - 1]}
<1>1. asked[q] \in Nat \ {0} /\ zdo_msgs = 0
  BY Types DEF CanAnswer, CalmNetwork
<1>2. ~Quiet
  BY <1>1 DEF Quiet
<1>3. pNewDevice # <<>> /\ q.addr = pNewDevice[1].addr
  BY <1>1, <1>2 DEF CalmInv, MessagesInv
<1>4. 1 \in DOMAIN pNewDevice /\ q.addr \in Addr /\ q.addr # "none" /\ pNewDevice[1].exAddr \in Dev
  BY <1>3, Types
<1>5. PICK d \in Dev : nwk[d] = q.addr
  BY DEF CanAnswer, CalmNetwork, Present
<1>6. nwk[pNewDevice[1].exAddr] = q.addr
  BY <1>3, <1>4, <1>5 DEF CalmInv, NamesInv
<1>7. FirstAt(q.addr) = {1}
  BY <1>3, <1>4, Types DEF CalmInv, NamesInv, FirstAt
<1>8. pNewDevice[1].stry \in 0 .. DEVICE_TRY - 1
  <2>1. pNewDevice[1].stry # DEVICE_TRY
    BY <1>2, <1>3 DEF CalmInv, WaitInv
  <2> QED BY <1>4, <2>1, Types
<1> QED BY <1>1, <1>3, <1>4, <1>6, <1>7, <1>8 DEF Answer, CalmNetwork

\* Answers change nothing but the head, and not its names.
LEMMA CalmNames ==
  ASSUME CalmInv, ZdoInv, nwk' = nwk, DOMAIN pNewDevice' = DOMAIN pNewDevice,
         \A i \in DOMAIN pNewDevice : /\ pNewDevice'[i].exAddr = pNewDevice[i].exAddr
                                      /\ pNewDevice'[i].addr = pNewDevice[i].addr,
         \A p \in DOMAIN ports' : nwk[ports'[p].exaddr] = ports'[p].addr
  PROVE  NamesInv'
  BY DEF CalmInv, NamesInv

\* The endpoints of the head are known, and each is asked for.
LEMMA CalmActiveEpRsp ==
  ASSUME CalmNetwork, ZdoInv, CalmInv, NEW a \in Addr, ActiveEpRsp(a)
  PROVE  CalmInv'
<1> DEFINE q == ActiveEp(a)
           h == pNewDevice[1]
<1>1. q \in Question /\ q.addr = a
  BY DEF ActiveEp, Question
<1>2. /\ pNewDevice # <<>> /\ 1 \in DOMAIN pNewDevice
      /\ a = h.addr /\ FirstAt(a) = {1} /\ nwk[h.exAddr] = a /\ h.exAddr \in Dev
      /\ h.stry \in 0 .. DEVICE_TRY - 1
      /\ zdo_msgs = 0 /\ asked[q] \in Nat \ {0}
      /\ Answer(q) = {[asked EXCEPT ![q] = @ - 1]}
  BY <1>1, AnswerOfHead DEF ActiveEpRsp, set_point_num
<1>3. /\ ports' = ports /\ nwk' = nwk /\ zdo_msgs' = zdo_msgs
      /\ asked' = Ask([asked EXCEPT ![q] = @ - 1], {SimpleDesc(a, ep) : ep \in Ep})
      /\ pNewDevice' = [i \in DOMAIN pNewDevice |->
           IF i \in {1} THEN [pNewDevice[i] EXCEPT !.point_num = Cardinality(Ep)]
           ELSE pNewDevice[i]]
  BY <1>2 DEF ActiveEpRsp, set_point_num
<1>4. /\ DOMAIN pNewDevice' = DOMAIN pNewDevice /\ pNewDevice' # <<>>
      /\ pNewDevice'[1] = [h EXCEPT !.point_num = Cardinality(Ep)]
      /\ \A i \in DOMAIN pNewDevice : i # 1 => pNewDevice'[i] = pNewDevice[i]
  BY <1>2, <1>3
<1>5. /\ pNewDevice'[1].addr = a /\ pNewDevice'[1].exAddr = h.exAddr
      /\ pNewDevice'[1].stry = h.stry
  BY <1>2, <1>4, ListType DEF Device
<1>6. /\ asked \in [Question -> Nat] /\ MaxAsked > 0 /\ MaxAsked \in Nat
      /\ DEVICE_TRY \in Nat
  BY ZdoConstants DEF ZdoInv, ZdoTypeOK, CalmNetwork
<1>7. ASSUME NEW r \in Question, asked'[r] # 0 PROVE r.addr = a
  <2>1. CASE \E ep \in Ep : r = SimpleDesc(a, ep)
    BY <2>1 DEF SimpleDesc
  <2>2. CASE r \notin {SimpleDesc(a, ep) : ep \in Ep}
    <3>1. r # q => asked[r] # 0
      BY <1>3, <1>6, <1>7, <2>2 DEF Ask
    <3> QED BY <1>1, <1>2, <3>1 DEF CalmInv, MessagesInv
  <2> QED BY <2>1, <2>2
<1>8. ASSUME NEW ep \in Ep
      PROVE  /\ UnderWay(a, ep)' \in Nat /\ UnderWay(a, ep) \in Nat
             /\ UnderWay(a, ep)' <= UnderWay(a, ep)
             /\ UnderWay(a, ep)' > 0
  <2> DEFINE s == SimpleDesc(a, ep)
             left == [asked EXCEPT ![q] = @ - 1]
  <2>1. s \in Question /\ s # q /\ s \in {SimpleDesc(a, e) : e \in Ep}
    BY Questions
  <2>2. q \notin {SimpleDesc(a, e) : e \in Ep}
    BY Questions
  <2>3. left[q] = asked[q] - 1 /\ left[s] = asked[s]
    BY <1>1, <1>6, <2>1
  <2>4. asked'[q] = asked[q] - 1
    BY <1>1, <1>3, <2>2, <2>3 DEF Ask
  <2>5. asked'[s] = IF asked[s] < MaxAsked THEN asked[s] + 1 ELSE asked[s]
    BY <1>3, <2>1, <2>3 DEF Ask
  <2>6. asked[q] \in Nat \ {0} /\ asked[s] \in Nat
    BY <1>2, <1>6, <2>1
  <2>7. UnderWay(a, ep)' = asked'[q] + asked'[s] /\ UnderWay(a, ep) = asked[q] + asked[s]
    BY DEF UnderWay
  <2> HIDE DEF q, s
  <2> QED BY <1>6, <2>4, <2>5, <2>6, <2>7
<1>9. MessagesInv'
  <2>1. zdo_msgs' = 0 /\ ~ (0 = 1) /\ ~ (0 = 2) /\ 0 <= 2
    BY <1>2, <1>3
  <2> QED BY <1>4, <1>5, <1>7, <2>1 DEF MessagesInv
<1>10. NamesInv'
  <2>1. \A i \in DOMAIN pNewDevice : /\ pNewDevice'[i].exAddr = pNewDevice[i].exAddr
                                     /\ pNewDevice'[i].addr = pNewDevice[i].addr
    BY <1>2, <1>4, <1>5
  <2>2. \A p \in DOMAIN ports' : nwk[ports'[p].exaddr] = ports'[p].addr
    BY <1>3 DEF CalmInv, NamesInv
  <2> QED BY <1>3, <1>4, <2>1, <2>2, CalmNames
<1>11. WaitInv'
  <2>1. ASSUME NEW i \in DOMAIN pNewDevice, i > 1 PROVE Unasked(i)'
    <3>1. i # 1 /\ Unasked(i)
      BY <2>1 DEF CalmInv, WaitInv
    <3> QED BY <1>3, <1>4, <3>1 DEF Unasked, NotAnswered
  <2>2. pNewDevice'[1].stry # DEVICE_TRY
    BY <1>2, <1>5, <1>6
  <2> QED BY <1>4, <2>1, <2>2 DEF WaitInv
<1>12. TriesInv'
  <2> SUFFICES ASSUME NEW ep \in Ep
               PROVE  PortCount(ports, h.exAddr, ep) + UnderWay(a, ep)' <= DEVICE_TRY - h.stry
    BY <1>3, <1>5 DEF TriesInv, UnderWay
  <2>1. PortCount(ports, h.exAddr, ep) + UnderWay(a, ep) <= DEVICE_TRY - h.stry
    BY <1>2 DEF CalmInv, TriesInv
  <2>2. PortCount(ports, h.exAddr, ep) \in Nat
    BY Types, CountType
  <2> HIDE DEF h
  <2> QED BY <1>2, <1>6, <1>8, <2>1, <2>2
<1>13. OwedInv'
  BY <1>5, <1>8 DEF OwedInv, UnderWay
<1>14. BoundInv'
  BY <1>3 DEF CalmInv, BoundInv
<1> QED BY <1>9, <1>10, <1>11, <1>12, <1>13, <1>14 DEF CalmInv

\* A descriptor of the head makes a port of its endpoint.
LEMMA CalmSimpleDescRsp ==
  ASSUME CalmNetwork, ZdoInv, CalmInv, NEW a \in Addr, NEW ep \in Ep, SimpleDescRsp(a, ep)
  PROVE  CalmInv'
<1> DEFINE q == SimpleDesc(a, ep)
           h == pNewDevice[1]
<1>1. q \in Question /\ q.addr = a
  BY DEF SimpleDesc, Question
<1>2. /\ pNewDevice # <<>> /\ 1 \in DOMAIN pNewDevice
      /\ a = h.addr /\ FirstAt(a) = {1} /\ nwk[h.exAddr] = a /\ h.exAddr \in Dev
      /\ h.stry \in 0 .. DEVICE_TRY - 1
      /\ zdo_msgs = 0 /\ asked[q] \in Nat \ {0}
      /\ Answer(q) = {[asked EXCEPT ![q] = @ - 1]}
  BY <1>1, AnswerOfHead DEF SimpleDescRsp, ep_describe_process
<1>3. /\ nwk' = nwk /\ zdo_msgs' = 0
      /\ asked' = [asked EXCEPT ![q] = @ - 1]
      /\ ports' = zb_create_port(ports, h.exAddr, a, ep)
      /\ pNewDevice' = [i \in DOMAIN pNewDevice |->
           IF i \in {1} THEN [pNewDevice[i] EXCEPT !.finish_count = (@ + 1) % 256]
           ELSE pNewDevice[i]]
  BY <1>2 DEF SimpleDescRsp, ep_describe_process, CalmNetwork
<1>4. /\ DOMAIN pNewDevice' = DOMAIN pNewDevice /\ pNewDevice' # <<>>
      /\ pNewDevice'[1] = [h EXCEPT !.finish_count = (@ + 1) % 256]
      /\ \A i \in DOMAIN pNewDevice : i # 1 => pNewDevice'[i] = pNewDevice[i]
  BY <1>2, <1>3
<1>5. /\ pNewDevice'[1].addr = a /\ pNewDevice'[1].exAddr = h.exAddr
      /\ pNewDevice'[1].stry = h.stry
  BY <1>2, <1>4, ListType DEF Device
<1>6. /\ asked \in [Question -> Nat] /\ DEVICE_TRY \in Nat \ {0}
      /\ IsFiniteSet(DOMAIN ports) /\ PortTable(ports)
  BY Types, ZdoConstants DEF ZdoInv, ZdoTypeOK
<1>7. asked'[q] = asked[q] - 1 /\ \A r \in Question : r # q => asked'[r] = asked[r]
  BY <1>1, <1>3, <1>6
<1>8. ASSUME NEW e \in Ep
      PROVE  /\ UnderWay(a, e) \in Nat
             /\ UnderWay(a, e)' = UnderWay(a, e) - (IF e = ep THEN 1 ELSE 0)
  <2>1. /\ ActiveEp(a) \in Question /\ ActiveEp(a) # q
        /\ SimpleDesc(a, e) \in Question /\ (e # ep => SimpleDesc(a, e) # q)
        /\ UnderWay(a, e) \in Nat
    BY Questions
  <2>2. asked[ActiveEp(a)] \in Nat /\ asked[SimpleDesc(a, e)] \in Nat /\ asked[q] \in Nat
    BY <1>1, <1>6, <2>1
  <2>3. asked'[ActiveEp(a)] = asked[ActiveEp(a)]
    BY <1>7, <2>1
  <2>4. CASE e = ep
    BY <1>7, <2>1, <2>2, <2>3, <2>4 DEF UnderWay
  <2>5. CASE e # ep
    BY <1>7, <2>1, <2>2, <2>3, <2>5 DEF UnderWay
  <2> QED BY <2>4, <2>5
\* the table gains a port of the endpoint, or has no number left for it
<1>9. \/ ports' = ports /\ PortNum \ DOMAIN ports = {}
      \/ \E n \in PortNum \ DOMAIN ports : ports' = WithPort(ports, n, h.exAddr, a, ep)
  BY <1>2, <1>3, CreatePortAdds
<1>10. \A d \in Dev, e \in Ep :
         /\ PortCount(ports, d, e) \in Nat
         /\ \/ /\ PortCount(ports', d, e) = PortCount(ports, d, e)
               /\ PortNum \ DOMAIN ports = {} \/ d # h.exAddr \/ e # ep
            \/ /\ PortCount(ports', d, e) = PortCount(ports, d, e) + 1
               /\ d = h.exAddr /\ e = ep
  <2>1. \A d \in Dev, e \in Ep : PortCount(ports, d, e) \in Nat
    BY <1>6, CountType
  <2>2. CASE ports' = ports /\ PortNum \ DOMAIN ports = {}
    BY <2>1, <2>2
  <2>3. CASE \E n \in PortNum \ DOMAIN ports : ports' = WithPort(ports, n, h.exAddr, a, ep)
    <3>1. PICK n \in PortNum \ DOMAIN ports : ports' = WithPort(ports, n, h.exAddr, a, ep)
      BY <2>3
    <3>2. ASSUME NEW d \in Dev, NEW e \in Ep
          PROVE  PortCount(ports', d, e)
                   = PortCount(ports, d, e) + (IF d = h.exAddr /\ e = ep THEN 1 ELSE 0)
      BY <1>6, <3>1, CountMore
    <3> HIDE DEF h
    <3> QED BY <2>1, <3>2
  <2> QED BY <1>9, <2>2, <2>3
<1>11. \A p \in DOMAIN ports' :
         \/ p \in DOMAIN ports /\ ports'[p] = ports[p]
         \/ ports'[p].exaddr = h.exAddr /\ ports'[p].addr = a
  <2>1. ASSUME NEW n \in PortNum \ DOMAIN ports, NEW d, ports' = WithPort(ports, n, d, a, ep),
               NEW p \in DOMAIN ports'
        PROVE  \/ p \in DOMAIN ports /\ ports'[p] = ports[p]
               \/ ports'[p].exaddr = d /\ ports'[p].addr = a
    BY <2>1 DEF WithPort
  <2> HIDE DEF h
  <2> QED BY <1>9, <2>1
<1> HIDE DEF h
<1>12. MessagesInv'
  <2>1. \A r \in Question : asked'[r] # 0 => asked[r] # 0
    BY <1>2, <1>7
  <2>2. \A r \in Question : asked'[r] # 0 => r.addr = pNewDevice'[1].addr
    BY <1>2, <1>5, <2>1 DEF CalmInv, MessagesInv, h
  <2>3. zdo_msgs' = 0 /\ ~ (0 = 1) /\ ~ (0 = 2) /\ 0 <= 2
    BY <1>3
  <2> QED BY <1>4, <2>2, <2>3 DEF MessagesInv
<1>13. NamesInv'
  <2>1. \A i \in DOMAIN pNewDevice : /\ pNewDevice'[i].exAddr = pNewDevice[i].exAddr
                                     /\ pNewDevice'[i].addr = pNewDevice[i].addr
    BY ZenonT(30), <1>2, <1>4, <1>5 DEF h
  <2>2. \A p \in DOMAIN ports' : nwk[ports'[p].exaddr] = ports'[p].addr
    BY <1>2, <1>11 DEF CalmInv, NamesInv
  <2> QED BY <1>3, <1>4, <2>1, <2>2, CalmNames
<1>14. WaitInv'
  <2>1. ASSUME NEW i \in DOMAIN pNewDevice, i > 1 PROVE Unasked(i)'
    <3>1. i # 1 /\ Unasked(i) /\ pNewDevice[i].exAddr # h.exAddr
      BY <1>2, <2>1 DEF CalmInv, NamesInv, WaitInv, h
    <3>2. PortsOf(ports', pNewDevice[i].exAddr) = {}
      BY <1>11, <3>1 DEF Unasked, PortsOf, PortsWith
    <3> QED BY <1>4, <3>1, <3>2 DEF Unasked, NotAnswered
  <2>2. pNewDevice'[1].stry # DEVICE_TRY
    BY <1>2, <1>5, <1>6
  <2> QED BY <1>4, <2>1, <2>2 DEF WaitInv
<1>15. \A e \in Ep : PortCount(ports, h.exAddr, e) + UnderWay(a, e) <= DEVICE_TRY - h.stry
  BY <1>2 DEF CalmInv, TriesInv, h
<1>16. UnderWay(a, ep) > 0
  <2>1. asked[ActiveEp(a)] \in Nat
    BY <1>6, Questions
  <2> QED BY <1>2, <2>1 DEF UnderWay
<1>17. TriesInv'
  <2> SUFFICES ASSUME NEW e \in Ep
               PROVE  PortCount(ports', h.exAddr, e) + UnderWay(a, e)' <= DEVICE_TRY - h.stry
    BY <1>5 DEF TriesInv, UnderWay
  <2>1. /\ PortCount(ports, h.exAddr, e) \in Nat
        /\ \/ PortCount(ports', h.exAddr, e) = PortCount(ports, h.exAddr, e)
           \/ PortCount(ports', h.exAddr, e) = PortCount(ports, h.exAddr, e) + 1 /\ e = ep
    BY <1>2, <1>10
  <2> QED BY <1>2, <1>6, <1>8, <1>15, <2>1
<1>18. BoundInv'
  <2> SUFFICES ASSUME NEW d \in Dev, NEW e \in Ep
               PROVE  PortCount(ports', d, e) <= DEVICE_TRY
    BY DEF BoundInv
  <2>1. PortCount(ports, d, e) <= DEVICE_TRY
    BY DEF CalmInv, BoundInv
  <2>2. d = h.exAddr /\ e = ep => PortCount(ports, d, e) + 1 <= DEVICE_TRY
    BY <1>2, <1>6, <1>8, <1>10, <1>15, <1>16
  <2> QED BY <1>10, <2>1, <2>2
<1>19. OwedInv'
  <2> SUFFICES ASSUME EnoughPorts, NEW e \in Ep
               PROVE  PortCount(ports', h.exAddr, e) > 0 \/ UnderWay(a, e)' > 0
    BY <1>5 DEF OwedInv, UnderWay
  <2>1. /\ PortCount(ports, h.exAddr, e) \in Nat
        /\ \/ /\ PortCount(ports', h.exAddr, e) = PortCount(ports, h.exAddr, e)
              /\ PortNum \ DOMAIN ports = {} \/ e # ep
           \/ PortCount(ports', h.exAddr, e) = PortCount(ports, h.exAddr, e) + 1
    BY <1>2, <1>10
  <2>2. CASE e # ep
    <3>1. PortCount(ports, h.exAddr, e) > 0 \/ UnderWay(a, e) > 0
      <4>1. a # "none" /\ h.stry < DEVICE_TRY
        BY <1>2, <1>6, Types
      <4> QED BY <1>2, <4>1 DEF CalmInv, OwedInv, h
    <3> QED BY <1>8, <2>1, <2>2, <3>1
  <2>3. CASE e = ep
    <3>1. PortCount(ports, h.exAddr, e) = 0 => PortNum \ DOMAIN ports # {}
      BY <1>2, <1>6, FreePort DEF CalmInv, BoundInv
    <3> QED BY <2>1, <2>3, <3>1
  <2> QED BY <2>2, <2>3
<1> QED BY <1>12, <1>13, <1>14, <1>17, <1>18, <1>19 DEF CalmInv

\* A question is lost only when the head has left.
LEMMA CalmLose ==
  ASSUME CalmNetwork, ZdoInv, CalmInv, NEW Q \in SUBSET Question, Lose(Q)
  PROVE  CalmInv'
<1>0. PICK q \in Q : q \in Question /\ asked[q] # 0 /\ ~Present(q.addr)
  BY Types DEF Lose, CalmNetwork
<1>1. UNCHANGED <<pNewDevice, zdo_timer, zdo_msgs, ports, nwk>>
  BY DEF Lose
<1>2. \A r \in Question : asked[r] \in Nat /\ asked'[r] \in Nat /\ asked'[r] <= asked[r]
  <2>1. \A r \in Question : asked[r] \in Nat
    BY Types
  <2> QED BY <2>1 DEF Lose, TakeOut
<1>3. /\ Quiet => Quiet'
      /\ \A r \in Question : asked'[r] # 0 => asked[r] # 0
      /\ NotAnswered(1) => NotAnswered(1)'
  BY <1>1, <1>2 DEF Quiet, NotAnswered
<1>4. pNewDevice # <<>> /\ q.addr = pNewDevice[1].addr
  BY <1>0 DEF CalmInv, MessagesInv, Quiet
<1>5. 1 \in DOMAIN pNewDevice /\ pNewDevice[1].exAddr \in Dev /\ pNewDevice[1].addr \in Addr
      /\ pNewDevice[1].stry \in 0 .. DEVICE_TRY
  BY <1>4, Types
<1>6. nwk[pNewDevice[1].exAddr] = "none"
  BY <1>0, <1>4, <1>5 DEF CalmInv, NamesInv, Present
<1>7. MessagesInv'
  BY <1>1, <1>3 DEF CalmInv, MessagesInv
<1>8. NamesInv' /\ BoundInv' /\ OwedInv'
  BY <1>1, <1>6 DEF CalmInv, NamesInv, BoundInv, OwedInv
<1>9. WaitInv'
  BY <1>1, <1>3 DEF CalmInv, WaitInv, Unasked, NotAnswered
<1>10. TriesInv'
  <2> SUFFICES ASSUME NEW ep \in Ep
               PROVE  PortCount(ports, pNewDevice[1].exAddr, ep)
                        + UnderWay(pNewDevice[1].addr, ep)' <= DEVICE_TRY - pNewDevice[1].stry
    BY <1>1 DEF TriesInv
  <2> DEFINE a == pNewDevice[1].addr
             s == SimpleDesc(a, ep)
             n == PortCount(ports, pNewDevice[1].exAddr, ep)
  <2>1. ActiveEp(a) \in Question /\ s \in Question
    BY <1>5, Questions
  <2>2. n + (asked[ActiveEp(a)] + asked[s]) <= DEVICE_TRY - pNewDevice[1].stry
    BY <1>4 DEF CalmInv, TriesInv, UnderWay
  <2>3. UnderWay(pNewDevice[1].addr, ep)' = asked'[ActiveEp(a)] + asked'[s]
    BY <1>1 DEF UnderWay
  <2>4. n \in Nat
    BY Types, CountType
  <2>5. /\ asked[ActiveEp(a)] \in Nat /\ asked'[ActiveEp(a)] \in Nat
        /\ asked'[ActiveEp(a)] <= asked[ActiveEp(a)]
        /\ asked[s] \in Nat /\ asked'[s] \in Nat /\ asked'[s] <= asked[s]
    BY <1>2, <2>1
  <2> HIDE DEF n, s, a
  <2>6. n + (asked'[ActiveEp(a)] + asked'[s]) <= DEVICE_TRY - pNewDevice[1].stry
    BY <1>5, <2>2, <2>4, <2>5, Types
  <2> QED BY <2>3, <2>6 DEF n
<1> QED BY <1>7, <1>8, <1>9, <1>10 DEF CalmInv

\* The task asks the head, or goes on to the next device when nothing is under
\* way: a message that waits does not end an interview that goes on.
LEMMA CalmTask ==
  ASSUME CalmNetwork, ZdoInv, CalmInv, zdo_task
  PROVE  CalmInv'
<1>0. zdo_msgs \in {1, 2} /\ DEVICE_TRY \in Nat /\ DEVICE_TRY > 1
  BY Types DEF zdo_task, CalmInv, MessagesInv, CalmNetwork
<1>1. CASE ZdoTaskPop
  <2>1. /\ pNewDevice # <<>> /\ pNewDevice' = Tail(pNewDevice) /\ zdo_msgs' = zdo_msgs
        /\ UNCHANGED <<ports, asked, nwk>>
    BY <1>1 DEF ZdoTaskPop
  <2>2. /\ Len(pNewDevice) \in Nat /\ DOMAIN pNewDevice = 1 .. Len(pNewDevice)
        /\ DOMAIN pNewDevice' = 1 .. Len(pNewDevice) - 1
        /\ \A i \in DOMAIN pNewDevice' : pNewDevice'[i] = pNewDevice[i + 1]
        /\ pNewDevice' # <<>> => 1 \in DOMAIN pNewDevice'
    <3> HIDE DEF Device
    <3>1. pNewDevice' \in Seq(Device) /\ Len(pNewDevice') = Len(pNewDevice) - 1
      BY <2>1, ListType
    <3> QED BY <2>1, <3>1, ListType, Types
  <2>3. \A i \in DOMAIN pNewDevice' : i \in Nat /\ i + 1 \in DOMAIN pNewDevice /\ i + 1 > 1
    BY <2>2
  <2>4. Quiet /\ zdo_msgs = 1
    <3>1. ~ (NotAnswered(1) /\ pNewDevice[1].stry > 0)
      <4>1. pNewDevice[1].stry = 0 \/ pNewDevice[1].point_num = pNewDevice[1].finish_count
        BY <1>1, <2>1, ListType DEF ZdoTaskPop, HeadFinished
      <4> QED BY <4>1 DEF NotAnswered, NOT_KNOWN
    <3>2. zdo_msgs # 2
      BY <1>0, <3>1 DEF CalmInv, MessagesInv
    <3> QED BY <1>0, <3>1, <3>2 DEF CalmInv, MessagesInv
  <2>5. ASSUME NEW i \in DOMAIN pNewDevice' PROVE Unasked(i)'
    <3>1. Unasked(i + 1)
      BY <2>3 DEF CalmInv, WaitInv
    <3> QED BY <2>1, <2>2, <3>1 DEF Unasked, NotAnswered
  <2>6. Quiet' /\ zdo_msgs' = 1 /\ ~ (1 = 2) /\ 1 <= 2 /\ 1 <= 1
    BY <2>1, <2>4 DEF Quiet
  <2>7. MessagesInv'
    <3>1. \A q \in Question : asked'[q] = 0
      BY <2>6 DEF Quiet
    <3> QED BY <2>6, <3>1 DEF MessagesInv
  <2>8. NamesInv'
    <3>1. \A i, j \in DOMAIN pNewDevice' : i # j => i + 1 # j + 1
      BY <2>3
    <3> QED BY <2>1, <2>2, <2>3, <3>1 DEF CalmInv, NamesInv
  <2>9. BoundInv'
    BY <2>1 DEF CalmInv, BoundInv
  <2>10. WaitInv'
    BY <2>2, <2>5, <2>6 DEF WaitInv
  <2>11. TriesInv' /\ OwedInv'
    <3> SUFFICES ASSUME pNewDevice' # <<>> PROVE TriesInv' /\ OwedInv'
      BY DEF TriesInv, OwedInv
    <3> DEFINE h == pNewDevice'[1]
    <3>1. h.stry = DEVICE_TRY /\ PortsOf(ports, h.exAddr) = {}
      BY <2>1, <2>2, <2>5 DEF Unasked
    <3>2. \A ep \in Ep : PortCount(ports, h.exAddr, ep) = 0
      BY <3>1, Types, CountType
    <3>3. h.addr \in Addr
      BY <2>2, <2>3, Types
    <3>4. \A ep \in Ep : ActiveEp(h.addr) \in Question /\ SimpleDesc(h.addr, ep) \in Question
      BY <3>3, Questions
    <3>5. \A ep \in Ep : asked'[ActiveEp(h.addr)] = 0 /\ asked'[SimpleDesc(h.addr, ep)] = 0
      BY <2>6, <3>4 DEF Quiet
    <3>6. 0 + (0 + 0) <= DEVICE_TRY - DEVICE_TRY /\ ~ (DEVICE_TRY < DEVICE_TRY)
      BY <1>0
    <3> HIDE DEF h
    <3>7. TriesInv'
      <4>1. \A ep \in Ep : PortCount(ports', h.exAddr, ep)
                + (asked'[ActiveEp(h.addr)] + asked'[SimpleDesc(h.addr, ep)]) <= DEVICE_TRY - h.stry
        BY <2>1, <3>1, <3>2, <3>5, <3>6
      <4> QED BY <4>1 DEF TriesInv, UnderWay, h
    <3>8. OwedInv'
      BY <3>1, <3>6 DEF OwedInv, h
    <3> QED BY <3>7, <3>8
  <2> QED BY <2>7, <2>8, <2>9, <2>10, <2>11 DEF CalmInv
<1>2. CASE ZdoTaskAsk
  <2> DEFINE q == ActiveEp(pNewDevice[1].addr)
             h == pNewDevice[1]
             r == [pNewDevice[1] EXCEPT !.stry = @ - 1]
  <2>1. /\ pNewDevice # <<>> /\ 1 \in DOMAIN pNewDevice /\ h \in Device
        /\ Head(pNewDevice) = h /\ h.addr \in Addr /\ h.exAddr \in Dev
        /\ h.stry \in 0 .. DEVICE_TRY
    BY <1>2, ListType, Types DEF ZdoTaskAsk, UseTry
  <2>2. q \in Question /\ q.addr = h.addr
    BY <2>1 DEF ActiveEp, Question
  <2>3. /\ pNewDevice' = [pNewDevice EXCEPT ![1] = r]
        /\ asked' = Ask(asked, {q}) /\ zdo_msgs' = zdo_msgs - 1
        /\ UNCHANGED <<ports, nwk>>
    BY <1>2, <2>1 DEF ZdoTaskAsk, UseTry
  <2>4. /\ r.addr = h.addr /\ r.exAddr = h.exAddr /\ r.point_num = h.point_num
        /\ r.finish_count = h.finish_count /\ r.stry = h.stry - 1
    BY <2>1 DEF Device
  <2>5. h.stry \in 1 .. DEVICE_TRY
    BY <1>2, <2>1 DEF ZdoTaskAsk, UseTry, HeadFinished
  <2> HIDE DEF r
  <2>6. /\ DOMAIN pNewDevice' = DOMAIN pNewDevice /\ pNewDevice'[1] = r
        /\ pNewDevice' # <<>>
        /\ \A i \in DOMAIN pNewDevice : i # 1 => pNewDevice'[i] = pNewDevice[i]
    BY <2>1, <2>3
  <2>7. /\ asked \in [Question -> Nat] /\ MaxAsked \in Nat /\ MaxAsked > 0
    BY ZdoConstants DEF ZdoInv, ZdoTypeOK, CalmNetwork
  <2>8. /\ \A s \in Question : s # q => asked'[s] = asked[s]
        /\ asked'[q] = IF asked[q] < MaxAsked THEN asked[q] + 1 ELSE asked[q]
    BY <2>2, <2>3 DEF Ask
  <2>9. NotAnswered(1) => NotAnswered(1)'
    BY <2>4, <2>6 DEF NotAnswered
  <2>10. MessagesInv'
    <3>1. \A s \in Question : asked'[s] # 0 => s.addr = pNewDevice'[1].addr
      BY <2>2, <2>4, <2>6, <2>8 DEF CalmInv, MessagesInv
    <3>2. zdo_msgs' = 1 => NotAnswered(1)' /\ pNewDevice'[1].stry > 0
      <4> HAVE zdo_msgs' = 1
      <4>1. zdo_msgs = 2
        BY <1>0, <2>3
      <4>2. h.stry = DEVICE_TRY /\ NotAnswered(1)
        BY <4>1 DEF CalmInv, MessagesInv
      <4> HIDE DEF h
      <4> QED BY <1>0, <2>4, <2>6, <2>9, <4>2
    <3>3. zdo_msgs' \in {0, 1}
      BY <1>0, <2>3
    <3>4. zdo_msgs' <= 2 /\ zdo_msgs' # 2
      BY <3>3
    <3> QED BY <2>6, <3>1, <3>2, <3>4 DEF MessagesInv
  <2>11. NamesInv'
    <3>1. \A i \in DOMAIN pNewDevice : /\ pNewDevice'[i].exAddr = pNewDevice[i].exAddr
                                       /\ pNewDevice'[i].addr = pNewDevice[i].addr
      BY <2>4, <2>6
    <3>2. \A p \in DOMAIN ports' : nwk[ports'[p].exaddr] = ports'[p].addr
      BY <2>3 DEF CalmInv, NamesInv
    <3> QED BY <2>3, <2>6, <3>1, <3>2, CalmNames
  <2>12. WaitInv'
    <3>1. ASSUME NEW i \in DOMAIN pNewDevice, i > 1 PROVE Unasked(i)'
      <4>1. i # 1 /\ Unasked(i)
        BY <3>1 DEF CalmInv, WaitInv
      <4> QED BY <2>3, <2>6, <4>1 DEF Unasked, NotAnswered
    <3>2. h.stry - 1 # DEVICE_TRY
      BY <2>5
    <3> QED BY <2>4, <2>6, <3>1, <3>2 DEF WaitInv
  <2>13. BoundInv'
    BY <2>3 DEF CalmInv, BoundInv
  <2>14. ASSUME NEW ep \in Ep
         PROVE  LET n == asked'[ActiveEp(r.addr)] + asked'[SimpleDesc(r.addr, ep)]
                IN  PortCount(ports', r.exAddr, ep) + n <= DEVICE_TRY - r.stry /\ n > 0
    <3> DEFINE s == SimpleDesc(h.addr, ep)
               n == PortCount(ports, h.exAddr, ep)
    <3>1. s \in Question /\ s # q
      BY <2>1, Questions
    <3>2. n + (asked[q] + asked[s]) <= DEVICE_TRY - h.stry
      BY <2>1 DEF CalmInv, TriesInv, UnderWay
    <3>3. n \in Nat /\ asked[q] \in Nat /\ asked[s] \in Nat
      BY <2>2, <2>7, <3>1, Types, CountType
    <3>4. asked'[s] = asked[s]
      BY <2>8, <3>1
    <3>5. asked'[ActiveEp(r.addr)] = asked'[q] /\ asked'[SimpleDesc(r.addr, ep)] = asked'[s]
      BY <2>4
    <3>6. PortCount(ports', r.exAddr, ep) = n
      BY <2>3, <2>4
    <3> HIDE DEF q, s, n, h
    <3>7. n + (asked'[q] + asked'[s]) <= DEVICE_TRY - r.stry /\ asked'[q] + asked'[s] > 0
      BY <1>0, <2>4, <2>5, <2>7, <2>8, <3>2, <3>3, <3>4
    <3> QED BY <3>5, <3>6, <3>7
  <2>15. TriesInv' /\ OwedInv'
    BY <2>6, <2>14 DEF TriesInv, OwedInv, UnderWay
  <2> QED BY <2>10, <2>11, <2>12, <2>13, <2>15 DEF CalmInv
<1>3. CASE ZdoTaskEnd
  <2>1. /\ pNewDevice = <<>> /\ pNewDevice' = pNewDevice /\ zdo_msgs' = 0
        /\ UNCHANGED <<ports, asked, nwk>>
    BY <1>0, <1>3 DEF ZdoTaskEnd, CalmInv, MessagesInv
  <2>2. Quiet'
    BY <2>1 DEF CalmInv, MessagesInv, Quiet
  <2>3. MessagesInv'
    <3>1. \A q \in Question : asked'[q] = 0
      BY <2>2 DEF Quiet
    <3>2. 0 <= 2 /\ 0 <= 1 /\ ~ (0 = 1) /\ ~ (0 = 2)
      OBVIOUS
    <3> QED BY <2>1, <2>2, <3>1, <3>2 DEF MessagesInv
  <2>4. NamesInv' /\ BoundInv' /\ TriesInv' /\ OwedInv'
    BY <2>1 DEF CalmInv, NamesInv, BoundInv, TriesInv, OwedInv
  <2>5. WaitInv'
    BY <2>1 DEF CalmInv, WaitInv, Unasked, NotAnswered
  <2> QED BY <2>3, <2>4, <2>5 DEF CalmInv
<1> QED BY <1>1, <1>2, <1>3 DEF zdo_task

\* The timer fires when nothing is asked and no message waits.
LEMMA CalmTimer ==
  ASSUME CalmNetwork, ZdoInv, CalmInv, ZdoTimerFires
  PROVE  CalmInv'
<1>1. /\ Quiet /\ zdo_msgs' = 1
      /\ UNCHANGED <<pNewDevice, ports, asked, nwk>>
  BY DEF ZdoTimerFires, CalmNetwork
<1>2. Quiet' /\ 1 <= 2 /\ 1 <= 1 /\ ~ (1 = 2)
  BY <1>1 DEF Quiet
<1>3. MessagesInv'
  BY <1>1, <1>2 DEF CalmInv, MessagesInv
<1>4. NamesInv' /\ BoundInv'
  BY <1>1 DEF CalmInv, NamesInv, BoundInv
<1>5. WaitInv'
  BY <1>1, <1>2 DEF CalmInv, WaitInv, Unasked, NotAnswered
<1>6. TriesInv' /\ OwedInv'
  BY <1>1 DEF CalmInv, TriesInv, OwedInv, UnderWay
<1> QED BY <1>3, <1>4, <1>5, <1>6 DEF CalmInv

\* Every step of a calm network keeps the invariant.
LEMMA CalmStep == CalmNetwork /\ ZdoInv /\ CalmInv /\ [ZdoNext]_zdoVars => CalmInv'
<1> SUFFICES ASSUME CalmNetwork, ZdoInv, CalmInv, [ZdoNext]_zdoVars PROVE CalmInv'
  OBVIOUS
<1>1. \A d \in Dev, a \in Addr : ~AnnounceNoMemory(d, a)
  BY DEF AnnounceNoMemory, CalmNetwork
<1>2. ~Restart
  BY DEF Restart, CalmNetwork
<1>3. CASE UNCHANGED zdoVars
  BY <1>3 DEF zdoVars, CalmInv, MessagesInv, NamesInv, WaitInv, Quiet, Unasked,
              NotAnswered, TriesInv, OwedInv, BoundInv, UnderWay
<1> QED
  BY <1>1, <1>2, <1>3, CalmAnnounce, CalmLeave, CalmActiveEpRsp, CalmSimpleDescRsp,
     CalmLose, CalmTimer, CalmTask DEF ZdoNext

\* The only step of a calm network that takes a device off the list.
LEMMA OnlyPopEnds ==
  ASSUME CalmNetwork, ZdoInv, [ZdoNext]_zdoVars,
         NEW d \in Dev, Listed(d), ~(Listed(d))'
  PROVE  zdo_task /\ ZdoTaskPop /\ 1 \in DOMAIN pNewDevice /\ d = pNewDevice[1].exAddr
<1>1. PICK i \in DOMAIN pNewDevice : pNewDevice[i].exAddr = d
  BY DEF Listed
<1>2. ~ (i \in DOMAIN pNewDevice' /\ pNewDevice'[i].exAddr = d)
  BY DEF Listed
<1>3. pNewDevice' # pNewDevice
  BY <1>1, <1>2
<1>4. ASSUME NEW e \in Dev, NEW a \in Addr, Announce(e, a) PROVE FALSE
  <2> DEFINE new == [exAddr |-> e, addr |-> a, stry |-> DEVICE_TRY,
                     point_num |-> NOT_KNOWN, finish_count |-> 0]
  <2>1. new \in Device
    BY ZdoConstants DEF Device
  <2>2. pNewDevice' = Append(pNewDevice, new)
    BY <1>4 DEF Announce
  <2> HIDE DEF new, Device
  <2>3. i \in DOMAIN pNewDevice' /\ pNewDevice'[i] = pNewDevice[i]
    BY <1>1, <2>1, <2>2, ListType, AppendProperties
  <2> QED BY <1>1, <1>2, <2>3
<1>5. ASSUME NEW a \in Addr, ActiveEpRsp(a) PROVE FALSE
  <2>1. i \in DOMAIN pNewDevice' /\ pNewDevice'[i].exAddr = d
    BY <1>1, <1>5, ListType DEF ActiveEpRsp, set_point_num, Device
  <2> QED BY <1>2, <2>1
<1>6. ASSUME NEW a \in Addr, NEW ep \in Ep, SimpleDescRsp(a, ep) PROVE FALSE
  <2>1. i \in DOMAIN pNewDevice' /\ pNewDevice'[i].exAddr = d
    BY <1>1, <1>6, ListType DEF SimpleDescRsp, ep_describe_process, Device
  <2> QED BY <1>2, <2>1
<1>7. CASE zdo_task
  <2>1. CASE ZdoTaskPop
    <3>1. /\ Len(pNewDevice) \in Nat /\ DOMAIN pNewDevice = 1 .. Len(pNewDevice)
          /\ DOMAIN pNewDevice' = 1 .. Len(pNewDevice) - 1
          /\ \A k \in DOMAIN pNewDevice' : pNewDevice'[k] = pNewDevice[k + 1]
          /\ 1 \in DOMAIN pNewDevice
      <4> HIDE DEF Device
      <4>1. pNewDevice' \in Seq(Device) /\ Len(pNewDevice') = Len(pNewDevice) - 1
        BY <2>1, ListType DEF ZdoTaskPop
      <4> QED BY <2>1, <4>1, ListType, Types DEF ZdoTaskPop
    <3>2. i = 1
      <4> SUFFICES ASSUME i # 1 PROVE FALSE
        OBVIOUS
      <4>1. i - 1 \in DOMAIN pNewDevice' /\ (i - 1) + 1 = i
        BY <1>1, <3>1
      <4>2. pNewDevice'[i - 1] = pNewDevice[i]
        BY <3>1, <4>1
      <4> QED BY <1>1, <4>1, <4>2 DEF Listed
    <3> QED BY <1>1, <1>7, <2>1, <3>1, <3>2
  <2>2. CASE ZdoTaskAsk
    <3>1. i \in DOMAIN pNewDevice' /\ pNewDevice'[i].exAddr = d
      BY <1>1, <2>2, ListType DEF ZdoTaskAsk, UseTry, Device
    <3> QED BY <1>2, <3>1
  <2>3. CASE ZdoTaskEnd
    BY <1>3, <2>3 DEF ZdoTaskEnd
  <2> QED BY <1>7, <2>1, <2>2, <2>3 DEF zdo_task
<1>8. CASE zdo_task \/ pNewDevice' = pNewDevice
  BY <1>3, <1>7, <1>8
<1> QED BY <1>4, <1>5, <1>6, <1>8 DEF ZdoNext, AnnounceNoMemory, Leave, Lose,
      ZdoTimerFires, Restart, zdoVars, CalmNetwork

InterviewCompleteStep ==
  \A d \in Dev :
    /\ Listed(d) /\ ~(Listed(d))'
    /\ nwk[d] # "none"
    => \A ep \in Ep : \E p \in PortsOf(ports, d) :
         ports[p].ep = ep /\ ports[p].addr = nwk[d]

\* InterviewComplete for one step.
LEMMA CompleteAtTheEnd ==
  CalmNetwork /\ EnoughPorts /\ ZdoInv /\ CalmInv /\ [ZdoNext]_zdoVars
    => InterviewCompleteStep
<1> SUFFICES ASSUME CalmNetwork, EnoughPorts, ZdoInv, CalmInv, [ZdoNext]_zdoVars,
                    NEW d \in Dev, Listed(d), ~(Listed(d))', nwk[d] # "none",
                    NEW ep \in Ep
             PROVE  \E p \in PortsOf(ports, d) :
                      ports[p].ep = ep /\ ports[p].addr = nwk[d]
  BY DEF InterviewCompleteStep
<1> DEFINE h == pNewDevice[1]
<1>1. zdo_task /\ ZdoTaskPop /\ 1 \in DOMAIN pNewDevice /\ d = h.exAddr
  BY OnlyPopEnds
<1>2. pNewDevice # <<>> /\ h.addr \in Addr /\ h.stry \in 0 .. DEVICE_TRY
  BY <1>1, Types DEF ZdoTaskPop
<1>3. h.stry = 0 \/ h.point_num = h.finish_count
  BY <1>1, <1>2, ListType DEF ZdoTaskPop, HeadFinished
<1>4. ~ (NotAnswered(1) /\ h.stry > 0)
  BY <1>3 DEF NotAnswered, NOT_KNOWN
<1>5. Quiet
  <2>1. zdo_msgs \in {1, 2}
    BY <1>1, Types DEF zdo_task, CalmInv, MessagesInv
  <2> QED BY <1>4, <2>1 DEF CalmInv, MessagesInv
<1>6. h.stry < DEVICE_TRY
  <2>1. ~Unasked(1)
    BY <1>4, ZdoConstants DEF Unasked
  <2> QED BY <1>2, <2>1, Types DEF CalmInv, WaitInv
<1>7. PortCount(ports, d, ep) > 0
  <2>1. UnderWay(h.addr, ep) = 0
    BY <1>2, <1>5, Questions
  <2>2. PortCount(ports, d, ep) > 0 \/ UnderWay(h.addr, ep) > 0
    BY <1>1, <1>2, <1>6 DEF CalmInv, OwedInv
  <2> QED BY <2>1, <2>2
<1>8. PICK p \in PortsOf(ports, d) : ports[p].ep = ep
  BY <1>7, Types, CountType
<1>9. ports[p].addr = nwk[d]
  BY DEF CalmInv, NamesInv, PortsOf, PortsWith
<1> QED BY <1>8, <1>9

\* The invariant of a calm network holds at the start.
LEMMA InitCalm == ZdoInit => CalmInv
<1> SUFFICES ASSUME ZdoInit PROVE CalmInv
  OBVIOUS
<1>1. Quiet /\ DOMAIN pNewDevice = {} /\ DOMAIN ports = {} /\ zdo_msgs = 0
  BY DEF ZdoInit, Quiet, NoPorts
<1>2. MessagesInv
  BY <1>1 DEF ZdoInit, MessagesInv, Quiet
<1>3. BoundInv
  <2>1. IsFiniteSet(DOMAIN ports)
    BY <1>1, FS_EmptySet
  <2>2. \A d \in Dev, ep \in Ep : PortCount(ports, d, ep) = 0
    BY <1>1, <2>1, CountType DEF PortsOf, PortsWith
  <2> QED BY <2>2, ZdoConstants DEF BoundInv
<1> QED BY <1>1, <1>2, <1>3 DEF ZdoInit, CalmInv, NamesInv, WaitInv, TriesInv, OwedInv

\* OnePortPerTry follows: the head has no more ports than tries used, those
\* behind it none.
LEMMA PortsWithinTries == ZdoInv /\ CalmInv => OnePortPerTry
<1> SUFFICES ASSUME ZdoInv, CalmInv, NEW d \in Dev, NEW ep \in Ep,
                    NEW i \in DOMAIN pNewDevice, pNewDevice[i].exAddr = d
             PROVE  PortCount(ports, d, ep) <= DEVICE_TRY - pNewDevice[i].stry
  BY DEF CalmInv, BoundInv, OnePortPerTry
<1>1. PortCount(ports, d, ep) \in Nat
  BY Types, CountType
<1>2. CASE i = 1
  <2>1. PortCount(ports, d, ep) + UnderWay(pNewDevice[1].addr, ep)
          <= DEVICE_TRY - pNewDevice[1].stry
    BY <1>2 DEF CalmInv, TriesInv
  <2>2. UnderWay(pNewDevice[1].addr, ep) \in Nat
    BY <1>2, Types, Questions
  <2>3. pNewDevice[1].stry \in 0 .. DEVICE_TRY
    BY <1>2, Types
  <2> QED BY <1>1, <1>2, <2>1, <2>2, <2>3, Types
<1>3. CASE i # 1
  <2>1. Unasked(i)
    BY <1>3, Types DEF CalmInv, WaitInv
  <2>2. PortCount(ports, d, ep) = 0
    BY <2>1, Types, CountType DEF Unasked
  <2> QED BY <2>1, <2>2, Types DEF Unasked
<1> QED BY <1>2, <1>3

\* In a network that behaves well an endpoint gets a port for each time its
\* device was asked at most, though announcements meet messages that wait.
THEOREM PortsForTries ==
  ASSUME CalmNetwork
  PROVE  ZdoSpec => []OnePortPerTry
<1>1. ZdoInv /\ CalmInv /\ [ZdoNext]_zdoVars => CalmInv'
  BY CalmStep
<1> QED BY <1>1, PortsWithinTries, InitTypes, InitCalm, TypeStep, PTL DEF ZdoSpec

\* In a network that behaves well, with a port number for every time an
\* endpoint is asked for, an interview ends with a port for each endpoint.
THEOREM InterviewIsComplete ==
  ASSUME CalmNetwork, EnoughPorts
  PROVE  ZdoSpec => InterviewComplete
<1>1. ZdoInv /\ CalmInv /\ [ZdoNext]_zdoVars => CalmInv'
  BY CalmStep
<1>2. ZdoInv /\ CalmInv /\ [ZdoNext]_zdoVars =>
        [\A d \in Dev :
           /\ Listed(d) /\ ~(Listed(d))'
           /\ nwk[d] # "none"
           => \A ep \in Ep : \E p \in PortsOf(ports, d) :
                ports[p].ep = ep /\ ports[p].addr = nwk[d]]_zdoVars
  BY CompleteAtTheEnd DEF InterviewCompleteStep
<1> QED BY <1>1, <1>2, InitTypes, InitCalm, TypeStep, PTL
     DEF ZdoSpec, InterviewComplete
============================================================================
