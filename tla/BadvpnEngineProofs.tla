------------------------- MODULE BadvpnEngineProofs -------------------------
(***************************************************************************)
(* tun2socks' UDP, for any addresses, any number of connections and any    *)
(* buffer: a packet has one way out, a new connection's first packet is    *)
(* still the one in the device's buffer when its job runs, and what pdnsd  *)
(* answers finds who asked.  With the TCP relay's proofs and pdnsd's, the  *)
(* limits of the whole engine follow.                                      *)
(***************************************************************************)
EXTENDS BadvpnEngine, TcpRelayProofs, PdnsdProofs, FiniteSetTheorems, SequenceTheorems

-----------------------------------------------------------------------------
(* The gateway's and the client's fields *)

Entries == [server : Remotes \cup {Nothing}, count : 0..MaxQueries]

LinkInv ==
  /\ have_socks \in BOOLEAN /\ socks_up \in BOOLEAN
  /\ reconnect \in BOOLEAN /\ have_server \in BOOLEAN
  /\ reconnect = ~have_socks
  /\ have_server = (have_socks /\ socks_up)

(***************************************************************************)
(* A conid is on the list once at most, and so the list is never longer    *)
(* than the conids; two on the list carry two addresses.                   *)
(***************************************************************************)
TableInv ==
  /\ connections \in Seq(Conids) /\ Len(connections) <= MaxConnections
  /\ IsInjective(connections)
  /\ next_conid \in Conids
  /\ conaddr \in [Conids -> Addresses \cup {Nothing}]
  /\ \A k \in InUse : conaddr[k] \in Addresses
  /\ \A k, m \in InUse : conaddr[k] = conaddr[m] => k = m
  /\ buffered \in [Conids -> 0..BufferSize]

(***************************************************************************)
(* What is pending while a packet is in the device's buffer: the done job, *)
(* and before it the first job of a new connection, which carries that     *)
(* packet's address.                                                       *)
(***************************************************************************)
JobsInv ==
  \/ device = Nothing /\ jobs = <<>>
  \/ device \in Addresses /\ jobs = <<<<"done">>>>
  \/ /\ device \in Addresses
     /\ \E k \in InUse : /\ jobs = <<<<"first", k>>, <<"done">>>>
                         /\ conaddr[k] = device

(***************************************************************************)
(* An entry counts at least the queries that pdnsd may still answer.       *)
(***************************************************************************)
GateInv ==
  /\ dns \in [Locals -> Entries]
  /\ asked \in [Locals -> Seq(Remotes)]
  /\ RepliesFindEntry

UdpInv == LinkInv /\ TableInv /\ JobsInv /\ GateInv

-----------------------------------------------------------------------------
(* Sequences *)

\* RemoveAt takes out one element and keeps the order of the others.
LEMMA RemoveAtProperties ==
  ASSUME NEW S, NEW s \in Seq(S), NEW i \in 1..Len(s)
  PROVE  /\ RemoveAt(s, i) \in Seq(S)
         /\ Len(RemoveAt(s, i)) = Len(s) - 1
         /\ \A j \in 1..Len(s) - 1 :
              RemoveAt(s, i)[j] = IF j < i THEN s[j] ELSE s[j + 1]
<1> DEFINE a == SubSeq(s, 1, i - 1)
           b == SubSeq(s, i + 1, Len(s))
<1>0. Len(s) \in Nat /\ i \in Int
  BY LenProperties
<1>1. /\ a \in Seq(S) /\ Len(a) = i - 1
      /\ \A j \in 1..i - 1 : a[j] = s[j]
  <2>1. \A j \in 1..i - 1 : s[j] \in S
    BY <1>0, ElementOfSeq
  <2> QED BY <1>0, <2>1, SubSeqProperties
<1>2. /\ b \in Seq(S) /\ Len(b) = Len(s) - i
      /\ \A j \in 1..Len(s) - i : b[j] = s[i + j]
  <2>1. \A j \in i + 1..Len(s) : s[j] \in S
    BY <1>0, ElementOfSeq
  <2>2. b \in Seq(S) /\ Len(b) = IF i + 1 <= Len(s) THEN Len(s) - (i + 1) + 1 ELSE 0
    BY <1>0, <2>1, SubSeqProperties
  <2>3. \A j \in 1..Len(s) - (i + 1) + 1 : b[j] = s[i + 1 + j - 1]
    BY <1>0, <2>1, SubSeqProperties
  <2>4. \A j \in 1..Len(s) - i : b[j] = s[i + j]
    BY <1>0, <2>3
  <2> QED BY <1>0, <2>2, <2>4
<1> HIDE DEF a, b
<1>3. /\ a \o b \in Seq(S) /\ Len(a \o b) = Len(a) + Len(b)
      /\ \A j \in 1..Len(a) + Len(b) :
           (a \o b)[j] = IF j <= Len(a) THEN a[j] ELSE b[j - Len(a)]
  BY <1>1, <1>2, ConcatProperties
<1>4. RemoveAt(s, i) = a \o b
  BY DEF RemoveAt, a, b
<1>5. ASSUME NEW j \in 1..Len(s) - 1
      PROVE  (a \o b)[j] = IF j < i THEN s[j] ELSE s[j + 1]
  <2>1. CASE j < i
    BY <2>1, <1>0, <1>1, <1>2, <1>3
  <2>2. CASE ~(j < i)
    <3>1. j - Len(a) \in 1..Len(s) - i /\ i + (j - Len(a)) = j + 1
      BY <2>2, <1>0, <1>1
    <3>2. b[j - Len(a)] = s[j + 1]
      BY <3>1, <1>2
    <3>3. j \in 1..Len(a) + Len(b) /\ ~(j <= Len(a))
      BY <2>2, <1>0, <1>1, <1>2
    <3> QED BY <2>2, <3>2, <3>3, <1>3
  <2> QED BY <2>1, <2>2
<1>6. Len(a \o b) = Len(s) - 1
  BY <1>0, <1>1, <1>2, <1>3
<1> QED BY <1>3, <1>4, <1>5, <1>6

\* Two sequences of one element make a pair.
LEMMA PairConcat ==
  ASSUME NEW x, NEW y
  PROVE  <<x>> \o <<y>> = <<x, y>>
<1> DEFINE S == {x, y}
<1>1. /\ <<x>> \in Seq(S) /\ <<y>> \in Seq(S) /\ <<x, y>> \in Seq(S)
      /\ Len(<<x>>) = 1 /\ Len(<<y>>) = 1 /\ Len(<<x, y>>) = 2
  OBVIOUS
<1>2. /\ <<x>> \o <<y>> \in Seq(S) /\ Len(<<x>> \o <<y>>) = 2
      /\ \A i \in 1..2 : (<<x>> \o <<y>>)[i] = IF i <= 1 THEN <<x>>[i] ELSE <<y>>[i - 1]
  BY <1>1, ConcatProperties
<1>3. \A i \in 1..2 : (<<x>> \o <<y>>)[i] = <<x, y>>[i]
  <2>1. (<<x>> \o <<y>>)[1] = x /\ (<<x>> \o <<y>>)[2] = y
    BY <1>2
  <2> QED BY <2>1
<1> QED BY <1>1, <1>2, <1>3, SeqEqual

\* What is added at the end is in the set, and stays alone if it is new.
LEMMA AppendNew ==
  ASSUME NEW S, NEW s \in Seq(S), NEW e \in S, IsInjective(s), e \notin ToSet(s)
  PROVE  /\ Append(s, e) \in Seq(S) /\ Len(Append(s, e)) = Len(s) + 1
         /\ IsInjective(Append(s, e))
         /\ ToSet(Append(s, e)) = ToSet(s) \cup {e}
<1> DEFINE t == Append(s, e)
<1>1. /\ t \in Seq(S) /\ Len(t) = Len(s) + 1
      /\ \A i \in 1..Len(s) : t[i] = s[i]
      /\ t[Len(s) + 1] = e
  BY AppendProperties
<1>2. /\ Len(s) \in Nat /\ DOMAIN s = 1..Len(s) /\ DOMAIN t = 1..Len(s) + 1
  BY <1>1, LenProperties
<1> HIDE DEF t
<1>3. \A i \in 1..Len(s) : s[i] # e
  BY <1>2 DEF ToSet
<1>4. IsInjective(t)
  <2> SUFFICES ASSUME NEW i \in 1..Len(s) + 1, NEW j \in 1..Len(s) + 1, t[i] = t[j]
               PROVE  i = j
    BY <1>2 DEF IsInjective
  <2>1. \A a, b \in 1..Len(s) : s[a] = s[b] => a = b
    BY <1>2 DEF IsInjective
  <2> QED BY <1>1, <1>2, <1>3, <2>1
<1>5. ToSet(t) = {t[i] : i \in 1..Len(s) + 1} /\ ToSet(s) = {s[i] : i \in 1..Len(s)}
  BY <1>2 DEF ToSet
<1>6. ToSet(t) = ToSet(s) \cup {e}
  BY <1>1, <1>2, <1>5
<1> QED BY <1>1, <1>4, <1>6 DEF t

\* Taking out the only occurrence takes the element out of the set.
LEMMA RemoveOnly ==
  ASSUME NEW S, NEW s \in Seq(S), NEW i \in 1..Len(s), IsInjective(s)
  PROVE  /\ IsInjective(RemoveAt(s, i))
         /\ ToSet(RemoveAt(s, i)) = ToSet(s) \ {s[i]}
<1> DEFINE t == RemoveAt(s, i)
           from(j) == IF j < i THEN j ELSE j + 1
<1>1. /\ t \in Seq(S) /\ Len(t) = Len(s) - 1
      /\ \A j \in 1..Len(s) - 1 : t[j] = IF j < i THEN s[j] ELSE s[j + 1]
  BY RemoveAtProperties
<1>2. /\ Len(s) \in Nat /\ DOMAIN s = 1..Len(s) /\ DOMAIN t = 1..Len(s) - 1
  BY <1>1, LenProperties
<1> HIDE DEF t
<1>3. \A a, b \in 1..Len(s) : s[a] = s[b] => a = b
  BY <1>2 DEF IsInjective
<1>4. \A j \in 1..Len(s) - 1 : from(j) \in 1..Len(s) /\ from(j) # i /\ t[j] = s[from(j)]
  BY <1>1, <1>2
<1>5. IsInjective(t)
  <2> SUFFICES ASSUME NEW j \in 1..Len(s) - 1, NEW k \in 1..Len(s) - 1, t[j] = t[k]
               PROVE  j = k
    BY <1>2 DEF IsInjective
  <2>1. from(j) = from(k)
    BY <1>3, <1>4
  <2> QED BY <1>2, <2>1
<1>6. ToSet(t) = {t[j] : j \in 1..Len(s) - 1} /\ ToSet(s) = {s[j] : j \in 1..Len(s)}
  BY <1>2 DEF ToSet
<1>7. ASSUME NEW x \in ToSet(t)
      PROVE  x \in ToSet(s) \ {s[i]}
  <2>1. PICK j \in 1..Len(s) - 1 : x = t[j]
    BY <1>6
  <2>2. from(j) \in 1..Len(s) /\ from(j) # i /\ x = s[from(j)]
    BY <2>1, <1>4
  <2> HIDE DEF from
  <2> QED BY <2>2, <1>3, <1>6
<1>8. ASSUME NEW x \in ToSet(s) \ {s[i]}
      PROVE  x \in ToSet(t)
  <2>1. PICK j \in 1..Len(s) : x = s[j]
    BY <1>6
  <2>2. j # i
    BY <2>1
  <2>3. CASE j < i
    <3>1. j \in 1..Len(s) - 1 /\ t[j] = x
      BY <2>1, <2>3, <1>1, <1>2
    <3> QED BY <3>1, <1>6
  <2>4. CASE ~(j < i)
    <3>1. j - 1 \in 1..Len(s) - 1 /\ ~(j - 1 < i) /\ (j - 1) + 1 = j
      BY <2>2, <2>4, <1>2
    <3>2. t[j - 1] = x
      BY <2>1, <3>1, <1>1
    <3> QED BY <3>1, <3>2, <1>6
  <2> QED BY <2>3, <2>4
<1> QED BY <1>5, <1>7, <1>8 DEF t

-----------------------------------------------------------------------------
(* The list of connections *)

\* The node that goes to the tail is on the list, and so the list keeps its
\* conids and its length.
LEMMA ToTailProperties ==
  ASSUME TableInv, NEW k \in InUse
  PROVE  /\ ToTail(k) \in Seq(Conids) /\ Len(ToTail(k)) = Len(connections)
         /\ IsInjective(ToTail(k))
         /\ ToSet(ToTail(k)) = InUse
<1> DEFINE i == CHOOSE i \in DOMAIN connections : connections[i] = k
           rest == RemoveAt(connections, i)
<1>1. connections \in Seq(Conids) /\ IsInjective(connections)
  BY DEF TableInv
<1>2. Len(connections) \in Nat /\ DOMAIN connections = 1..Len(connections)
  BY <1>1, LenProperties
<1>3. i \in 1..Len(connections) /\ connections[i] = k
  BY <1>2 DEF InUse, ToSet
<1>4. k \in Conids
  BY <1>1, <1>3, ElementOfSeq
<1>5. ToTail(k) = Append(rest, k)
  BY DEF ToTail
<1> HIDE DEF i
<1>6. rest \in Seq(Conids) /\ Len(rest) = Len(connections) - 1
  BY <1>1, <1>3, RemoveAtProperties
<1>7. IsInjective(rest) /\ ToSet(rest) = InUse \ {k}
  BY <1>1, <1>3, RemoveOnly DEF InUse
<1> HIDE DEF rest
<1>8. /\ Append(rest, k) \in Seq(Conids) /\ Len(Append(rest, k)) = Len(rest) + 1
      /\ IsInjective(Append(rest, k)) /\ ToSet(Append(rest, k)) = ToSet(rest) \cup {k}
  BY <1>4, <1>6, <1>7, AppendNew
<1> QED BY <1>2, <1>5, <1>6, <1>7, <1>8

\* A set of naturals that is not empty has a least element.
LEMMA LeastExists ==
  ASSUME NEW T \in SUBSET Nat, T # {}
  PROVE  \E k \in T : \A m \in T : k <= m
<1>1. PICK k \in T : \A m \in T : ~(<<m, k>> \in OpToRel(<, Nat))
  BY WFMin, NatLessThanWellFounded
<1>2. \A m \in T : ~(m < k)
  BY <1>1 DEF OpToRel
<1> QED BY <1>2

\* While the list is not full there is a conid to find, and the one found is
\* not on the list: find_unused_conid's assertion.
LEMMA UnusedConid ==
  ASSUME TableInv, Len(connections) # MaxConnections
  PROVE  find_unused_conid \in Conids \ InUse
<1> DEFINE n == Len(connections)
<1>1. /\ connections \in [1..n -> Conids] /\ DOMAIN connections = 1..n
      /\ n \in Nat /\ n < MaxConnections /\ MaxConnections \in Nat
  BY LenProperties, UdpAssumption DEF TableInv
<1> HIDE DEF n
<1>2. Conids \ InUse # {}
  <2> SUFFICES ASSUME Conids \subseteq InUse
               PROVE  FALSE
    OBVIOUS
  <2>1. connections \in Surjection(1..n, Conids)
    BY <1>1 DEF Surjection, InUse, ToSet
  <2>2. IsFiniteSet(1..n) /\ Cardinality(1..n) = n
    BY <1>1, FS_Interval
  <2>3. Cardinality(Conids) = MaxConnections
    <3>1. MaxConnections - 1 \in Int /\ 0 <= MaxConnections - 1
      BY <1>1
    <3> QED BY <1>1, <3>1, FS_Interval DEF Conids
  <2>4. Cardinality(Conids) <= Cardinality(1..n)
    BY <2>1, <2>2, FS_Surjection
  <2> QED BY <1>1, <2>2, <2>3, <2>4
<1> DEFINE after == {k \in Conids \ InUse : k >= next_conid}
           S     == IF after = {} THEN Conids \ InUse ELSE after
<1>3. S \in SUBSET Nat /\ S # {} /\ S \subseteq Conids \ InUse
  BY <1>1, <1>2 DEF Conids
<1>4. find_unused_conid = CHOOSE k \in S : \A m \in S : k <= m
  BY DEF find_unused_conid
<1> HIDE DEF S
<1>5. \E k \in S : \A m \in S : k <= m
  BY <1>3, LeastExists
<1> QED BY <1>3, <1>4, <1>5

-----------------------------------------------------------------------------
(* Steps of the udpgw client *)

\* The device reads when nothing is pending; then only the done job is.
LEMMA ReadsAlone ==
  ASSUME JobsInv, NEW a, Reads(a)
  PROVE  jobs = <<>> /\ Accepting = <<<<"done">>>> /\ device' = a
<1>1. device = Nothing /\ device' = a
  BY DEF Reads
<1>2. jobs = <<>>
  BY <1>1, UdpAssumption DEF JobsInv, Addresses
<1> QED BY <1>1, <1>2 DEF Accepting, Pend

\* A buffer is never filled past its size.
LEMMA SendKeepsBuffers ==
  ASSUME buffered \in [Conids -> 0..BufferSize], NEW k \in Conids, connection_send(k)
  PROVE  buffered' \in [Conids -> 0..BufferSize]
<1>1. BufferSize \in Nat /\ buffered[k] \in 0..BufferSize
  BY UdpAssumption
<1>2. (IF buffered[k] < BufferSize THEN buffered[k] + 1 ELSE buffered[k]) \in 0..BufferSize
  BY <1>1
<1> QED BY <1>2 DEF connection_send

\* A conid on the list takes the address over, when no other one has it.
LEMMA SendOnSafe ==
  ASSUME UdpInv, NEW a \in Addresses, NEW k \in InUse, Reads(a), SendOn(k, a),
         \A m \in InUse : conaddr[m] = a => m = k
  PROVE  TableInv' /\ JobsInv'
<1>0. TableInv /\ JobsInv
  BY DEF UdpInv
<1>1. /\ connections' \in Seq(Conids) /\ Len(connections') = Len(connections)
      /\ IsInjective(connections') /\ ToSet(connections') = InUse
  BY <1>0, ToTailProperties DEF SendOn
<1>2. InUse' = InUse /\ InUse \subseteq Conids
  <2>1. InUse' = InUse
    BY <1>1 DEF InUse
  <2>2. InUse \subseteq Conids
    BY <1>0, LenProperties, ElementOfSeq DEF TableInv, InUse, ToSet
  <2> QED BY <2>1, <2>2
<1>3. /\ conaddr \in [Conids -> Addresses \cup {Nothing}]
      /\ \A m \in InUse : conaddr[m] \in Addresses
      /\ \A m, o \in InUse : conaddr[m] = conaddr[o] => m = o
  BY <1>0 DEF TableInv
<1>4. conaddr' = [conaddr EXCEPT ![k] = a]
  BY DEF SendOn
<1>5. conaddr' \in [Conids -> Addresses \cup {Nothing}]
  BY <1>3, <1>4
<1>6. \A m \in InUse : conaddr'[m] = IF m = k THEN a ELSE conaddr[m]
  BY <1>2, <1>3, <1>4
<1>7. /\ \A m \in InUse : conaddr'[m] \in Addresses
      /\ \A m, o \in InUse : conaddr'[m] = conaddr'[o] => m = o
  BY <1>3, <1>6
<1>8. buffered' \in [Conids -> 0..BufferSize]
  BY <1>0, <1>2, SendKeepsBuffers DEF SendOn, TableInv
<1>9. TableInv'
  BY <1>0, <1>1, <1>2, <1>5, <1>7, <1>8 DEF TableInv, SendOn, Conids, Addresses
<1>10. jobs' = <<<<"done">>>> /\ device' = a
  BY <1>0, ReadsAlone DEF SendOn
<1> QED BY <1>9, <1>10 DEF JobsInv, Addresses

\* A new connection has a conid and an address of its own.
LEMMA NewConnectionSafe ==
  ASSUME UdpInv, NEW a \in Addresses, Reads(a), connection_init(a),
         find_connection_by_conaddr(a) = {}, Len(connections) # MaxConnections
  PROVE  TableInv' /\ JobsInv'
<1> DEFINE k == find_unused_conid
<1>0. TableInv /\ JobsInv
  BY DEF UdpInv
<1>1. k \in Conids \ InUse
  BY <1>0, UnusedConid
<1>2. Accepting = <<<<"done">>>> /\ device' = a
  BY <1>0, ReadsAlone
<1>3. InUse \subseteq Conids
  BY <1>0, LenProperties, ElementOfSeq DEF TableInv, InUse, ToSet
<1>4. \/ /\ jobs' = Pend(Accepting, <<"first", k>>)
         /\ connections' = Append(connections, k)
         /\ conaddr' = [conaddr EXCEPT ![k] = a]
         /\ next_conid' = k /\ buffered' = buffered
      \/ /\ jobs' = Accepting /\ next_conid' \in {next_conid, k}
         /\ connections' = connections /\ conaddr' = conaddr /\ buffered' = buffered
  BY DEF connection_init
<1> HIDE DEF k
<1>5. CASE /\ jobs' = Pend(Accepting, <<"first", k>>)
           /\ connections' = Append(connections, k)
           /\ conaddr' = [conaddr EXCEPT ![k] = a]
           /\ next_conid' = k /\ buffered' = buffered
  <2>1. /\ connections \in Seq(Conids) /\ IsInjective(connections)
        /\ Len(connections) \in Nat /\ Len(connections) < MaxConnections
        /\ MaxConnections \in Nat
    BY <1>0, LenProperties, UdpAssumption DEF TableInv
  <2>2. /\ connections' \in Seq(Conids) /\ Len(connections') = Len(connections) + 1
        /\ IsInjective(connections') /\ ToSet(connections') = InUse \cup {k}
    BY <1>1, <1>5, <2>1, AppendNew DEF InUse
  <2>3. InUse' = InUse \cup {k}
    BY <2>2 DEF InUse
  <2>4. /\ conaddr \in [Conids -> Addresses \cup {Nothing}]
        /\ \A m \in InUse : conaddr[m] \in Addresses /\ conaddr[m] # a
        /\ \A m, o \in InUse : conaddr[m] = conaddr[o] => m = o
    BY <1>0 DEF TableInv, find_connection_by_conaddr
  <2>5. conaddr' \in [Conids -> Addresses \cup {Nothing}]
    BY <1>5, <2>4
  <2>6. conaddr'[k] = a /\ \A m \in InUse : conaddr'[m] = conaddr[m]
    BY <1>1, <1>3, <1>5, <2>4
  <2>7. /\ \A m \in InUse' : conaddr'[m] \in Addresses
        /\ \A m, o \in InUse' : conaddr'[m] = conaddr'[o] => m = o
    BY <2>3, <2>4, <2>6
  <2>8. Len(connections') <= MaxConnections
    BY <2>1, <2>2
  <2>9. TableInv'
    BY <1>0, <1>1, <1>5, <2>2, <2>5, <2>7, <2>8 DEF TableInv, Conids, Addresses
  <2>10. jobs' = <<<<"first", k>>, <<"done">>>>
    BY <1>2, <1>5, PairConcat DEF Pend
  <2>11. k \in InUse' /\ conaddr'[k] = device'
    BY <1>2, <2>3, <2>6
  <2> QED BY <1>2, <2>9, <2>10, <2>11 DEF JobsInv, Addresses
<1>6. CASE /\ jobs' = Accepting /\ next_conid' \in {next_conid, k}
           /\ connections' = connections /\ conaddr' = conaddr /\ buffered' = buffered
  <2>1. next_conid' \in Conids
    BY <1>0, <1>1, <1>6 DEF TableInv
  <2>2. TableInv'
    BY <1>0, <1>6, <2>1 DEF TableInv, InUse, Conids, Addresses
  <2> QED BY <1>2, <1>6, <2>2 DEF JobsInv, Addresses
<1> QED BY <1>4, <1>5, <1>6

\* A packet from the device that goes to the udpgw server.
LEMMA SubmitSafe ==
  ASSUME UdpInv, NEW a \in Addresses, process_device_udp_packet(a)
  PROVE  TableInv' /\ JobsInv'
<1> DEFINE found == find_connection_by_conaddr(a)
<1>0. TableInv
  BY DEF UdpInv
<1>1. Reads(a) /\ UdpGwClient_SubmitPacket(a)
  BY DEF process_device_udp_packet
<1>2. \/ \E k \in found : SendOn(k, a)
      \/ found = {} /\ Len(connections) = MaxConnections /\ reuse_connection(a)
      \/ found = {} /\ Len(connections) # MaxConnections /\ connection_init(a)
  BY <1>1 DEF UdpGwClient_SubmitPacket
<1>3. ASSUME NEW k \in found, SendOn(k, a)
      PROVE  TableInv' /\ JobsInv'
  <2>1. k \in InUse /\ conaddr[k] = a
    BY DEF find_connection_by_conaddr
  <2>2. \A m \in InUse : conaddr[m] = a => m = k
    BY <1>0, <2>1 DEF TableInv
  <2> QED BY <1>1, <1>3, <2>1, <2>2, SendOnSafe
<1>4. CASE found = {} /\ Len(connections) = MaxConnections /\ reuse_connection(a)
  <2>1. /\ connections \in Seq(Conids) /\ Len(connections) \in Nat \ {0}
        /\ DOMAIN connections = 1..Len(connections)
    BY <1>0, <1>4, LenProperties, UdpAssumption DEF TableInv
  <2>2. Head(connections) = connections[1] /\ 1 \in DOMAIN connections
    BY <2>1
  <2>3. Head(connections) \in InUse
    BY <2>2 DEF InUse, ToSet
  <2>4. \A m \in InUse : conaddr[m] = a => m = Head(connections)
    BY <1>4 DEF find_connection_by_conaddr
  <2> QED BY <1>1, <1>4, <2>3, <2>4, SendOnSafe DEF reuse_connection
<1>5. CASE found = {} /\ Len(connections) # MaxConnections /\ connection_init(a)
  BY <1>1, <1>5, NewConnectionSafe
<1> QED BY <1>2, <1>3, <1>4, <1>5

\* The jobs that run: the first one of a connection, then the device's.
LEMMA JobsRun ==
  ASSUME UdpInv
  PROVE  /\ DeviceDone => TableInv' /\ JobsInv'
         /\ connection_first_job_handler => TableInv' /\ JobsInv'
<1>0. TableInv /\ JobsInv
  BY DEF UdpInv
<1>1. ASSUME DeviceDone
      PROVE  TableInv' /\ JobsInv'
  <2>1. jobs # <<>> /\ Head(jobs) = <<"done">> /\ jobs' = Tail(jobs) /\ device' = Nothing
    BY <1>1 DEF DeviceDone
  <2>2. \A k : <<"first", k>> # <<"done">>
    OBVIOUS
  <2>3. jobs = <<<<"done">>>>
    BY <1>0, <2>1, <2>2 DEF JobsInv
  <2>4. jobs' = <<>>
    BY <2>1, <2>3
  <2>5. TableInv'
    BY <1>0, <1>1 DEF DeviceDone, tableVars, flowVars, TableInv, InUse, Conids, Addresses
  <2> QED BY <2>1, <2>4, <2>5 DEF JobsInv
<1>2. ASSUME connection_first_job_handler
      PROVE  TableInv' /\ JobsInv'
  <2>1. /\ jobs # <<>> /\ Head(jobs) # <<"done">> /\ jobs' = Tail(jobs)
        /\ connection_send(Head(jobs)[2]) /\ device' = device
        /\ connections' = connections /\ conaddr' = conaddr /\ next_conid' = next_conid
    BY <1>2 DEF connection_first_job_handler, tableVars
  <2>2. PICK k \in InUse : jobs = <<<<"first", k>>, <<"done">>>> /\ device \in Addresses
    BY <1>0, <2>1 DEF JobsInv
  <2>3. Head(jobs)[2] = k /\ jobs' = <<<<"done">>>>
    BY <2>1, <2>2
  <2>4. k \in Conids
    BY <1>0, LenProperties, ElementOfSeq DEF TableInv, InUse, ToSet
  <2>5. buffered' \in [Conids -> 0..BufferSize]
    BY <1>0, <2>1, <2>3, <2>4, SendKeepsBuffers DEF TableInv
  <2>6. TableInv'
    BY <1>0, <2>1, <2>5 DEF TableInv, InUse, Conids, Addresses
  <2> QED BY <2>1, <2>2, <2>3, <2>6 DEF JobsInv, Addresses
<1> QED BY <1>1, <1>2

\* A packet goes to the server, or comes from it.
LEMMA ServerSafe ==
  ASSUME UdpInv, NEW k \in Conids
  PROVE  /\ Transmit(k) => TableInv' /\ JobsInv'
         /\ \A s \in Remotes : Receive(k, s) => TableInv' /\ JobsInv'
<1>0. TableInv /\ JobsInv
  BY DEF UdpInv
<1>1. ASSUME Transmit(k)
      PROVE  TableInv' /\ JobsInv'
  <2>1. buffered[k] - 1 \in 0..BufferSize
    BY <1>0, <1>1, UdpAssumption DEF Transmit, TableInv
  <2>2. buffered' \in [Conids -> 0..BufferSize]
    BY <1>0, <1>1, <2>1 DEF Transmit, TableInv
  <2>3. TableInv'
    BY <1>0, <1>1, <2>2 DEF Transmit, tableVars, TableInv, InUse, Conids, Addresses
  <2> QED BY <1>0, <1>1, <2>3 DEF Transmit, tableVars, JobsInv, InUse, Addresses
<1>2. ASSUME NEW s \in Remotes, Receive(k, s)
      PROVE  TableInv' /\ JobsInv'
  <2>1. /\ k \in InUse /\ connections' = ToTail(k) /\ jobs = <<>> /\ jobs' = jobs
        /\ device' = device /\ conaddr' = conaddr /\ next_conid' = next_conid
        /\ buffered' = buffered
    BY <1>2 DEF Receive, flowVars
  <2>2. /\ connections' \in Seq(Conids) /\ Len(connections') = Len(connections)
        /\ IsInjective(connections') /\ ToSet(connections') = InUse
    BY <1>0, <2>1, ToTailProperties
  <2>3. InUse' = InUse
    BY <2>2 DEF InUse
  <2>4. TableInv'
    BY <1>0, <2>1, <2>2, <2>3 DEF TableInv, Conids, Addresses
  <2> QED BY <1>0, <2>1, <2>3, <2>4 DEF JobsInv, Addresses
<1> QED BY <1>1, <1>2

\* The SOCKS connection comes up, fails and is tried again.
LEMMA LinkSafe ==
  ASSUME LinkInv, reconnect_timer_handler \/ GwUp \/ GwFails
  PROVE  LinkInv'
<1>1. CASE reconnect_timer_handler
  BY <1>1 DEF reconnect_timer_handler, try_connect, LinkInv
<1>2. CASE GwUp
  BY <1>2 DEF GwUp, free_socks, UdpGwClient_ConnectServer, UdpGwClient_DisconnectServer,
              LinkInv
<1>3. CASE GwFails
  BY <1>3 DEF GwFails, free_socks, UdpGwClient_DisconnectServer, LinkInv
<1> QED BY <1>1, <1>2, <1>3

-----------------------------------------------------------------------------
(* Steps of the DNS gateway *)

\* A query is counted in the entry of its port, whose server stays the one that
\* the first query asked.
LEMMA QuerySafe ==
  ASSUME UdpInv, NEW p \in Locals, NEW s \in Remotes, DnsQuery(p, s)
  PROVE  GateInv' /\ JobsInv'
<1>0. JobsInv /\ GateInv
  BY DEF UdpInv
<1>1. /\ dns \in [Locals -> Entries] /\ asked \in [Locals -> Seq(Remotes)]
      /\ RepliesFindEntry /\ MaxQueries \in Nat
  BY <1>0, UdpAssumption DEF GateInv
<1>2. /\ dns[p].count < MaxQueries
      /\ dns' = [dns EXCEPT ![p] = insert_connection(dns[p], s)]
      /\ asked' = [asked EXCEPT ![p] = Append(asked[p], s)]
      /\ mixed' = IF dns[p].count = 0 THEN mixed \ {p}
                  ELSE IF dns[p].server = s THEN mixed ELSE mixed \cup {p}
      /\ strayed' = strayed
      /\ Reads([local |-> p, remote |-> s]) /\ jobs' = Accepting
  BY DEF DnsQuery
<1>3. dns[p] \in Entries /\ asked[p] \in Seq(Remotes) /\ Len(asked[p]) \in Nat
  BY <1>1, LenProperties
<1>4. /\ Append(asked[p], s) \in Seq(Remotes)
      /\ Len(Append(asked[p], s)) = Len(asked[p]) + 1
      /\ \A i \in 1..Len(asked[p]) : Append(asked[p], s)[i] = asked[p][i]
      /\ Append(asked[p], s)[Len(asked[p]) + 1] = s
      /\ DOMAIN Append(asked[p], s) = 1..Len(asked[p]) + 1
      /\ DOMAIN asked[p] = 1..Len(asked[p])
  BY <1>3, AppendProperties, LenProperties
<1> DEFINE e == insert_connection(dns[p], s)
<1>5. e \in Entries /\ e.count = dns[p].count + 1
      /\ e.server = IF dns[p].count > 0 THEN dns[p].server ELSE s
  BY <1>1, <1>2, <1>3 DEF insert_connection, Entries
<1> HIDE DEF e
<1>6. dns' \in [Locals -> Entries] /\ asked' \in [Locals -> Seq(Remotes)]
  BY <1>1, <1>2, <1>4, <1>5 DEF e
<1>7. /\ dns'[p] = e /\ asked'[p] = Append(asked[p], s)
      /\ \A q \in Locals \ {p} : dns'[q] = dns[q] /\ asked'[q] = asked[q]
  BY <1>1, <1>2 DEF e
<1>8. ASSUME NEW q \in Locals \ strayed
      PROVE  /\ Len(asked'[q]) <= dns'[q].count
             /\ q \notin mixed' => \A i \in DOMAIN asked'[q] : asked'[q][i] = dns'[q].server
  <2>1. /\ Len(asked[q]) <= dns[q].count
        /\ q \notin mixed => \A i \in DOMAIN asked[q] : asked[q][i] = dns[q].server
    BY <1>1 DEF RepliesFindEntry
  <2>2. CASE q # p
    <3>1. q \notin mixed' => q \notin mixed
      BY <1>2, <2>2
    <3> QED BY <1>7, <2>1, <2>2, <3>1
  <2>3. CASE q = p
    <3>1. dns[p].count \in Nat
      BY <1>1, <1>3 DEF Entries
    <3>2. Len(asked'[q]) <= dns'[q].count
      BY <1>3, <1>4, <1>5, <1>7, <2>1, <2>3, <3>1
    <3>3. ASSUME p \notin mixed', NEW i \in 1..Len(asked[p]) + 1
          PROVE  Append(asked[p], s)[i] = e.server
      <4>1. CASE dns[p].count = 0
        <5>1. i = Len(asked[p]) + 1
          BY <1>3, <2>1, <2>3, <4>1
        <5> QED BY <1>4, <1>5, <4>1, <5>1
      <4>2. CASE dns[p].count # 0
        <5>1. p \notin mixed /\ dns[p].server = s /\ e.server = s
          BY <1>2, <1>5, <3>1, <3>3, <4>2
        <5> QED BY <1>3, <1>4, <2>1, <2>3, <5>1
      <4> QED BY <4>1, <4>2
    <3> QED BY <1>4, <1>7, <2>3, <3>2, <3>3
  <2> QED BY <2>2, <2>3
<1>9. GateInv'
  BY <1>2, <1>6, <1>8 DEF GateInv, RepliesFindEntry, Entries
<1>10. jobs' = <<<<"done">>>> /\ device' = [local |-> p, remote |-> s]
  BY <1>0, <1>2, ReadsAlone
<1> QED BY <1>9, <1>10 DEF JobsInv, Addresses

\* A reply is taken from the entry's count, and the last takes the entry.
LEMMA EntryRemoved ==
  ASSUME NEW p \in Locals, dns \in [Locals -> Entries], dns[p].count > 0, MaxQueries \in Nat
  PROVE  /\ remove_connection(dns[p]) \in Entries
         /\ remove_connection(dns[p]).count = dns[p].count - 1
         /\ dns[p].count > 1 => remove_connection(dns[p]).server = dns[p].server
<1>1. dns[p] \in Entries /\ dns[p].count \in 0..MaxQueries
  BY DEF Entries
<1>2. CASE dns[p].count <= 1
  <2>1. remove_connection(dns[p]) = [server |-> Nothing, count |-> 0]
    BY <1>2 DEF remove_connection
  <2>2. [server |-> Nothing, count |-> 0] \in Entries
    <3>1. 0 \in 0..MaxQueries
      OBVIOUS
    <3> QED BY <3>1 DEF Entries
  <2>3. dns[p].count = 1
    BY <1>1, <1>2
  <2> QED BY <2>1, <2>2, <2>3
<1>3. CASE ~(dns[p].count <= 1)
  <2> DEFINE f == [dns[p] EXCEPT !.count = dns[p].count - 1]
  <2>1. remove_connection(dns[p]) = f
    BY <1>3 DEF remove_connection
  <2>2. dns[p].count - 1 \in 0..MaxQueries
    BY <1>1
  <2>3. f \in Entries /\ f.count = dns[p].count - 1 /\ f.server = dns[p].server
    BY <1>1, <2>2 DEF Entries
  <2> HIDE DEF f
  <2> QED BY <2>1, <2>3
<1> QED BY <1>2, <1>3

\* A stray datagram is taken from the count of its port's entry alone.
LEMMA StraySafe ==
  ASSUME UdpInv, NEW p \in Locals, NEW s \in Remotes, DnsStray(p, s)
  PROVE  GateInv' /\ JobsInv'
<1>0. JobsInv /\ GateInv
  BY DEF UdpInv
<1>1. /\ dns \in [Locals -> Entries] /\ asked \in [Locals -> Seq(Remotes)]
      /\ RepliesFindEntry /\ MaxQueries \in Nat
  BY <1>0, UdpAssumption DEF GateInv
<1>2. /\ dns[p].count > 0 /\ dns' = [dns EXCEPT ![p] = remove_connection(dns[p])]
      /\ strayed' = strayed \cup {p} /\ UNCHANGED <<asked, mixed>>
      /\ Reads([local |-> p, remote |-> s]) /\ jobs' = Accepting
  BY DEF DnsStray, TurnAround
<1>3. dns' \in [Locals -> Entries] /\ \A q \in Locals \ {p} : dns'[q] = dns[q]
  <2>1. remove_connection(dns[p]) \in Entries
    BY <1>1, <1>2, EntryRemoved
  <2> QED BY <1>1, <1>2, <2>1
<1>4. RepliesFindEntry'
  BY <1>1, <1>2, <1>3 DEF RepliesFindEntry
<1>5. GateInv'
  BY <1>1, <1>2, <1>3, <1>4 DEF GateInv, Entries
<1>6. jobs' = <<<<"done">>>> /\ device' = [local |-> p, remote |-> s]
  BY <1>0, <1>2, ReadsAlone
<1> QED BY <1>5, <1>6 DEF JobsInv, Addresses

\* With a reply, or when one is lost, there is one query less to be answered,
\* and the entry goes with its last one.
LEMMA ReplySafe ==
  ASSUME UdpInv, NEW p \in Locals, NEW i \in DOMAIN asked[p], DnsReply(p, i) \/ DnsLost(p, i)
  PROVE  GateInv' /\ JobsInv'
<1>0. JobsInv /\ GateInv
  BY DEF UdpInv
<1>1. /\ dns \in [Locals -> Entries] /\ asked \in [Locals -> Seq(Remotes)]
      /\ RepliesFindEntry /\ MaxQueries \in Nat
  BY <1>0, UdpAssumption DEF GateInv
<1>2. /\ dns[p] \in Entries /\ dns[p].count \in 0..MaxQueries
      /\ asked[p] \in Seq(Remotes) /\ Len(asked[p]) \in Nat
      /\ i \in 1..Len(asked[p]) /\ asked[p][i] \in Remotes
  BY <1>1, LenProperties, ElementOfSeq DEF Entries
<1> DEFINE rest == RemoveAt(asked[p], i)
<1>3. /\ rest \in Seq(Remotes) /\ Len(rest) = Len(asked[p]) - 1
      /\ DOMAIN rest = 1..Len(asked[p]) - 1 /\ DOMAIN asked[p] = 1..Len(asked[p])
      /\ \A j \in 1..Len(asked[p]) - 1 :
           rest[j] = IF j < i THEN asked[p][j] ELSE asked[p][j + 1]
  <2>1. /\ rest \in Seq(Remotes) /\ Len(rest) = Len(asked[p]) - 1
        /\ \A j \in 1..Len(asked[p]) - 1 :
             rest[j] = IF j < i THEN asked[p][j] ELSE asked[p][j + 1]
    BY <1>2, RemoveAtProperties
  <2> HIDE DEF rest
  <2>2. DOMAIN rest = 1..Len(rest) /\ DOMAIN asked[p] = 1..Len(asked[p])
    BY <1>2, <2>1, LenProperties
  <2> QED BY <2>1, <2>2
<1> HIDE DEF rest
<1>4. /\ asked' = [asked EXCEPT ![p] = rest] /\ mixed' = mixed /\ strayed' = strayed
  BY DEF DnsReply, TurnAround, DnsLost, rest
<1>5. PICK e \in Entries : /\ dns' = [dns EXCEPT ![p] = e]
                           /\ p \notin strayed =>
                                /\ Len(asked[p]) - 1 <= e.count
                                /\ Len(asked[p]) > 1 => e.server = dns[p].server
  <2>1. p \notin strayed => Len(asked[p]) <= dns[p].count
    BY <1>1, <1>2 DEF RepliesFindEntry
  <2>2. CASE DnsReply(p, i)
    <3>1. dns' = [dns EXCEPT ![p] = remove_connection(dns[p])] /\ dns[p].count > 0
      BY <1>1, <2>2 DEF DnsReply, TurnAround
    <3>2. /\ remove_connection(dns[p]) \in Entries
          /\ remove_connection(dns[p]).count = dns[p].count - 1
          /\ dns[p].count > 1 => remove_connection(dns[p]).server = dns[p].server
      BY <1>1, <3>1, EntryRemoved
    <3> DEFINE f == remove_connection(dns[p])
    <3>3. dns' = [dns EXCEPT ![p] = f] /\ f \in Entries
      BY <3>1, <3>2
    <3>4. ASSUME p \notin strayed
          PROVE  Len(asked[p]) - 1 <= f.count /\ (Len(asked[p]) > 1 => f.server = dns[p].server)
      <4>1. Len(asked[p]) <= dns[p].count
        BY <2>1, <3>4
      <4>2. f.count = dns[p].count - 1
        BY <3>2
      <4> HIDE DEF f
      <4>3. Len(asked[p]) - 1 <= f.count /\ (Len(asked[p]) > 1 => dns[p].count > 1)
        BY <1>2, <4>1, <4>2
      <4> QED BY <3>2, <4>3 DEF f
    <3> HIDE DEF f
    <3> QED BY <3>3, <3>4
  <2>3. CASE DnsLost(p, i)
    <3>1. dns' = [dns EXCEPT ![p] = dns[p]]
      BY <1>1, <2>3 DEF DnsLost
    <3>2. p \notin strayed => Len(asked[p]) - 1 <= dns[p].count
      BY <1>2, <2>1
    <3> QED BY <1>2, <3>1, <3>2
  <2> QED BY <2>2, <2>3
<1>6. dns' \in [Locals -> Entries] /\ asked' \in [Locals -> Seq(Remotes)]
  BY <1>1, <1>3, <1>4, <1>5
<1>7. /\ dns'[p] = e /\ asked'[p] = rest
      /\ \A q \in Locals \ {p} : dns'[q] = dns[q] /\ asked'[q] = asked[q]
  BY <1>1, <1>4, <1>5
<1>8. ASSUME NEW q \in Locals \ strayed
      PROVE  /\ Len(asked'[q]) <= dns'[q].count
             /\ q \notin mixed' => \A j \in DOMAIN asked'[q] : asked'[q][j] = dns'[q].server
  <2>1. /\ Len(asked[q]) <= dns[q].count
        /\ q \notin mixed => \A j \in DOMAIN asked[q] : asked[q][j] = dns[q].server
    BY <1>1 DEF RepliesFindEntry
  <2>2. CASE q # p
    BY <1>4, <1>7, <2>1, <2>2
  <2>3. CASE q = p
    <3>1. ASSUME p \notin mixed, NEW j \in 1..Len(asked[p]) - 1
          PROVE  rest[j] = e.server
      <4>1. e.server = dns[p].server
        BY <1>2, <1>5, <2>3
      <4>2. \A m \in 1..Len(asked[p]) : asked[p][m] = dns[p].server
        BY <1>3, <2>1, <2>3, <3>1
      <4>3. j \in 1..Len(asked[p]) /\ j + 1 \in 1..Len(asked[p])
        BY <1>2
      <4> QED BY <1>3, <4>1, <4>2, <4>3
    <3> QED BY <1>3, <1>4, <1>5, <1>7, <2>3, <3>1
  <2> QED BY <2>2, <2>3
<1>9. GateInv'
  BY <1>4, <1>6, <1>8 DEF GateInv, RepliesFindEntry, Entries
<1>10. CASE DnsReply(p, i)
  <2>1. jobs' = <<<<"done">>>> /\ device' = [local |-> p, remote |-> asked[p][i]]
    BY <1>0, <1>10, ReadsAlone DEF DnsReply, TurnAround
  <2>2. device' \in Addresses
    BY <1>2, <2>1 DEF Addresses
  <2> QED BY <1>9, <2>1, <2>2 DEF JobsInv, Addresses
<1>11. CASE DnsLost(p, i)
  BY <1>0, <1>9, <1>11 DEF DnsLost, tableVars, JobsInv, InUse, Addresses
<1> QED BY <1>10, <1>11

-----------------------------------------------------------------------------
(* Every step *)

\* What a step leaves alone stays as it was: the link.
LEMMA LinkSame ==
  ASSUME LinkInv, UNCHANGED linkVars
  PROVE  LinkInv'
BY DEF LinkInv, linkVars

\* The gateway's table and its queries.
LEMMA GateSame ==
  ASSUME GateInv, UNCHANGED gateVars
  PROVE  GateInv'
BY DEF GateInv, gateVars, RepliesFindEntry, Entries

\* The connections.
LEMMA TableSame ==
  ASSUME TableInv, UNCHANGED <<tableVars, buffered>>
  PROVE  TableInv'
BY DEF TableInv, tableVars, InUse, Conids, Addresses

\* The packet and what is pending for it.
LEMMA JobsSame ==
  ASSUME JobsInv, UNCHANGED <<device, jobs, tableVars>>
  PROVE  JobsInv'
BY DEF JobsInv, tableVars, InUse, Addresses

\* At the start nothing is read, listed, pending or asked.
LEMMA UdpInitial == UdpGwInit => UdpInv
<1> SUFFICES ASSUME UdpGwInit
             PROVE  UdpInv
  OBVIOUS
<1>0. MaxConnections \in Nat \ {0} /\ BufferSize \in Nat /\ MaxQueries \in Nat
  BY UdpAssumption
<1>1. LinkInv
  BY DEF UdpGwInit, LinkInv
<1>2. connections = <<>> /\ InUse = {}
  BY DEF UdpGwInit, InUse, ToSet
<1>3. 0 \in Conids /\ 0 \in 0..BufferSize /\ 0 \in 0..MaxQueries
  BY <1>0 DEF Conids
<1>4. IsInjective(connections) /\ connections \in Seq(Conids) /\ Len(connections) = 0
  BY <1>2 DEF IsInjective
<1>5. TableInv
  BY <1>0, <1>2, <1>3, <1>4 DEF UdpGwInit, TableInv
<1>6. JobsInv
  BY DEF UdpGwInit, JobsInv
<1>7. dns \in [Locals -> Entries] /\ asked \in [Locals -> Seq(Remotes)]
  BY <1>3 DEF UdpGwInit, Entries
<1>8. \A p \in Locals : asked[p] = <<>> /\ dns[p].count = 0
  BY DEF UdpGwInit
<1>9. RepliesFindEntry
  BY <1>8 DEF RepliesFindEntry
<1> QED BY <1>1, <1>5, <1>6, <1>7, <1>9 DEF UdpInv, GateInv

\* Every handler keeps the invariant.
LEMMA UdpStep ==
  ASSUME UdpInv, [UdpGwNext \/ DnsNext]_t2uVars
  PROVE  UdpInv'
<1>0. LinkInv /\ TableInv /\ JobsInv /\ GateInv
  BY DEF UdpInv
<1>1. CASE DeviceDone
  <2>1. UNCHANGED linkVars /\ UNCHANGED gateVars
    BY <1>1 DEF DeviceDone
  <2> QED BY <1>0, <1>1, <2>1, JobsRun, LinkSame, GateSame DEF UdpInv
<1>2. ASSUME NEW a \in Addresses, process_device_udp_packet(a)
      PROVE  UdpInv'
  <2>1. UNCHANGED linkVars /\ UNCHANGED gateVars
    BY <1>2 DEF process_device_udp_packet
  <2> QED BY <1>0, <1>2, <2>1, SubmitSafe, LinkSame, GateSame DEF UdpInv
<1>3. CASE connection_first_job_handler
  <2>1. UNCHANGED linkVars /\ UNCHANGED gateVars
    BY <1>3 DEF connection_first_job_handler
  <2> QED BY <1>0, <1>3, <2>1, JobsRun, LinkSame, GateSame DEF UdpInv
<1>4. ASSUME NEW k \in Conids, Transmit(k)
      PROVE  UdpInv'
  <2>1. UNCHANGED linkVars /\ UNCHANGED gateVars
    BY <1>4 DEF Transmit
  <2> QED BY <1>0, <1>4, <2>1, ServerSafe, LinkSame, GateSame DEF UdpInv
<1>5. ASSUME NEW k \in Conids, NEW s \in Remotes, Receive(k, s)
      PROVE  UdpInv'
  <2>1. UNCHANGED linkVars /\ UNCHANGED gateVars
    BY <1>5 DEF Receive
  <2> QED BY <1>0, <1>5, <2>1, ServerSafe, LinkSame, GateSame DEF UdpInv
<1>6. CASE KeepAlive
  <2>1. UNCHANGED linkVars /\ UNCHANGED gateVars /\ UNCHANGED <<tableVars, buffered>>
        /\ UNCHANGED <<device, jobs, tableVars>>
    BY <1>6 DEF KeepAlive
  <2> QED BY <1>0, <2>1, LinkSame, GateSame, TableSame, JobsSame DEF UdpInv
<1>7. CASE reconnect_timer_handler \/ GwUp \/ GwFails
  <2>1. UNCHANGED gateVars /\ UNCHANGED <<tableVars, buffered>>
        /\ UNCHANGED <<device, jobs, tableVars>>
    BY <1>7 DEF reconnect_timer_handler, GwUp, GwFails, flowVars
  <2> QED BY <1>0, <1>7, <2>1, LinkSafe, GateSame, TableSame, JobsSame DEF UdpInv
<1>8. ASSUME NEW p \in Locals, NEW s \in Remotes, DnsQuery(p, s)
      PROVE  UdpInv'
  <2>1. UNCHANGED linkVars /\ UNCHANGED <<tableVars, buffered>>
    BY <1>8 DEF DnsQuery, flowVars
  <2> QED BY <1>0, <1>8, <2>1, QuerySafe, LinkSame, TableSame DEF UdpInv
<1>9. ASSUME NEW p \in Locals, NEW i \in DOMAIN asked[p], DnsReply(p, i) \/ DnsLost(p, i)
      PROVE  UdpInv'
  <2>1. UNCHANGED linkVars /\ UNCHANGED <<tableVars, buffered>>
    BY <1>9 DEF DnsReply, TurnAround, DnsLost, flowVars
  <2> QED BY <1>0, <1>9, <2>1, ReplySafe, LinkSame, TableSame DEF UdpInv
<1>11. ASSUME NEW p \in Locals, NEW s \in Remotes, DnsStray(p, s)
       PROVE  UdpInv'
  <2>1. UNCHANGED linkVars /\ UNCHANGED <<tableVars, buffered>>
    BY <1>11 DEF DnsStray, TurnAround, flowVars
  <2> QED BY <1>0, <1>11, <2>1, StraySafe, LinkSame, TableSame DEF UdpInv
<1>10. CASE UNCHANGED t2uVars
  <2>1. UNCHANGED linkVars /\ UNCHANGED gateVars /\ UNCHANGED <<tableVars, buffered>>
        /\ UNCHANGED <<device, jobs, tableVars>>
    BY <1>10 DEF t2uVars, flowVars
  <2> QED BY <1>0, <2>1, LinkSame, GateSame, TableSame, JobsSame DEF UdpInv
<1> QED
  BY <1>1, <1>2, <1>3, <1>4, <1>5, <1>6, <1>7, <1>8, <1>9, <1>10, <1>11
  DEF UdpGwNext, DnsNext

-----------------------------------------------------------------------------
\* The invariant holds in every reachable state.
LEMMA UdpInvariant == UdpGwSpec => []UdpInv
BY UdpInitial, UdpStep, PTL DEF UdpGwSpec

\* The ranges and limits are part of the invariant.
LEMMA UdpTypeFollows ==
  ASSUME UdpInv
  PROVE  UdpGwTypeOK
<1>1. LinkInv /\ TableInv /\ JobsInv /\ GateInv
  BY DEF UdpInv
<1>2. InUse \subseteq Conids
  BY <1>1, LenProperties, ElementOfSeq DEF TableInv, InUse, ToSet
<1>3. device \in Addresses \cup {Nothing}
  BY <1>1 DEF JobsInv
<1>4. \A p \in Locals : dns[p].count \in 0..MaxQueries
  BY <1>1 DEF GateInv, Entries
<1> QED BY <1>1, <1>2, <1>3, <1>4 DEF UdpGwTypeOK, TableInv, LinkInv

\* Conids, counts and buffers stay within their limits, and while there is no
\* SOCKS connection the reconnect timer runs.
THEOREM UdpGwTypeCorrect == UdpGwSpec => []UdpGwTypeOK
<1>1. UdpInv => UdpGwTypeOK
  BY UdpTypeFollows
<1> QED BY <1>1, UdpInvariant, PTL

\* No conid is listed twice and no two connections carry the same addresses,
\* through look-ups, reuse of the least recent and new connections.
THEOREM ConnectionsCorrect == UdpGwSpec => []ConnectionsDistinct
<1>1. UdpInv => ConnectionsDistinct
  BY DEF UdpInv, TableInv, ConnectionsDistinct
<1> QED BY <1>1, UdpInvariant, PTL

\* The packet that a new connection's first job points to is in the device's
\* buffer until the job has run.
THEOREM FirstPacketCorrect == UdpGwSpec => []FirstPacketIsOwn
<1>1. UdpInv => FirstPacketIsOwn
  <2> SUFFICES ASSUME UdpInv, NEW i \in DOMAIN jobs, jobs[i] # <<"done">>
               PROVE  device = conaddr[jobs[i][2]]
    BY DEF FirstPacketIsOwn
  <2>1. PICK k \in InUse : jobs = <<<<"first", k>>, <<"done">>>> /\ conaddr[k] = device
    BY DEF UdpInv, JobsInv
  <2>2. i = 1
    BY <2>1
  <2> QED BY <2>1, <2>2
<1> QED BY <1>1, UdpInvariant, PTL

\* Every reply of pdnsd finds who asked, and comes from the server asked.
THEOREM RepliesCorrect == UdpGwSpec => []RepliesFindEntry
<1>1. UdpInv => RepliesFindEntry
  BY DEF UdpInv, GateInv
<1> QED BY <1>1, UdpInvariant, PTL

-----------------------------------------------------------------------------
(* The engine *)

BadvpnInv == RelayInv /\ UdpInv /\ PdnsdInv

\* The parts of the engine keep their invariants when one of them runs.
LEMMA BadvpnInvHolds == BadvpnSpec => []BadvpnInv
<1>1. BadvpnInit => BadvpnInv
  BY RelayInvInit, UdpInitial, PdnsdInvInit DEF BadvpnInit, BadvpnInv
<1>2. BadvpnInv /\ [BadvpnNext]_badvpnVars => BadvpnInv'
  <2> SUFFICES ASSUME BadvpnInv, [BadvpnNext]_badvpnVars
               PROVE  BadvpnInv'
    OBVIOUS
  <2>1. /\ [RelayNext]_relayVars /\ [PdnsdNext]_pdnsdVars
        /\ [UdpGwNext \/ DnsNext]_t2uVars
    BY DEF BadvpnNext, badvpnVars
  <2>2. RelayInv'
    BY <2>1, RelayStep DEF BadvpnInv
  <2>3. UdpInv'
    BY <2>1, UdpStep DEF BadvpnInv
  <2>4. PdnsdInv'
    BY <2>1, PdnsdStep DEF BadvpnInv
  <2> QED BY <2>2, <2>3, <2>4 DEF BadvpnInv
<1> QED BY <1>1, <1>2, PTL DEF BadvpnSpec

\* Buffers, windows, counters and flags of the relay (BSocksClient.c and
\* tun2socks.c), of the udpgw client and the DNS gateway, and of pdnsd stay
\* within their ranges, for any sizes, addresses and numbers of threads.
THEOREM BadvpnTypeCorrect == BadvpnSpec => []BadvpnTypeOK
<1>1. BadvpnInv => BadvpnTypeOK
  <2> SUFFICES ASSUME BadvpnInv
               PROVE  BadvpnTypeOK
    OBVIOUS
  <2>1. RelayTypeOK
    BY RelayInvImplies DEF BadvpnInv
  <2>2. UdpGwTypeOK
    BY UdpTypeFollows DEF BadvpnInv
  <2>3. PdnsdTypeOK
    BY DEF BadvpnInv, PdnsdInv
  <2> QED BY <2>1, <2>2, <2>3 DEF BadvpnTypeOK
<1> QED BY <1>1, BadvpnInvHolds, PTL
=============================================================================
