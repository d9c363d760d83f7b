--------------------------- MODULE PacketsProofs ----------------------------
(***************************************************************************)
(* The packet list, for every set of sockets, memory size and packet       *)
(* length.  What a walk along the next fields finds is a recursive         *)
(* function; the invariant speaks of the nodes on the list as a function   *)
(* of their places instead, and the two are shown to be the same at the    *)
(* end, by looking at the first place where they would differ.             *)
(***************************************************************************)
EXTENDS Packets, FiniteSetTheorems, SequenceTheorems, Induction

-----------------------------------------------------------------------------
\* Types.

PacketType == [id : Ids \cup {All}, bytes : Seq(Bytes \cup {Junk})]

Types ==
  /\ next \in [Nodes \cup {Root, Nil} -> Nodes \cup {Nil}]
  /\ end \in Nodes \cup {Root}
  /\ pkt \in [Nodes -> PacketType]
  /\ \A n \in Nodes : Len(pkt[n].bytes) <= MaxLen
  /\ live \subseteq Nodes
  /\ at \in {"idle", "recv", "return", "clear"}
  /\ id \in Ids \cup {All} /\ amount \in 0..MaxLen+1 /\ p \in Nodes \cup {Root}

LEMMA InitTypes == Init => Types
PROOF
<1> SUFFICES ASSUME Init PROVE Types
  OBVIOUS
<1> USE PacketsAssumption DEF Init
<1>1. Free \in PacketType /\ Len(Free.bytes) = 0
  BY DEF Free, PacketType
<1>2. pkt \in [Nodes -> PacketType] /\ \A n \in Nodes : Len(pkt[n].bytes) <= MaxLen
  BY <1>1
<1> QED BY <1>2 DEF Types

LEMMA UnlinkTypes ==
  ASSUME Types, Unlink, q0 # Nil
  PROVE  /\ next' \in [Nodes \cup {Root, Nil} -> Nodes \cup {Nil}]
         /\ end' \in Nodes \cup {Root}
         /\ pkt' \in [Nodes -> PacketType] /\ \A n \in Nodes : Len(pkt'[n].bytes) <= MaxLen
         /\ live' \subseteq Nodes
PROOF
<1>0. q0 \in Nodes /\ next[q0] \in Nodes \cup {Nil}
  BY DEF Types, q0
<1>1. Free \in PacketType /\ Len(Free.bytes) = 0 /\ MaxLen \in Nat
  BY PacketsAssumption DEF Free, PacketType
<1>2. pkt' = [pkt EXCEPT ![q0] = Free]
  BY DEF Unlink
<1>3. pkt' \in [Nodes -> PacketType] /\ \A n \in Nodes : Len(pkt'[n].bytes) <= MaxLen
  BY <1>0, <1>1, <1>2 DEF Types
<1>4. next' \in [Nodes \cup {Root, Nil} -> Nodes \cup {Nil}]
  BY <1>0 DEF Types, Unlink
<1>5. end' \in Nodes \cup {Root} /\ live' \subseteq Nodes
  BY DEF Types, Unlink
<1> QED BY <1>3, <1>4, <1>5

LEMMA NextTypes == Types /\ [Next]_vars => Types'
PROOF
<1> SUFFICES ASSUME Types, [Next]_vars PROVE Types'
  OBVIOUS
<1>0. MaxLen \in Nat /\ 0 \in 0..MaxLen+1
  BY PacketsAssumption
<1> USE DEF listVars, walkVars
<1>1. ASSUME NEW i \in Ids, packet_handler(i) PROVE Types'
  <2>1. PICK q \in Nodes \ live : \E n \in 1..MaxLen : \E bytes \in ReadBytes(n) :
          /\ pkt' = [pkt EXCEPT ![q] = [id |-> i, bytes |-> bytes]]
          /\ next' = [next EXCEPT ![q] = Nil, ![end] = q]
          /\ end' = q /\ live' = live \cup {q}
    BY <1>1 DEF packet_handler
  <2>a. PICK n \in 1..MaxLen : \E bytes \in ReadBytes(n) : pkt' = [pkt EXCEPT ![q] = [id |-> i, bytes |-> bytes]]
    BY <2>1
  <2>2. PICK bytes \in ReadBytes(n) : pkt' = [pkt EXCEPT ![q] = [id |-> i, bytes |-> bytes]]
    BY <2>a
  <2>3. bytes \in Seq(Bytes \cup {Junk}) /\ Len(bytes) = n
    <3>1. bytes \in [1..n -> Bytes \cup {Junk}] /\ n \in Nat
      BY <1>0, <2>2 DEF ReadBytes
    <3> QED BY <3>1
  <2> DEFINE new == [id |-> i, bytes |-> bytes]
  <2>4. new \in PacketType /\ new.bytes = bytes
    BY <2>3 DEF PacketType
  <2> HIDE DEF new
  <2>5. pkt' = [pkt EXCEPT ![q] = new]
    BY <2>2 DEF new
  <2>6. pkt' \in [Nodes -> PacketType] /\ \A m \in Nodes : Len(pkt'[m].bytes) <= MaxLen
    BY <1>0, <2>3, <2>4, <2>5 DEF Types
  <2>7. next' \in [Nodes \cup {Root, Nil} -> Nodes \cup {Nil}] /\ end' \in Nodes \cup {Root} /\ live' \subseteq Nodes
    BY <2>1 DEF Types
  <2> QED BY <1>1, <2>6, <2>7 DEF Types, packet_handler
<1>2. ASSUME NEW f \in {"recv", "clear"}, NEW i \in Ids \cup {All}, NEW max \in 0..MaxLen+1, Walk(f, i, max)
      PROVE  Types'
  BY <1>2 DEF Types, Walk
<1>3. ASSUME NEW i \in Ids, recv(i) PROVE Types'
  BY <1>0, <1>2, <1>3 DEF recv
<1>4. ASSUME NEW i \in Ids \cup {All}, clear_socket_packets(i) PROVE Types'
  BY <1>0, <1>2, <1>4 DEF clear_socket_packets
<1>5. CASE Skip
  BY <1>5 DEF Types, Skip, q0
<1>6. CASE RecvFull
  <2>1. q0 # Nil /\ q0 \in Nodes /\ Length \in Nat /\ Length <= amount
    BY <1>6 DEF RecvFull, Mine, Types, q0, Length, PacketType
  <2>2. amount' \in 0..MaxLen+1
    BY <1>0, <1>6, <2>1 DEF RecvFull, Types
  <2> QED BY <1>6, <2>1, <2>2, UnlinkTypes DEF RecvFull, Types
<1>7. CASE RecvPartial
  <2>1. q0 \in Nodes /\ amount \in Nat /\ Length > amount
    BY <1>0, <1>7 DEF RecvPartial, Mine, Types, q0
  <2>2. pkt[q0] \in PacketType /\ pkt[q0].bytes \in Seq(Bytes \cup {Junk}) /\ Len(pkt[q0].bytes) <= MaxLen
    BY <2>1 DEF Types, PacketType
  <2> DEFINE rest == SubSeq(pkt[q0].bytes, amount + 1, Len(pkt[q0].bytes))
  <2>3. rest \in Seq(Bytes \cup {Junk}) /\ Len(rest) <= MaxLen
    BY <1>0, <2>1, <2>2 DEF Length
  <2> DEFINE less == [pkt[q0] EXCEPT !.bytes = rest]
  <2>4. pkt' = [pkt EXCEPT ![q0] = less]
    BY <1>7 DEF RecvPartial
  <2>5. less \in PacketType /\ less.bytes = rest
    <3> HIDE DEF rest
    <3> QED BY <2>2, <2>3 DEF PacketType
  <2> HIDE DEF less
  <2>6. pkt' \in [Nodes -> PacketType] /\ \A m \in Nodes : Len(pkt'[m].bytes) <= MaxLen
    <3> HIDE DEF rest
    <3> QED BY <2>1, <2>3, <2>4, <2>5 DEF Types
  <2> QED BY <1>7, <2>6 DEF RecvPartial, Types
<1>8. CASE RecvEnd
  BY <1>8 DEF RecvEnd, Types
<1>9. CASE RecvReturn \/ ClearReturn
  BY <1>0, <1>9 DEF RecvReturn, ClearReturn, Return, Types
<1>10. CASE ClearNode
  <2>1. q0 # Nil
    BY <1>10 DEF ClearNode, Mine
  <2> QED BY <1>10, <2>1, UnlinkTypes DEF ClearNode, Types
<1>11. CASE UNCHANGED vars
  BY <1>11 DEF vars, Types
<1> QED BY <1>1, <1>3, <1>4, <1>5, <1>6, <1>7, <1>8, <1>9, <1>10, <1>11 DEF Next

LEMMA TypesAlways == Spec => []Types
BY InitTypes, NextTypes, PTL DEF Spec

\* Links lead to nodes, lengths to the end of a packet and no further, and the
\* bytes recv() still has room for are never negative (ESP32::recv,
\* _packet_handler and _clear_socket_packets).
THEOREM PacketsTypes == Spec => []TypeOK
PROOF
<1>1. Types => TypeOK
  BY DEF Types, TypeOK, PacketType
<1> QED BY <1>1, TypesAlways, PTL

-----------------------------------------------------------------------------
\* The nodes on the list by their places, after the root at place 0.

ChainOf(n, c) ==
  /\ c \in [0..n -> Nodes \cup {Root}] /\ c[0] = Root
  /\ \A k \in 1..n : c[k] \in Nodes /\ next[c[k - 1]] = c[k]
  /\ next[c[n]] = Nil /\ end = c[n]
  /\ \A j, k \in 0..n : c[j] = c[k] => j = k
  /\ live = {c[k] : k \in 1..n}

ListInv ==
  /\ \E n \in Nat : \E c : ChainOf(n, c)
  /\ next[Nil] = Nil
  /\ p \in live \cup {Root}

LEMMA InitList == Init => ListInv
PROOF
<1> SUFFICES ASSUME Init PROVE ListInv
  OBVIOUS
<1> DEFINE c == [k \in 0..0 |-> Root]
<1>1. c \in [0..0 -> Nodes \cup {Root}] /\ c[0] = Root
  OBVIOUS
<1> HIDE DEF c
<1>2. ChainOf(0, c)
  BY <1>1 DEF ChainOf, Init
<1> QED BY <1>2 DEF ListInv, Init

\* A packet goes behind the last one.
Appended(q) ==
  /\ next' = [next EXCEPT ![q] = Nil, ![end] = q] /\ end' = q /\ live' = live \cup {q}

LEMMA AppendChain ==
  ASSUME Types, ListInv, NEW n \in Nat, NEW c, ChainOf(n, c), NEW q \in Nodes \ live, Appended(q)
  PROVE  /\ next'[Nil] = Nil
         /\ \E d : ChainOf(n + 1, d)' /\ d[n + 1] = q /\ \A k \in 0..n : d[k] = c[k]
PROOF
<1>1. next' = [next EXCEPT ![q] = Nil, ![end] = q] /\ end' = q /\ live' = live \cup {q}
  BY DEF Appended
<1>3. ChainOf(n, c)
  OBVIOUS
<1>4. /\ q \in Nodes /\ q # Root /\ q # Nil /\ q \notin live
      /\ end \in Nodes \cup {Root} /\ end # Nil /\ end # q
  <2>1. Root # Nil
    BY DEF Root, Nil
  <2>2. n = 0 => c[n] = Root
    BY <1>3 DEF ChainOf
  <2>3. n # 0 => c[n] \in live
    BY <1>3 DEF ChainOf
  <2> QED BY <1>1, <1>3, <2>1, <2>2, <2>3, PacketsAssumption DEF ChainOf, Types
<1>5. \A k \in 0..n : c[k] # q
  BY <1>3, <1>4 DEF ChainOf
<1>6. next'[q] = Nil /\ next'[end] = q /\ \A x \in Nodes \cup {Root, Nil} : x \notin {q, end} => next'[x] = next[x]
  BY <1>1, <1>4 DEF Types
<1> DEFINE d == [k \in 0..n+1 |-> IF k <= n THEN c[k] ELSE q]
<1>7. /\ d[0] = Root /\ d[n + 1] = q /\ \A k \in 0..n : d[k] = c[k]
  BY <1>3 DEF ChainOf
<1>8. d \in [0..n+1 -> Nodes \cup {Root}]
  BY <1>3, <1>4 DEF ChainOf
<1> HIDE DEF d
<1>9. ASSUME NEW k \in 1..n+1 PROVE d[k] \in Nodes /\ next'[d[k - 1]] = d[k]
  <2>1. CASE k = n + 1
    BY <1>3, <1>4, <1>6, <1>7, <2>1 DEF ChainOf
  <2>2. CASE k \in 1..n
    <3>1. k - 1 \in 0..n /\ k - 1 # n /\ k - 1 < n
      BY <2>2
    <3>2. c[k - 1] # end /\ c[k - 1] # q /\ c[k - 1] \in Nodes \cup {Root}
      BY <1>3, <1>5, <3>1 DEF ChainOf
    <3> QED BY <1>3, <1>6, <1>7, <2>2, <3>1, <3>2 DEF ChainOf
  <2> QED BY <2>1, <2>2
<1>10. \A j, k \in 0..n+1 : d[j] = d[k] => j = k
  BY <1>3, <1>5, <1>7 DEF ChainOf
<1>11. live' = {d[k] : k \in 1..n+1}
  BY <1>1, <1>3, <1>7 DEF ChainOf
<1>12. next'[d[n + 1]] = Nil /\ end' = d[n + 1]
  BY <1>1, <1>6, <1>7
<1>13. PICK m \in Nat : m = n + 1
  OBVIOUS
<1>14. ChainOf(m, d)'
  BY <1>7, <1>8, <1>9, <1>10, <1>11, <1>12, <1>13 DEF ChainOf
<1>15. next'[Nil] = Nil
  BY <1>4, <1>6 DEF ListInv
<1> QED BY <1>7, <1>13, <1>14, <1>15

LEMMA AppendList ==
  ASSUME Types, ListInv, NEW i \in Ids, packet_handler(i) PROVE ListInv'
PROOF
<1>1. PICK q \in Nodes \ live : next' = [next EXCEPT ![q] = Nil, ![end] = q] /\ end' = q /\ live' = live \cup {q}
  BY DEF packet_handler
<1>2. PICK n \in Nat : \E c : ChainOf(n, c)
  BY DEF ListInv
<1>3. PICK c : ChainOf(n, c)
  BY <1>2
<1>4. next'[Nil] = Nil /\ \E d : ChainOf(n + 1, d)'
  BY <1>1, <1>3, AppendChain DEF Appended
<1>5. PICK m \in Nat : m = n + 1
  OBVIOUS
<1> QED BY <1>1, <1>4, <1>5 DEF ListInv, packet_handler, walkVars

\* The node behind p, and where it is.
LEMMA PlaceOf ==
  ASSUME Types, ListInv, NEW n \in Nat, NEW c, ChainOf(n, c), q0 # Nil
  PROVE  \E m \in 0..n-1 : p = c[m] /\ q0 = c[m + 1] /\ q0 \in live
PROOF
<1>1. PICK m \in 0..n : p = c[m]
  <2>1. CASE p = Root
    BY <2>1 DEF ChainOf
  <2>2. CASE p \in live
    BY <2>2 DEF ChainOf
  <2> QED BY <2>1, <2>2 DEF ListInv
<1>2. m # n
  BY <1>1 DEF ChainOf, q0
<1>3. m \in 0..n-1 /\ m + 1 \in 1..n /\ (m + 1) - 1 = m
  BY <1>1, <1>2
<1>4. q0 = c[m + 1]
  BY <1>1, <1>3 DEF ChainOf, q0
<1> QED BY <1>1, <1>3, <1>4 DEF ChainOf

\* A node is taken out of the list, wherever it is.
LEMMA UnlinkChain ==
  ASSUME Types, ListInv, Unlink, NEW n \in Nat, NEW c, ChainOf(n, c),
         NEW m \in 0..n-1, p = c[m], q0 = c[m + 1], q0 \in live
  PROVE  /\ next'[Nil] = Nil
         /\ p \in live' \cup {Root}
         /\ \E l \in Nat : n = l + 1 /\ \E d : /\ ChainOf(l, d)'
                                               /\ \A k \in 0..m : d[k] = c[k]
                                               /\ \A k \in m+1..l : d[k] = c[k + 1]
PROOF
<1>2. ChainOf(n, c)
  OBVIOUS
<1>3. m \in 0..n-1 /\ p = c[m] /\ q0 = c[m + 1] /\ q0 \in live
  OBVIOUS
<1>4. /\ m + 1 \in 1..n /\ m \in 0..n /\ p # q0 /\ q0 \in Nodes /\ p # Nil /\ q0 # Root
      /\ p \in Nodes \cup {Root}
  <2>1. Root # Nil
    BY DEF Root, Nil
  <2> QED BY <1>2, <1>3, <2>1, PacketsAssumption DEF ChainOf, Types
<1>5. /\ next'[p] = next[q0] /\ next'[q0] = Nil
      /\ \A x \in Nodes \cup {Root, Nil} : x \notin {p, q0} => next'[x] = next[x]
  <2>1. next' = [next EXCEPT ![p] = next[q0], ![q0] = Nil]
    BY DEF Unlink
  <2> QED BY <1>4, <2>1 DEF Types
<1>6. PICK l \in Nat : n = l + 1
  BY <1>3
<1> DEFINE d == [k \in 0..l |-> IF k <= m THEN c[k] ELSE c[k + 1]]
<1>7. /\ \A k \in 0..m : d[k] = c[k]
      /\ \A k \in m+1..l : d[k] = c[k + 1]
  BY <1>3, <1>6
<1>8. d \in [0..l -> Nodes \cup {Root}] /\ d[0] = Root
  BY <1>2, <1>3, <1>6 DEF ChainOf
<1> HIDE DEF d
<1>9. \A k \in 0..n : c[k] = p => k = m
  BY <1>2, <1>3, <1>4 DEF ChainOf
<1>10. \A k \in 0..n : c[k] = q0 => k = m + 1
  BY <1>2, <1>3, <1>4 DEF ChainOf
<1>11. \A k \in 1..n : c[k] \in Nodes /\ next[c[k - 1]] = c[k]
  BY <1>2 DEF ChainOf
<1>12. \A k \in 0..n : c[k] \in Nodes \cup {Root}
  BY <1>2 DEF ChainOf
<1>13. ASSUME NEW k \in 1..l PROVE d[k] \in Nodes /\ next'[d[k - 1]] = d[k]
  <2>1. CASE k <= m
    <3>1. d[k] = c[k] /\ d[k - 1] = c[k - 1] /\ k \in 1..n /\ k - 1 \in 0..n /\ k - 1 # m /\ k - 1 # m + 1
      BY <1>3, <1>6, <1>7, <2>1
    <3>2. next'[c[k - 1]] = next[c[k - 1]]
      BY <1>5, <1>9, <1>10, <1>12, <3>1
    <3> QED BY <1>11, <3>1, <3>2
  <2>2. CASE k = m + 1
    <3>1. d[k] = c[k + 1] /\ d[k - 1] = p /\ k + 1 \in 1..n /\ c[(k + 1) - 1] = q0 /\ (k + 1) - 1 = k
      BY <1>3, <1>6, <1>7, <2>2
    <3>2. next[q0] = c[k + 1] /\ c[k + 1] \in Nodes
      BY <1>11, <3>1
    <3> QED BY <1>5, <3>1, <3>2
  <2>3. CASE k > m + 1
    <3>1. /\ d[k] = c[k + 1] /\ d[k - 1] = c[(k - 1) + 1] /\ (k - 1) + 1 = k /\ k + 1 \in 1..n /\ (k + 1) - 1 = k
          /\ k \in 0..n /\ k # m /\ k # m + 1
      BY <1>3, <1>6, <1>7, <2>3
    <3>2. next'[c[k]] = next[c[k]] /\ next[c[k]] = c[k + 1] /\ c[k + 1] \in Nodes
      BY <1>5, <1>9, <1>10, <1>11, <1>12, <3>1
    <3> QED BY <3>1, <3>2
  <2> QED BY <1>3, <2>1, <2>2, <2>3
<1>14. next'[d[l]] = Nil /\ end' = d[l]
  <2>1. CASE m = l
    <3>1. d[l] = p /\ c[n] = q0 /\ end = q0 /\ next[q0] = Nil
      BY <1>2, <1>3, <1>6, <1>7, <2>1 DEF ChainOf
    <3> QED BY <1>5, <3>1 DEF Unlink
  <2>2. CASE m # l
    <3>1. d[l] = c[n] /\ n # m /\ n # m + 1 /\ n \in 0..n
      BY <1>3, <1>6, <1>7, <2>2
    <3>2. end = c[n] /\ next[c[n]] = Nil /\ end # q0 /\ next'[c[n]] = next[c[n]]
      BY <1>2, <1>5, <1>9, <1>10, <1>12, <3>1 DEF ChainOf
    <3> QED BY <3>1, <3>2 DEF Unlink
  <2> QED BY <2>1, <2>2
<1>15. \A j, k \in 0..l : d[j] = d[k] => j = k
  <2> SUFFICES ASSUME NEW j \in 0..l, NEW k \in 0..l, d[j] = d[k] PROVE j = k
    OBVIOUS
  <2>1. \A x, y \in 0..n : c[x] = c[y] => x = y
    BY <1>2 DEF ChainOf
  <2>2. \A x \in 0..l : \/ x <= m /\ d[x] = c[x] /\ x \in 0..n
                        \/ x > m /\ d[x] = c[x + 1] /\ x + 1 \in 0..n
    BY <1>3, <1>6, <1>7
  <2>3. CASE j <= m /\ k <= m
    BY <2>1, <2>2, <2>3
  <2>4. CASE j > m /\ k > m
    <3>1. j + 1 = k + 1
      BY <1>3, <2>1, <2>2, <2>4
    <3> QED BY <3>1
  <2>5. CASE j <= m /\ k > m
    <3>1. j = k + 1
      BY <1>3, <2>1, <2>2, <2>5
    <3> QED BY <1>3, <2>5, <3>1
  <2>6. CASE j > m /\ k <= m
    <3>1. j + 1 = k
      BY <1>3, <2>1, <2>2, <2>6
    <3> QED BY <1>3, <2>6, <3>1
  <2> QED BY <1>3, <2>3, <2>4, <2>5, <2>6
<1>16. live' = {d[k] : k \in 1..l}
  <2>0. live' = live \ {q0} /\ live = {c[k] : k \in 1..n}
    BY <1>2 DEF Unlink, ChainOf
  <2>1. ASSUME NEW x \in live' PROVE \E k \in 1..l : x = d[k]
    <3>1. PICK j \in 1..n : x = c[j] /\ x # q0
      BY <2>0, <2>1
    <3>2. j # m + 1
      BY <1>3, <3>1
    <3>3. CASE j <= m
      BY <1>3, <1>6, <1>7, <3>1, <3>3
    <3>4. CASE j > m + 1
      <4>1. j - 1 \in m+1..l /\ j - 1 \in 1..l /\ (j - 1) + 1 = j
        BY <1>3, <1>6, <3>1, <3>4
      <4>2. d[j - 1] = c[j]
        BY <1>7, <4>1
      <4> QED BY <3>1, <4>1, <4>2
    <3> QED BY <1>3, <3>2, <3>3, <3>4
  <2>2. ASSUME NEW k \in 1..l PROVE d[k] \in live'
    <3>1. CASE k <= m
      <4>1. d[k] = c[k] /\ k \in 1..n /\ k \in 0..n /\ k # m + 1
        BY <1>3, <1>6, <1>7, <3>1
      <4> QED BY <1>10, <2>0, <4>1
    <3>2. CASE k > m
      <4>1. d[k] = c[k + 1] /\ k + 1 \in 1..n /\ k + 1 \in 0..n /\ k + 1 # m + 1
        BY <1>3, <1>6, <1>7, <3>2
      <4> QED BY <1>10, <2>0, <4>1
    <3> QED BY <1>3, <3>1, <3>2
  <2> QED BY <2>1, <2>2
<1>17. ChainOf(l, d)'
  BY <1>8, <1>13, <1>14, <1>15, <1>16 DEF ChainOf
<1>18. next'[Nil] = Nil
  BY <1>4, <1>5 DEF ListInv
<1>19. p \in live' \cup {Root}
  BY <1>4 DEF ListInv, Unlink
<1> QED BY <1>6, <1>7, <1>17, <1>18, <1>19

LEMMA UnlinkList ==
  ASSUME Types, ListInv, Unlink, q0 # Nil, p' = p PROVE ListInv'
PROOF
<1>1. PICK n \in Nat : \E c : ChainOf(n, c)
  BY DEF ListInv
<1>2. PICK c : ChainOf(n, c)
  BY <1>1
<1>3. PICK m \in 0..n-1 : p = c[m] /\ q0 = c[m + 1] /\ q0 \in live
  BY <1>2, PlaceOf
<1>4. next'[Nil] = Nil /\ p \in live' \cup {Root} /\ \E l \in Nat : \E d : ChainOf(l, d)'
  BY <1>2, <1>3, UnlinkChain
<1> QED BY <1>4 DEF ListInv

LEMMA NextList == Types /\ ListInv /\ [Next]_vars => ListInv'
PROOF
<1> SUFFICES ASSUME Types, ListInv, [Next]_vars PROVE ListInv'
  OBVIOUS
<1> USE DEF listVars, walkVars
<1>1. ASSUME UNCHANGED <<next, end, live>>, p' \in live \cup {Root} PROVE ListInv'
  BY <1>1 DEF ListInv, ChainOf
<1>2. ASSUME NEW i \in Ids, packet_handler(i) PROVE ListInv'
  BY <1>2, AppendList
<1>3. ASSUME NEW i, recv(i) \/ clear_socket_packets(i) PROVE ListInv'
  BY <1>1, <1>3 DEF recv, clear_socket_packets, Walk
<1>4. CASE Skip
  <2>1. PICK n \in Nat : \E c : ChainOf(n, c)
    BY DEF ListInv
  <2>2. PICK c : ChainOf(n, c)
    BY <2>1
  <2>3. q0 \in live
    BY <1>4, <2>2, PlaceOf DEF Skip
  <2> QED BY <1>1, <1>4, <2>3 DEF Skip
<1>5. CASE RecvFull
  BY <1>5, UnlinkList DEF RecvFull, Mine
<1>6. CASE ClearNode
  BY <1>6, UnlinkList DEF ClearNode, Mine
<1>7. CASE RecvPartial \/ RecvEnd
  BY <1>1, <1>7 DEF RecvPartial, RecvEnd, ListInv
<1>8. CASE RecvReturn \/ ClearReturn
  BY <1>1, <1>8 DEF RecvReturn, ClearReturn, Return
<1>9. CASE UNCHANGED vars
  BY <1>1, <1>9 DEF vars, ListInv
<1> QED BY <1>2, <1>3, <1>4, <1>5, <1>6, <1>7, <1>8, <1>9 DEF Next

LEMMA ListInvAlways == Spec => []ListInv
BY InitTypes, NextTypes, InitList, NextList, PTL DEF Spec

-----------------------------------------------------------------------------
\* What a walk finds.

\* There are no more places than nodes.
LEMMA PlacesFit ==
  ASSUME NEW n \in Nat, NEW c, ChainOf(n, c)
  PROVE  Cardinality(Nodes) \in Nat /\ n <= Cardinality(Nodes)
PROOF
<1>1. IsFiniteSet(Nodes)
  BY PacketsAssumption
<1>2. Cardinality(Nodes) \in Nat
  BY <1>1, FS_CardinalityType
<1> DEFINE f == [k \in 1..n |-> c[k]]
<1>3. f \in [1..n -> Nodes] /\ \A j, k \in 1..n : f[j] = f[k] => j = k
  BY DEF ChainOf
<1>4. f \in Injection(1..n, Nodes)
  BY <1>3 DEF Injection, IsInjective
<1> HIDE DEF f
<1>5. Cardinality(1..n) <= Cardinality(Nodes)
  BY <1>1, <1>4, FS_Injection
<1>6. Cardinality(1..n) = n
  BY FS_Interval
<1> QED BY <1>2, <1>5, <1>6

\* The walk goes through the nodes in their places and finds NULL after them.
LEMMA WalkFinds ==
  ASSUME ListInv, NEW n \in Nat, NEW c, ChainOf(n, c)
  PROVE  \A k \in 0..Cardinality(Nodes) : chain[k] = IF k <= n THEN c[k] ELSE Nil
PROOF
<1>0. PICK N \in Nat : N = Cardinality(Nodes) /\ n <= N
  BY PlacesFit
<1> DEFINE W == [k \in 0..N |-> IF k <= n THEN c[k] ELSE Nil]
<1>1. ASSUME NEW k \in 0..N PROVE W[k] = IF k = 0 THEN Root ELSE next[W[k - 1]]
  <2>1. CASE k = 0
    BY <1>0, <2>1 DEF ChainOf
  <2>2. CASE k \in 1..n
    BY <1>0, <2>2 DEF ChainOf
  <2>3. CASE k = n + 1
    BY <1>0, <2>3 DEF ChainOf
  <2>4. CASE k > n + 1
    BY <1>0, <2>4 DEF ListInv
  <2> QED BY <1>0, <2>1, <2>2, <2>3, <2>4
<1>2. W = [k \in 0..N |-> IF k = 0 THEN Root ELSE next[W[k - 1]]]
  BY <1>1
<1>3. \A k \in 0..N : W[k] = IF k <= n THEN c[k] ELSE Nil
  OBVIOUS
<1> HIDE DEF W
<1>4. \E g : g = [k \in 0..N |-> IF k = 0 THEN Root ELSE next[g[k - 1]]]
  BY <1>2
<1>5. chain = CHOOSE g : g = [k \in 0..N |-> IF k = 0 THEN Root ELSE next[g[k - 1]]]
  BY <1>0 DEF chain
<1>6. chain = [k \in 0..N |-> IF k = 0 THEN Root ELSE next[chain[k - 1]]]
  BY <1>4, <1>5
<1>7. \A k \in 0..N : chain[k] = IF k = 0 THEN Root ELSE next[chain[k - 1]]
  BY <1>6
<1> DEFINE T == {k \in 0..N : chain[k] # W[k]}
<1>8. T = {}
  <2>1. SUFFICES ASSUME T # {} PROVE FALSE
    OBVIOUS
  <2>a. T \subseteq Nat
    BY <1>0
  <2>b. \E m \in T : \A j \in T : m <= j
    <3> HIDE DEF T
    <3> QED BY <2>1, <2>a, LeastNat
  <2>2. PICK m \in T : \A j \in T : m <= j
    BY <2>b
  <2>3. m \in 0..N /\ chain[m] # W[m]
    BY <2>2
  <2>4. m # 0
    BY <1>1, <1>7, <2>3
  <2>5. m - 1 \in 0..N /\ ~(m - 1 \in T)
    BY <1>0, <2>2, <2>3, <2>4
  <2>6. chain[m - 1] = W[m - 1]
    BY <2>5
  <2> QED BY <1>1, <1>7, <2>3, <2>4, <2>6
<1>9. \A k \in 0..N : chain[k] = W[k]
  BY <1>8
<1> QED BY <1>0, <1>3, <1>9

\* Whichever packets are taken out of the list and in which order, a walk from
\* _packets comes to exactly the packets in memory, and _packets_end is where
\* it ends (_packet_handler, recv, _clear_socket_packets in ESP32.cpp).
THEOREM ListAlwaysIntact == Spec => []ListIntact
PROOF
<1>1. ASSUME Types, ListInv PROVE ListIntact
  <2>1. PICK n \in Nat : \E c : ChainOf(n, c)
    BY <1>1 DEF ListInv
  <2>2. PICK c : ChainOf(n, c)
    BY <2>1
  <2>3. PICK N \in Nat : N = Cardinality(Nodes) /\ n <= N
    BY <2>2, PlacesFit
  <2>4. \A k \in 0..N : chain[k] = IF k <= n THEN c[k] ELSE Nil
    BY <1>1, <2>2, <2>3, WalkFinds
  <2>5. \A k \in 1..n : c[k] \in Nodes /\ c[k] # Nil
    BY <2>2, PacketsAssumption DEF ChainOf
  <2>6. OnList = {chain[k] : k \in 1..N} \ {Nil}
    BY <2>3 DEF OnList
  <2>7. OnList = {c[k] : k \in 1..n}
    <3>1. \A k \in 1..N : chain[k] = IF k <= n THEN c[k] ELSE Nil
      BY <2>4
    <3>2. \A k \in 1..n : k \in 1..N /\ chain[k] = c[k]
      BY <2>3, <3>1
    <3> QED BY <2>5, <2>6, <3>1, <3>2
  <2>8. live = {c[k] : k \in 1..n} /\ next[end] = Nil /\ end = c[n] /\ c[0] = Root
    BY <2>2 DEF ChainOf
  <2>9. end \in OnList \cup {Root}
    <3>1. n = 0 \/ n \in 1..n
      OBVIOUS
    <3> QED BY <2>7, <2>8, <3>1
  <2> QED BY <1>1, <2>7, <2>8, <2>9 DEF ListIntact, EndIsLast, NothingLeaksOrDangles, ListInv
<1> QED BY <1>1, TypesAlways, ListInvAlways, PTL

-----------------------------------------------------------------------------
\* What a socket's packets hold together.  u[k] is what the first k pieces of
\* w make one after the other.

PiecesOf(S, n, w) == \A k \in 1..n : w[k] \in Seq(S)

SumOf(S, n, w, u) ==
  /\ u \in [0..n -> Seq(S)] /\ u[0] = <<>>
  /\ \A k \in 1..n : u[k] = u[k - 1] \o w[k]

\* The first m pieces are the same; they are empty; those after the first m are
\* the same, s places further in w than in x.
Agree(m, x, w) == \A k \in 1..m : x[k] = w[k]
Empty(m, w) == \A k \in 1..m : w[k] = <<>>
Shifted(m, l, s, w, x) == \A k \in m+1..l : w[k + s] = x[k]

LEMMA SumExists ==
  ASSUME NEW S, NEW n \in Nat, NEW w, PiecesOf(S, n, w)
  PROVE  \E u : SumOf(S, n, w, u)
PROOF
<1> DEFINE T == {k \in 0..n : \E u : SumOf(S, k, w, u)}
<1>1. 0 \in T
  <2> DEFINE u == [k \in 0..0 |-> <<>>]
  <2>1. u \in [0..0 -> Seq(S)] /\ u[0] = <<>>
    OBVIOUS
  <2> HIDE DEF u
  <2>2. SumOf(S, 0, w, u)
    BY <2>1 DEF SumOf
  <2> QED BY <2>2
<1>2. ASSUME NEW k \in 0..n-1, k \in T PROVE k + 1 \in T
  <2>1. PICK u : SumOf(S, k, w, u)
    BY <1>2
  <2> DEFINE e == u[k] \o w[k + 1]
             v == [j \in 0..k+1 |-> IF j = k + 1 THEN e ELSE u[j]]
  <2>a. k \in Nat /\ k \in 0..k /\ k + 1 \in 1..n
    OBVIOUS
  <2>2. u[k] \in Seq(S) /\ w[k + 1] \in Seq(S)
    BY <2>1, <2>a DEF SumOf, PiecesOf
  <2>3. e \in Seq(S)
    BY <2>2, ConcatProperties
  <2> HIDE DEF e
  <2>4. v \in [0..k+1 -> Seq(S)]
    BY <2>1, <2>a, <2>3 DEF SumOf
  <2>5. v[k + 1] = e /\ \A j \in 0..k : v[j] = u[j]
    BY <2>a
  <2> HIDE DEF v
  <2>6. SumOf(S, k + 1, w, v)
    <3>1. v[0] = <<>>
      BY <2>1, <2>a, <2>5 DEF SumOf
    <3>2. ASSUME NEW j \in 1..k+1 PROVE v[j] = v[j - 1] \o w[j]
      <4>1. CASE j = k + 1
        <5>1. v[j - 1] = u[k] /\ v[j] = e
          BY <2>a, <2>5, <4>1
        <5> QED BY <4>1, <5>1 DEF e
      <4>2. CASE j \in 1..k
        <5>1. v[j] = u[j] /\ v[j - 1] = u[j - 1]
          BY <2>a, <2>5, <4>2
        <5> QED BY <2>1, <4>2, <5>1 DEF SumOf
      <4>3. j = k + 1 \/ j \in 1..k
        BY <2>a
      <4> QED BY <4>1, <4>2, <4>3
    <3> QED BY <2>4, <3>1, <3>2 DEF SumOf
  <2> QED BY <2>a, <2>6
<1>3. \A k \in 0..n : k \in T
  <2> HIDE DEF T
  <2> QED BY <1>1, <1>2, EveryPlace
<1> QED BY <1>3

\* Pieces that agree make the same.
LEMMA SumSame ==
  ASSUME NEW S, NEW n \in Nat, NEW w, NEW u, SumOf(S, n, w, u),
         NEW m \in 0..n, NEW v, NEW x, NEW l \in Nat, SumOf(S, l, x, v), m <= l,
         Agree(m, x, w)
  PROVE  v[m] = u[m]
PROOF
<1> DEFINE T == {k \in 0..m : v[k] = u[k]}
<1>1. 0 \in T
  BY DEF SumOf
<1>2. ASSUME NEW k \in 0..m-1, k \in T PROVE k + 1 \in T
  <2>1. k + 1 \in 1..n /\ k + 1 \in 1..l /\ k + 1 \in 1..m /\ (k + 1) - 1 = k
    OBVIOUS
  <2>2. u[k + 1] = u[k] \o w[k + 1] /\ v[k + 1] = v[k] \o x[k + 1]
    BY <2>1 DEF SumOf
  <2>3. v[k + 1] = u[k + 1]
    BY <1>2, <2>1, <2>2 DEF Agree
  <2> QED BY <2>1, <2>3
<1>3. \A k \in 0..m : k \in T
  <2> HIDE DEF T
  <2> QED BY <1>1, <1>2, EveryPlace
<1>4. m \in 0..m
  OBVIOUS
<1> QED BY <1>3, <1>4

\* Empty pieces make nothing.
LEMMA SumOfNothing ==
  ASSUME NEW S, NEW n \in Nat, NEW w, NEW u, SumOf(S, n, w, u),
         NEW m \in 0..n, Empty(m, w)
  PROVE  u[m] = <<>>
PROOF
<1> DEFINE T == {k \in 0..m : u[k] = <<>>}
<1>1. 0 \in T
  BY DEF SumOf
<1>2. ASSUME NEW k \in 0..m-1, k \in T PROVE k + 1 \in T
  <2>1. k + 1 \in 1..n /\ k + 1 \in 1..m /\ (k + 1) - 1 = k
    OBVIOUS
  <2>2. u[k + 1] = <<>> \o <<>>
    BY <1>2, <2>1 DEF SumOf, Empty
  <2>3. <<>> \o <<>> = <<>>
    <3>1. <<>> \in Seq(S)
      OBVIOUS
    <3> QED BY <3>1, ConcatEmptySeq
  <2> QED BY <2>1, <2>2, <2>3
<1>3. \A k \in 0..m : k \in T
  <2> HIDE DEF T
  <2> QED BY <1>1, <1>2, EveryPlace
<1> QED BY <1>3

\* The bytes b go from the front: of u[k + s], after which pieces follow that
\* are those of x after k.
Associates(S, b) == \A y, z \in Seq(S) : (b \o y) \o z = b \o (y \o z)

LEMMA Associative ==
  ASSUME NEW S, NEW b \in Seq(S) PROVE Associates(S, b)
BY ConcatAssociative DEF Associates

LEMMA SumWithoutFront ==
  ASSUME NEW S, NEW n \in Nat, NEW w, NEW u, SumOf(S, n, w, u), PiecesOf(S, n, w),
         NEW l \in Nat, NEW x, NEW v, SumOf(S, l, x, v),
         NEW s \in {0, 1}, n = l + s, NEW m \in 0..l, NEW b \in Seq(S),
         u[m + s] = b \o v[m],
         Shifted(m, l, s, w, x)
  PROVE  u[n] = b \o v[l]
PROOF
<1>0. Associates(S, b)
  BY Associative
<1> DEFINE T == {k \in m..l : u[k + s] = b \o v[k]}
<1>1. m \in T
  OBVIOUS
<1>2. ASSUME NEW k \in m..l-1, k \in T PROVE k + 1 \in T
  <2>1. /\ k + 1 \in 1..l /\ (k + 1) - 1 = k /\ k + 1 \in m+1..l /\ k + 1 + s \in 1..n
        /\ (k + 1 + s) - 1 = k + s /\ k \in 0..l
    OBVIOUS
  <2>2. u[k + 1 + s] = u[k + s] \o w[k + 1 + s] /\ v[k + 1] = v[k] \o x[k + 1] /\ w[k + 1 + s] = x[k + 1]
    BY <2>1 DEF SumOf, Shifted
  <2>3. v[k] \in Seq(S) /\ x[k + 1] \in Seq(S)
    BY <2>1, <2>2 DEF SumOf, PiecesOf
  <2>4. (b \o v[k]) \o x[k + 1] = b \o (v[k] \o x[k + 1])
    BY <1>0, <2>3, Zenon DEF Associates
  <2>a. u[k + s] = b \o v[k]
    BY <1>2
  <2>b. u[k + 1 + s] = b \o v[k + 1]
    BY <2>2, <2>4, <2>a
  <2>5. k + 1 \in m..l /\ u[(k + 1) + s] = b \o v[k + 1]
    BY <2>1, <2>b
  <2> QED BY <2>5
<1>a. m \in Nat
  OBVIOUS
<1>3. \A k \in m..l : k \in T
  <2> HIDE DEF T
  <2> QED BY <1>1, <1>2, <1>a, EveryPlace
<1>4. l \in m..l
  OBVIOUS
<1> QED BY <1>3, <1>4

Follows(y, b, z) == y = b \o z

LEMMA SumShortened ==
  ASSUME NEW S, NEW n \in Nat, NEW w, NEW u, SumOf(S, n, w, u), PiecesOf(S, n, w),
         NEW x, NEW v, SumOf(S, n, x, v), NEW m \in 0..n, NEW b \in Seq(S),
         Follows(u[m], b, v[m]), Shifted(m, n, 0, w, x)
  PROVE  Follows(u[n], b, v[n])
PROOF
<1>1. 0 \in {0, 1} /\ n = n + 0 /\ m + 0 = m
  OBVIOUS
<1>2. u[m + 0] = b \o v[m]
  BY <1>1 DEF Follows
<1>3. u[n] = b \o v[n]
  BY <1>1, <1>2, SumWithoutFront
<1> QED BY <1>3 DEF Follows

-----------------------------------------------------------------------------
\* The packets of a socket, read off the list.

Data == Bytes \cup {Junk}

\* What the node holds for the socket.
Piece(i, q) == IF pkt[q].id = i THEN pkt[q].bytes ELSE <<>>

ListedAre ==
  \A n \in Nat : \A c, u, i :
    ListInv /\ ChainOf(n, c) /\ SumOf(Data, n, [k \in 1..n |-> Piece(i, c[k])], u) => Listed(i) = u[n]

LEMMA ListedSums == ListedAre
PROOF
<1> SUFFICES ASSUME NEW n \in Nat, NEW c, NEW u, NEW i, ListInv, ChainOf(n, c),
                    SumOf(Data, n, [k \in 1..n |-> Piece(i, c[k])], u)
             PROVE  Listed(i) = u[n]
  BY DEF ListedAre
<1>0. PICK N \in Nat : N = Cardinality(Nodes) /\ n <= N
  BY PlacesFit
<1>1. \A k \in 0..N : chain[k] = IF k <= n THEN c[k] ELSE Nil
  BY <1>0, WalkFinds
<1>2. \A k \in 1..n : c[k] # Nil
  BY PacketsAssumption DEF ChainOf
<1> DEFINE G(k) == IF chain[k] # Nil /\ pkt[chain[k]].id = i THEN pkt[chain[k]].bytes ELSE <<>>
           W == [k \in 0..N |-> IF k <= n THEN u[k] ELSE u[n]]
<1>3. u \in [0..n -> Seq(Data)] /\ u[0] = <<>> /\ \A k \in 1..n : u[k] = u[k - 1] \o Piece(i, c[k])
  BY DEF SumOf
<1>4. \A k \in 1..n : G(k) = Piece(i, c[k])
  BY <1>0, <1>1, <1>2 DEF Piece
<1>5. \A k \in n+1..N : G(k) = <<>>
  BY <1>1
<1>6. u[n] \o <<>> = u[n] /\ u[n] \in Seq(Data)
  BY <1>3, ConcatEmptySeq
<1> HIDE DEF G
<1>7. ASSUME NEW k \in 0..N PROVE W[k] = IF k = 0 THEN <<>> ELSE W[k - 1] \o G(k)
  <2>1. CASE k = 0
    BY <1>3, <2>1
  <2>2. CASE k \in 1..n
    <3>1. W[k] = u[k] /\ W[k - 1] = u[k - 1] /\ k # 0
      BY <1>0, <2>2
    <3>2. u[k] = u[k - 1] \o G(k)
      BY <1>3, <1>4, <2>2
    <3> QED BY <3>1, <3>2
  <2>3. CASE k \in n+1..N
    <3>1. W[k] = u[n] /\ W[k - 1] = u[n] /\ k # 0
      BY <2>3
    <3> QED BY <1>5, <1>6, <2>3, <3>1
  <2> QED BY <1>0, <2>1, <2>2, <2>3
<1>8. W = [k \in 0..N |-> IF k = 0 THEN <<>> ELSE W[k - 1] \o G(k)]
  BY <1>7
<1>9. W[N] = u[n]
  BY <1>0
<1> HIDE DEF W
<1> DEFINE upTo == CHOOSE g : g = [k \in 0..N |-> IF k = 0 THEN <<>> ELSE g[k - 1] \o G(k)]
<1>10. Listed(i) = upTo[N]
  BY <1>0 DEF Listed, G
<1>11. upTo = [k \in 0..N |-> IF k = 0 THEN <<>> ELSE upTo[k - 1] \o G(k)]
  BY <1>8
<1> HIDE DEF upTo
<1>12. \A k \in 0..N : upTo[k] = IF k = 0 THEN <<>> ELSE upTo[k - 1] \o G(k)
  BY <1>11
<1> DEFINE T == {k \in 0..N : upTo[k] = W[k]}
<1>13. 0 \in T
  BY <1>7, <1>12
<1>14. ASSUME NEW k \in 0..N-1, k \in T PROVE k + 1 \in T
  <2>1. k + 1 \in 0..N /\ (k + 1) - 1 = k /\ k + 1 # 0
    OBVIOUS
  <2> QED BY <1>7, <1>12, <1>14, <2>1
<1>15. \A k \in 0..N : k \in T
  <2> HIDE DEF T
  <2> QED BY <1>13, <1>14, EveryPlace
<1>16. upTo[N] = W[N]
  BY <1>15
<1> QED BY <1>9, <1>10, <1>16

LEMMA ListedSumsNext == ListedAre'
BY ListedSums, PTL

Pieces(i, n, c) == [k \in 1..n |-> Piece(i, c[k])]

Readable ==
  \A n \in Nat : \A c, i : Types /\ ListInv /\ ChainOf(n, c) =>
    /\ PiecesOf(Data, n, Pieces(i, n, c))
    /\ Listed(i) \in Seq(Data)
    /\ \E u : SumOf(Data, n, Pieces(i, n, c), u) /\ Listed(i) = u[n]

LEMMA Reads == Readable
PROOF
<1> SUFFICES ASSUME NEW n \in Nat, NEW c, NEW i, Types, ListInv, ChainOf(n, c)
             PROVE  /\ PiecesOf(Data, n, Pieces(i, n, c))
                    /\ Listed(i) \in Seq(Data)
                    /\ \E u : SumOf(Data, n, Pieces(i, n, c), u) /\ Listed(i) = u[n]
  BY DEF Readable
<1>1. ASSUME NEW k \in 1..n PROVE Pieces(i, n, c)[k] \in Seq(Data)
  <2>1. c[k] \in Nodes /\ pkt[c[k]] \in PacketType
    BY DEF ChainOf, Types
  <2>2. pkt[c[k]].bytes \in Seq(Data) /\ <<>> \in Seq(Data)
    BY <2>1 DEF PacketType, Data
  <2> QED BY <2>2 DEF Pieces, Piece
<1>2. PiecesOf(Data, n, Pieces(i, n, c))
  BY <1>1 DEF PiecesOf
<1>3. PICK u : SumOf(Data, n, Pieces(i, n, c), u)
  BY <1>2, SumExists
<1>4. Listed(i) = u[n]
  BY <1>3, ListedSums DEF ListedAre, Pieces
<1>5. u[n] \in Seq(Data)
  BY <1>3 DEF SumOf
<1> QED BY <1>2, <1>3, <1>4, <1>5

LEMMA ReadsNext == Readable'
BY Reads, PTL

LEMMA ListedSame ==
  ASSUME UNCHANGED <<next, pkt>>, NEW i PROVE Listed(i)' = Listed(i)
BY DEF Listed, chain

\* A packet's bytes come behind what there is for its socket.
LEMMA ListedAppend ==
  ASSUME Types, ListInv, Types', ListInv', NEW q \in Nodes \ live, Appended(q),
         NEW new \in PacketType, pkt' = [pkt EXCEPT ![q] = new], NEW i
  PROVE  /\ Listed(i) \in Seq(Data)
         /\ Listed(i)' = Listed(i) \o (IF new.id = i THEN new.bytes ELSE <<>>)
PROOF
<1>1. PICK n \in Nat : \E c : ChainOf(n, c)
  BY DEF ListInv
<1>2. PICK c : ChainOf(n, c)
  BY <1>1
<1>3. PICK d : ChainOf(n + 1, d)' /\ d[n + 1] = q /\ \A k \in 0..n : d[k] = c[k]
  BY <1>2, AppendChain
<1>4. Listed(i) \in Seq(Data) /\ \E u : SumOf(Data, n, Pieces(i, n, c), u) /\ Listed(i) = u[n]
  BY <1>2, Reads DEF Readable
<1>5. PICK u : SumOf(Data, n, Pieces(i, n, c), u) /\ Listed(i) = u[n]
  BY <1>4
<1>6. PICK l \in Nat : l = n + 1
  OBVIOUS
<1> DEFINE x == Pieces(i, l, d)'
<1>7. \E v : SumOf(Data, l, x, v) /\ Listed(i)' = v[l]
  BY <1>3, <1>6, ReadsNext DEF Readable
<1>8. PICK v : SumOf(Data, l, x, v) /\ Listed(i)' = v[l]
  BY <1>7
<1>9. \A k \in 1..n : c[k] \in Nodes /\ c[k] # q
  BY <1>2 DEF ChainOf
<1>10. \A k \in 1..n : x[k] = Pieces(i, n, c)[k]
  <2> SUFFICES ASSUME NEW k \in 1..n PROVE x[k] = Pieces(i, n, c)[k]
    OBVIOUS
  <2>1. k \in 1..l /\ d[k] = c[k]
    BY <1>3, <1>6
  <2>2. pkt'[c[k]] = pkt[c[k]]
    BY <1>9 DEF Types
  <2> QED BY <2>1, <2>2 DEF Pieces, Piece
<1>11. x[l] = IF new.id = i THEN new.bytes ELSE <<>>
  <2>1. pkt'[q] = new /\ l \in 1..l /\ d[l] = q
    BY <1>3, <1>6 DEF Types
  <2> QED BY <2>1 DEF Pieces, Piece
<1> HIDE DEF x
<1>12. v[n] = u[n]
  <2>1. n \in 0..n /\ n <= l
    BY <1>6
  <2>2. Agree(n, x, Pieces(i, n, c))
    BY <1>10 DEF Agree
  <2> QED BY <1>5, <1>8, <2>1, <2>2, SumSame
<1>13. v[l] = v[n] \o x[l]
  <2>1. l \in 1..l /\ l - 1 = n
    BY <1>6
  <2> QED BY <1>8, <2>1 DEF SumOf
<1> QED BY <1>4, <1>5, <1>8, <1>11, <1>12, <1>13

\* The bytes of a packet that is taken out were the first for the socket,
\* unless it was another socket's.
LEMMA ListedUnlink ==
  ASSUME Types, ListInv, Types', ListInv', Unlink, NEW n \in Nat, NEW c, ChainOf(n, c),
         NEW m \in 0..n-1, p = c[m], q0 = c[m + 1], q0 \in live, NEW i,
         Piece(i, q0) = <<>> \/ \A k \in 1..m : Piece(i, c[k]) = <<>>
  PROVE  /\ Piece(i, q0) \in Seq(Data) /\ Listed(i)' \in Seq(Data)
         /\ Listed(i) = Piece(i, q0) \o Listed(i)'
PROOF
<1>1. PICK l \in Nat : n = l + 1 /\ \E d : /\ ChainOf(l, d)'
                                           /\ \A k \in 0..m : d[k] = c[k]
                                           /\ \A k \in m+1..l : d[k] = c[k + 1]
  BY UnlinkChain
<1>2. PICK d : ChainOf(l, d)' /\ (\A k \in 0..m : d[k] = c[k]) /\ (\A k \in m+1..l : d[k] = c[k + 1])
  BY <1>1
<1>w. PICK w : w = Pieces(i, n, c)
  OBVIOUS
<1>x. PICK x : x = Pieces(i, l, d)'
  OBVIOUS
<1>b. PICK b : b = Piece(i, q0)
  OBVIOUS
<1>3. PiecesOf(Data, n, w) /\ \E u : SumOf(Data, n, w, u) /\ Listed(i) = u[n]
  BY <1>w, Reads DEF Readable
<1>4. PICK u : SumOf(Data, n, w, u) /\ Listed(i) = u[n]
  BY <1>3
<1>5. Listed(i)' \in Seq(Data) /\ \E v : SumOf(Data, l, x, v) /\ Listed(i)' = v[l]
  BY <1>2, <1>x, ReadsNext DEF Readable
<1>6. PICK v : SumOf(Data, l, x, v) /\ Listed(i)' = v[l]
  BY <1>5
<1>7. \A k \in 1..n : k # m + 1 => pkt'[c[k]] = pkt[c[k]]
  <2> SUFFICES ASSUME NEW k \in 1..n, k # m + 1 PROVE pkt'[c[k]] = pkt[c[k]]
    OBVIOUS
  <2>1. c[k] \in Nodes /\ c[k] # q0
    <3>1. k \in 0..n /\ m + 1 \in 0..n
      OBVIOUS
    <3> QED BY <3>1 DEF ChainOf
  <2> QED BY <2>1 DEF Unlink, Types
<1>8. \A k \in 1..m : x[k] = w[k]
  <2> SUFFICES ASSUME NEW k \in 1..m PROVE x[k] = w[k]
    OBVIOUS
  <2>1. k \in 1..l /\ k \in 1..n /\ k # m + 1 /\ d[k] = c[k]
    BY <1>1, <1>2
  <2> QED BY <1>7, <1>w, <1>x, <2>1 DEF Pieces, Piece
<1>9. \A k \in m+1..l : w[k + 1] = x[k]
  <2> SUFFICES ASSUME NEW k \in m+1..l PROVE w[k + 1] = x[k]
    OBVIOUS
  <2>1. k \in 1..l /\ k + 1 \in 1..n /\ k + 1 # m + 1 /\ d[k] = c[k + 1]
    BY <1>1, <1>2
  <2> QED BY <1>7, <1>w, <1>x, <2>1 DEF Pieces, Piece
<1>10. m + 1 \in 1..n /\ m \in 0..l /\ m \in 0..n /\ m <= l /\ (m + 1) - 1 = m
  BY <1>1
<1>11. w[m + 1] = b /\ b \in Seq(Data)
  BY <1>3, <1>10, <1>b, <1>w DEF Pieces, PiecesOf
<1>12. b = <<>> \/ \A k \in 1..m : w[k] = <<>>
  BY <1>10, <1>b, <1>w DEF Pieces
<1>13. v[m] = u[m] /\ u[m] \in Seq(Data)
  <2>1. v[m] = u[m]
    <3>1. Agree(m, x, w)
      BY <1>8 DEF Agree
    <3> QED BY <1>4, <1>6, <1>10, <3>1, SumSame
  <2> QED BY <1>4, <1>10, <2>1 DEF SumOf
<1>14. u[m + 1] = u[m] \o b
  BY <1>4, <1>10, <1>11 DEF SumOf
<1>15. u[m + 1] = b \o v[m]
  <2>1. CASE b = <<>>
    BY <1>13, <1>14, <2>1, ConcatEmptySeq
  <2>2. CASE \A k \in 1..m : w[k] = <<>>
    <3>1. u[m] = <<>>
      <4>1. Empty(m, w)
        BY <2>2 DEF Empty
      <4> QED BY <1>4, <1>10, <4>1, SumOfNothing
    <3> QED BY <1>11, <1>13, <1>14, <3>1, ConcatEmptySeq
  <2> QED BY <1>12, <2>1, <2>2
<1>16. u[n] = b \o v[l]
  <2>1. 1 \in {0, 1}
    OBVIOUS
  <2>2. Shifted(m, l, 1, w, x)
    BY <1>9 DEF Shifted
  <2>3. n = l + 1 /\ m \in 0..l
    BY <1>1, <1>10
  <2>4. PiecesOf(Data, n, w) /\ b \in Seq(Data) /\ SumOf(Data, n, w, u) /\ SumOf(Data, l, x, v)
    BY <1>3, <1>4, <1>6, <1>11
  <2> QED BY <1>15, <2>1, <2>2, <2>3, <2>4, SumWithoutFront
<1> QED BY <1>4, <1>5, <1>6, <1>11, <1>16, <1>b

\* The first bytes b of the packet are taken, the others stay.
Shortened(q, b) ==
  /\ UNCHANGED <<next, end, live>>
  /\ \E less \in PacketType :
       /\ pkt' = [pkt EXCEPT ![q] = less]
       /\ less.id = pkt[q].id /\ pkt[q].bytes = b \o less.bytes

LEMMA ListedShortened ==
  ASSUME Types, ListInv, Types', ListInv', NEW n \in Nat, NEW c, ChainOf(n, c),
         NEW m \in 0..n-1, NEW q, q = c[m + 1], NEW b \in Seq(Data), Shortened(q, b),
         NEW i, i = pkt[q].id => \A k \in 1..m : Piece(i, c[k]) = <<>>
  PROVE  /\ Listed(i) \in Seq(Data) /\ Listed(i)' \in Seq(Data)
         /\ Listed(i) = IF i = pkt[q].id THEN b \o Listed(i)' ELSE Listed(i)'
PROOF
<1>1. ChainOf(n, c)'
  BY DEF ChainOf, Shortened
<1>2. PICK less \in PacketType : /\ pkt' = [pkt EXCEPT ![q] = less]
                                 /\ less.id = pkt[q].id /\ pkt[q].bytes = b \o less.bytes
  BY DEF Shortened
<1>w. PICK w : w = Pieces(i, n, c)
  OBVIOUS
<1>x. PICK x : x = Pieces(i, n, c)'
  OBVIOUS
<1>3. PiecesOf(Data, n, w) /\ Listed(i) \in Seq(Data) /\ \E u : SumOf(Data, n, w, u) /\ Listed(i) = u[n]
  BY <1>w, Reads DEF Readable
<1>4. PICK u : SumOf(Data, n, w, u) /\ Listed(i) = u[n]
  BY <1>3
<1>5. Listed(i)' \in Seq(Data) /\ \E v : SumOf(Data, n, x, v) /\ Listed(i)' = v[n]
  BY <1>1, <1>x, ReadsNext DEF Readable
<1>6. PICK v : SumOf(Data, n, x, v) /\ Listed(i)' = v[n]
  BY <1>5
<1>7. m + 1 \in 1..n /\ m \in 0..n /\ (m + 1) - 1 = m /\ m + 1 \in 0..n /\ m <= n
  OBVIOUS
<1>8. ASSUME NEW k \in 1..n, k # m + 1 PROVE x[k] = w[k]
  <2>1. c[k] \in Nodes /\ c[k] # q /\ k \in 0..n
    BY <1>7, <1>8 DEF ChainOf
  <2>2. pkt'[c[k]] = pkt[c[k]]
    BY <1>2, <2>1 DEF Types
  <2> QED BY <1>w, <1>x, <2>2 DEF Pieces, Piece
<1>9. pkt'[q] = less /\ q \in Nodes
  BY <1>2, <1>7 DEF Types, ChainOf
<1>10. CASE i # pkt[q].id
  <2>1. x[m + 1] = w[m + 1]
    BY <1>2, <1>7, <1>9, <1>10, <1>w, <1>x DEF Pieces, Piece
  <2>2. Agree(n, x, w)
    BY <1>8, <2>1 DEF Agree
  <2>3. n \in 0..n /\ n <= n
    OBVIOUS
  <2>4. v[n] = u[n]
    BY <1>4, <1>6, <2>2, <2>3, SumSame
  <2> QED BY <1>3, <1>4, <1>5, <1>6, <1>10, <2>4
<1>11. CASE i = pkt[q].id
  <2>1. w[m + 1] = b \o x[m + 1] /\ x[m + 1] \in Seq(Data)
    <3>1. w[m + 1] = pkt[q].bytes /\ x[m + 1] = less.bytes
      BY <1>2, <1>7, <1>9, <1>11, <1>w, <1>x DEF Pieces, Piece
    <3> QED BY <1>2, <3>1 DEF PacketType, Data
  <2>2. Empty(m, w) /\ Empty(m, x)
    <3>1. ASSUME NEW k \in 1..m PROVE w[k] = <<>> /\ x[k] = <<>>
      <4>1. k \in 1..n /\ k # m + 1
        OBVIOUS
      <4>2. w[k] = <<>>
        BY <1>11, <1>w, <4>1 DEF Pieces
      <4> QED BY <1>8, <4>1, <4>2
    <3> QED BY <3>1 DEF Empty
  <2>3. u[m] = <<>> /\ v[m] = <<>>
    BY <1>4, <1>6, <1>7, <2>2, SumOfNothing
  <2>4. u[m + 1] = <<>> \o (b \o x[m + 1]) /\ v[m + 1] = <<>> \o x[m + 1]
    BY <1>4, <1>6, <1>7, <2>1, <2>3 DEF SumOf
  <2>5. u[m + 1] = b \o v[m + 1]
    <3>1. b \o x[m + 1] \in Seq(Data)
      BY <2>1, ConcatProperties
    <3> QED BY <2>1, <2>4, <3>1, ConcatEmptySeq
  <2>6. PICK j \in 0..n : j = m + 1
    BY <1>7
  <2>7. Shifted(j, n, 0, w, x)
    <3>1. ASSUME NEW k \in j+1..n PROVE w[k + 0] = x[k]
      BY <1>8, <2>6
    <3> QED BY <3>1 DEF Shifted
  <2>9. Follows(u[j], b, v[j])
    BY <2>5, <2>6 DEF Follows
  <2>10. SumOf(Data, n, w, u) /\ SumOf(Data, n, x, v) /\ PiecesOf(Data, n, w)
    BY <1>3, <1>4, <1>6
  <2>11. u[n] = b \o v[n]
    <3>1. Follows(u[n], b, v[n])
      BY <2>7, <2>9, <2>10, SumShortened
    <3> QED BY <3>1 DEF Follows
  <2> QED BY <1>3, <1>4, <1>5, <1>6, <1>11, <2>11
<1> QED BY <1>10, <1>11

-----------------------------------------------------------------------------
\* A walk leaves no packet of its socket behind it, and a walk for all sockets
\* none at all.

Passed(n, c, m) == \A k \in 1..m : id # All /\ pkt[c[k]].id # id

WalkInv ==
  /\ data \in Seq(Data)
  /\ at = "recv" => id \in Ids
  /\ at \in {"recv", "clear"} =>
       \E n \in Nat : \E c : ChainOf(n, c) /\ \E m \in 0..n : p = c[m] /\ Passed(n, c, m)

LEMMA InitWalk == Init => WalkInv
PROOF
<1> SUFFICES ASSUME Init PROVE WalkInv
  OBVIOUS
<1> QED BY DEF Init, WalkInv

\* Where a walk stands.
LEMMA Standing ==
  ASSUME Types, ListInv, WalkInv, at \in {"recv", "clear"}, q0 # Nil
  PROVE  \E n \in Nat : \E c : ChainOf(n, c) /\ \E m \in 0..n-1 : 
           p = c[m] /\ q0 = c[m + 1] /\ q0 \in live /\ Passed(n, c, m)
PROOF
<1>1. PICK n \in Nat : \E c : ChainOf(n, c) /\ \E m \in 0..n : p = c[m] /\ Passed(n, c, m)
  BY DEF WalkInv
<1>2. PICK c : ChainOf(n, c) /\ \E m \in 0..n : p = c[m] /\ Passed(n, c, m)
  BY <1>1
<1>3. PICK m \in 0..n : p = c[m] /\ Passed(n, c, m)
  BY <1>2
<1>4. PICK j \in 0..n-1 : p = c[j] /\ q0 = c[j + 1] /\ q0 \in live
  BY <1>2, PlaceOf
<1>5. j = m
  <2>1. j \in 0..n /\ m \in 0..n /\ c[j] = c[m]
    BY <1>3, <1>4
  <2> QED BY <1>2, <2>1 DEF ChainOf
<1> QED BY <1>2, <1>3, <1>4, <1>5

LEMMA NextWalk == Types /\ ListInv /\ WalkInv /\ [Next]_vars => WalkInv'
PROOF
<1> SUFFICES ASSUME Types, ListInv, WalkInv, [Next]_vars PROVE WalkInv'
  OBVIOUS
<1> USE DEF listVars, walkVars
<1>0. Types' /\ ListInv'
  BY NextTypes, NextList
<1>1. ASSUME NEW f \in {"recv", "clear"}, NEW i, NEW max, Walk(f, i, max), f = "recv" => i \in Ids PROVE WalkInv'
  <2>1. PICK n \in Nat : \E c : ChainOf(n, c)'
    BY <1>0 DEF ListInv
  <2>2. PICK c : ChainOf(n, c)'
    BY <2>1
  <2>3. 0 \in 0..n /\ p' = c[0] /\ Passed(n, c, 0)'
    BY <1>1, <2>2 DEF Walk, ChainOf, Passed
  <2>4. data' \in Seq(Data) /\ (at' = "recv" => id' \in Ids)
    BY <1>1 DEF Walk
  <2> QED BY <2>2, <2>3, <2>4 DEF WalkInv
<1>2. ASSUME at' \notin {"recv", "clear"}, data' \in Seq(Data) PROVE WalkInv'
  BY <1>2 DEF WalkInv
<1>3. ASSUME NEW i \in Ids, packet_handler(i) PROVE WalkInv'
  BY <1>2, <1>3 DEF packet_handler, WalkInv
<1>4. ASSUME NEW i \in Ids, recv(i) PROVE WalkInv'
  BY <1>1, <1>4 DEF recv
<1>5. ASSUME NEW i, clear_socket_packets(i) PROVE WalkInv'
  BY <1>1, <1>5 DEF clear_socket_packets
<1>6. CASE Skip
  <2>1. PICK n \in Nat : \E c : ChainOf(n, c) /\ \E m \in 0..n-1 :
          p = c[m] /\ q0 = c[m + 1] /\ q0 \in live /\ Passed(n, c, m)
    BY <1>6, Standing DEF Skip
  <2>2. PICK c : ChainOf(n, c) /\ \E m \in 0..n-1 : p = c[m] /\ q0 = c[m + 1] /\ q0 \in live /\ Passed(n, c, m)
    BY <2>1
  <2>3. PICK m \in 0..n-1 : p = c[m] /\ q0 = c[m + 1] /\ Passed(n, c, m)
    BY <2>2
  <2>4. ChainOf(n, c)'
    BY <1>6, <2>2 DEF Skip, ChainOf
  <2>5. m + 1 \in 0..n /\ p' = c[m + 1]
    BY <1>6, <2>3 DEF Skip
  <2>6. id # All /\ pkt[c[m + 1]].id # id
    BY <1>6, <2>3 DEF Skip, Mine
  <2>7. Passed(n, c, m + 1)'
    <3> SUFFICES ASSUME NEW k \in 1..m+1 PROVE id' # All /\ pkt'[c[k]].id # id'
      BY DEF Passed
    <3>1. k \in 1..m \/ k = m + 1
      BY <2>3
    <3>2. id' = id /\ pkt' = pkt
      BY <1>6 DEF Skip
    <3> QED BY <2>3, <2>6, <3>1, <3>2 DEF Passed
  <2>8. data' = data /\ at' = at /\ id' = id
    BY <1>6 DEF Skip
  <2> QED BY <2>4, <2>5, <2>7, <2>8 DEF WalkInv
<1>7. ASSUME at \in {"recv", "clear"}, Mine, Unlink, UNCHANGED <<at, id, p>>, data' \in Seq(Data) PROVE WalkInv'
  <2>a. q0 # Nil
    BY <1>7 DEF Mine
  <2>1. PICK n \in Nat : \E c : ChainOf(n, c) /\ \E m \in 0..n-1 :
          p = c[m] /\ q0 = c[m + 1] /\ q0 \in live /\ Passed(n, c, m)
    BY <1>7, <2>a, Standing
  <2>2. PICK c : ChainOf(n, c) /\ \E m \in 0..n-1 : p = c[m] /\ q0 = c[m + 1] /\ q0 \in live /\ Passed(n, c, m)
    BY <2>1
  <2>3. PICK m \in 0..n-1 : p = c[m] /\ q0 = c[m + 1] /\ q0 \in live /\ Passed(n, c, m)
    BY <2>2
  <2>4. PICK l \in Nat : n = l + 1 /\ \E d : ChainOf(l, d)' /\ \A k \in 0..m : d[k] = c[k]
    BY <1>7, <2>2, <2>3, UnlinkChain
  <2>5. PICK d : ChainOf(l, d)' /\ \A k \in 0..m : d[k] = c[k]
    BY <2>4
  <2>6. m \in 0..l /\ p' = d[m]
    BY <1>7, <2>3, <2>4, <2>5
  <2>7. Passed(l, d, m)'
    <3> SUFFICES ASSUME NEW k \in 1..m PROVE id' # All /\ pkt'[d[k]].id # id'
      BY DEF Passed
    <3>1. k \in 0..n /\ m + 1 \in 0..n /\ k # m + 1 /\ k \in 1..n /\ d[k] = c[k]
      BY <2>3, <2>5
    <3>2. c[k] \in Nodes /\ c[k] # q0
      BY <2>2, <2>3, <3>1 DEF ChainOf
    <3>3. pkt'[c[k]] = pkt[c[k]]
      BY <1>7, <3>2 DEF Unlink, Types
    <3> QED BY <1>7, <2>3, <3>1, <3>3 DEF Passed
  <2>8. (at' = "recv" => id' \in Ids) /\ data' \in Seq(Data)
    BY <1>7 DEF WalkInv
  <2> QED BY <2>5, <2>6, <2>7, <2>8 DEF WalkInv
<1>8. CASE RecvFull
  <2>1. pkt[q0].bytes \in Seq(Data) /\ data \in Seq(Data)
    BY <1>8 DEF RecvFull, Mine, Types, PacketType, q0, WalkInv, Data
  <2>2. data' \in Seq(Data)
    BY <1>8, <2>1, ConcatProperties DEF RecvFull
  <2> QED BY <1>7, <1>8, <2>2 DEF RecvFull
<1>9. CASE ClearNode
  BY <1>7, <1>9 DEF ClearNode, WalkInv
<1>10. CASE RecvPartial
  <2>1. pkt[q0].bytes \in Seq(Data) /\ data \in Seq(Data) /\ amount \in Nat /\ Len(pkt[q0].bytes) > amount
    BY <1>10, PacketsAssumption DEF RecvPartial, Mine, Types, PacketType, q0, WalkInv, Data, Length
  <2>2. SubSeq(pkt[q0].bytes, 1, amount) \in Seq(Data)
    BY <2>1
  <2>3. data' \in Seq(Data)
    BY <1>10, <2>1, <2>2, ConcatProperties DEF RecvPartial
  <2> QED BY <1>2, <1>10, <2>3 DEF RecvPartial
<1>11. CASE RecvEnd
  BY <1>2, <1>11 DEF RecvEnd, WalkInv
<1>12. CASE RecvReturn \/ ClearReturn
  <2>1. at' = "idle" /\ data' = <<>> /\ <<>> \in Seq(Data)
    BY <1>12 DEF RecvReturn, ClearReturn, Return
  <2> QED BY <1>2, <2>1
<1>13. CASE UNCHANGED vars
  BY <1>13 DEF vars, WalkInv, ChainOf, Passed
<1> QED BY <1>3, <1>4, <1>5, <1>6, <1>8, <1>9, <1>10, <1>11, <1>12, <1>13 DEF Next

-----------------------------------------------------------------------------
\* Each step of the driver is a step of the streams, or none.

LEMMA Quiet ==
  ASSUME \A i \in Ids : Unread(i)' = Unread(i), Returned' = Returned
  PROVE  UNCHANGED Streams!vars
BY DEF Streams!vars

LEMMA ArriveStep ==
  ASSUME Types, ListInv, WalkInv, Types', ListInv', NEW i \in Ids, packet_handler(i)
  PROVE  Streams!Next
PROOF
<1>1. PICK q \in Nodes \ live : \E n \in 1..MaxLen : \E bytes \in ReadBytes(n) :
          pkt' = [pkt EXCEPT ![q] = [id |-> i, bytes |-> bytes]] /\ Appended(q)
  BY DEF packet_handler, Appended
<1>2. PICK n \in 1..MaxLen : \E bytes \in ReadBytes(n) :
          pkt' = [pkt EXCEPT ![q] = [id |-> i, bytes |-> bytes]]
  BY <1>1
<1>3. PICK bytes \in ReadBytes(n) : pkt' = [pkt EXCEPT ![q] = [id |-> i, bytes |-> bytes]]
  BY <1>2
<1>4. n \in Nat /\ bytes \in [1..n -> Bytes \cup {Junk}]
  BY <1>3, PacketsAssumption DEF ReadBytes
<1>5. bytes \in Seq(Bytes \cup {Junk})
  BY <1>4
<1>n. PICK new \in PacketType : new = [id |-> i, bytes |-> bytes]
  BY <1>5 DEF PacketType
<1>6. new.id = i /\ new.bytes = bytes /\ pkt' = [pkt EXCEPT ![q] = new]
  BY <1>3, <1>n
<1>7. at = "idle" /\ at' = "idle" /\ Returned' = Returned
  BY DEF packet_handler, walkVars, Returned
<1>8. ASSUME NEW j \in Ids PROVE Unread(j)' = IF j = i THEN Unread(j) \o bytes ELSE Unread(j)
  <2>0. Appended(q)
    BY <1>1
  <2>1. Listed(j) \in Seq(Data) /\ Listed(j)' = Listed(j) \o (IF new.id = j THEN new.bytes ELSE <<>>)
    BY <1>6, <2>0, ListedAppend
  <2>2. Listed(j) \o bytes \in Seq(Data)
    BY <1>5, <2>1, ConcatProperties DEF Data
  <2>3. Unread(j) = Listed(j)
    BY <1>7, <2>1, ConcatEmptySeq DEF Unread
  <2>4. CASE j = i
    <3>1. Listed(j)' = Listed(j) \o bytes
      BY <1>6, <2>1, <2>4
    <3>2. Unread(j)' = <<>> \o (Listed(j) \o bytes)
      BY <1>7, <3>1 DEF Unread
    <3> QED BY <2>2, <2>3, <2>4, <3>2, ConcatEmptySeq
  <2>5. CASE j # i
    <3>1. Listed(j)' = Listed(j)
      BY <1>6, <2>1, <2>5, ConcatEmptySeq
    <3>2. Unread(j)' = <<>> \o Listed(j)
      BY <1>7, <3>1 DEF Unread
    <3> QED BY <2>1, <2>3, <2>5, <3>2, ConcatEmptySeq
  <2> QED BY <2>4, <2>5
<1>9. Streams!Arrive(i)
  <2> DEFINE st == [k \in Ids |-> Unread(k)]
             su == [k \in Ids |-> Unread(k)']
  <2>1. su = [st EXCEPT ![i] = st[i] \o bytes]
    BY <1>8
  <2> QED BY <1>4, <1>7, <2>1 DEF Streams!Arrive
<1> QED BY <1>9 DEF Streams!Next

LEMMA ListedType == 
  ASSUME Types, ListInv, NEW i PROVE Listed(i) \in Seq(Data)
PROOF
<1>1. PICK n \in Nat : \E c : ChainOf(n, c)
  BY DEF ListInv
<1> QED BY <1>1, Reads DEF Readable

\* The front of a concatenation is read, the rest stays.
LEMMA ReadFront ==
  ASSUME NEW S, NEW a \in Seq(S), NEW c \in Seq(S), NEW w, Follows(w, a, c)
  PROVE  /\ Len(a) \in 0..Len(w)
         /\ SubSeq(w, 1, Len(a)) = a
         /\ SubSeq(w, Len(a) + 1, Len(w)) = c
PROOF
<1>1. /\ a \o c \in Seq(S) /\ Len(a \o c) = Len(a) + Len(c)
      /\ \A i \in 1 .. Len(a) + Len(c) : (a \o c)[i] = IF i <= Len(a) THEN a[i] ELSE c[i - Len(a)]
  BY ConcatProperties
<1>2. Len(a) \in Nat /\ Len(c) \in Nat
  BY LenProperties
<1>w. w = a \o c
  BY DEF Follows
<1>3. SubSeq(w, 1, Len(a)) = a
  <2>1. /\ SubSeq(w, 1, Len(a)) \in Seq(S) /\ Len(SubSeq(w, 1, Len(a))) = Len(a)
        /\ \A i \in 1..Len(a) : SubSeq(w, 1, Len(a))[i] = w[i]
    BY <1>1, <1>2, <1>w
  <2>2. \A i \in 1..Len(a) : w[i] = a[i]
    BY <1>1, <1>2, <1>w
  <2> QED BY <2>1, <2>2, SeqEqual
<1>4. SubSeq(w, Len(a) + 1, Len(w)) = c
  <2>1. /\ SubSeq(w, Len(a) + 1, Len(w)) \in Seq(S) /\ Len(SubSeq(w, Len(a) + 1, Len(w))) = Len(c)
        /\ \A i \in 1..Len(c) : SubSeq(w, Len(a) + 1, Len(w))[i] = w[i + Len(a)]
    BY <1>1, <1>2, <1>w
  <2>2. \A i \in 1..Len(c) : w[i + Len(a)] = c[i]
    BY <1>1, <1>2, <1>w
  <2> QED BY <2>1, <2>2, SeqEqual
<1> QED BY <1>1, <1>2, <1>3, <1>4, <1>w

LEMMA ReadStep ==
  ASSUME NEW i \in Ids, NEW a \in Seq(Data), NEW c \in Seq(Data),
         Follows(Unread(i), a, c), Unread(i)' = c, Returned' = a,
         \A j \in Ids : j # i => Unread(j)' = Unread(j)
  PROVE  Streams!Next
PROOF
<1> DEFINE st == [k \in Ids |-> Unread(k)]
           su == [k \in Ids |-> Unread(k)']
<1>1. Follows(st[i], a, c)
  OBVIOUS
<1>2. su = [st EXCEPT ![i] = c]
  OBVIOUS
<1> DEFINE n == Len(a)
<1>3. n \in 0..Len(st[i]) /\ SubSeq(st[i], 1, n) = a /\ SubSeq(st[i], n + 1, Len(st[i])) = c
  BY <1>1, ReadFront
<1> HIDE DEF n
<1>4. su = [st EXCEPT ![i] = SubSeq(@, n + 1, Len(@))]
  BY <1>2, <1>3
<1>5. Streams!Read(i)
  BY <1>3, <1>4 DEF Streams!Read
<1> QED BY <1>5 DEF Streams!Next

LEMMA RecvFullStep ==
  ASSUME Types, ListInv, WalkInv, Types', ListInv', RecvFull
  PROVE  UNCHANGED Streams!vars
PROOF
<1>0. at = "recv" /\ id \in Ids /\ id # All /\ q0 # Nil /\ pkt[q0].id = id /\ Unlink
  BY PacketsAssumption DEF RecvFull, WalkInv, Mine
<1>1. PICK n \in Nat : \E c : ChainOf(n, c) /\ \E m \in 0..n-1 :
        p = c[m] /\ q0 = c[m + 1] /\ q0 \in live /\ Passed(n, c, m)
  BY <1>0, Standing
<1>2. PICK c : ChainOf(n, c) /\ \E m \in 0..n-1 : p = c[m] /\ q0 = c[m + 1] /\ q0 \in live /\ Passed(n, c, m)
  BY <1>1
<1>3. PICK m \in 0..n-1 : p = c[m] /\ q0 = c[m + 1] /\ q0 \in live /\ Passed(n, c, m)
  BY <1>2
<1>4. ASSUME NEW j \in Ids
      PROVE  Piece(j, q0) \in Seq(Data) /\ Listed(j)' \in Seq(Data) /\ Listed(j) = Piece(j, q0) \o Listed(j)'
  <2>1. Piece(j, q0) = <<>> \/ \A k \in 1..m : Piece(j, c[k]) = <<>>
    BY <1>0, <1>3 DEF Piece, Passed
  <2> QED BY <1>0, <1>2, <1>3, <2>1, ListedUnlink
<1>5. at' = "recv" /\ id' = id /\ data' = data \o pkt[q0].bytes /\ data \in Seq(Data)
  BY <1>0 DEF RecvFull, WalkInv
<1>6. ASSUME NEW j \in Ids PROVE Unread(j)' = Unread(j)
  <2>1. CASE j = id
    <3>1. Piece(j, q0) = pkt[q0].bytes
      BY <1>0, <2>1 DEF Piece
    <3>2. Unread(j) = data \o (Piece(j, q0) \o Listed(j)')
      BY <1>0, <1>4, <2>1 DEF Unread
    <3>3. Unread(j)' = (data \o Piece(j, q0)) \o Listed(j)'
      BY <1>0, <1>5, <2>1, <3>1 DEF Unread
    <3>4. Associates(Data, data)
      BY <1>5, Associative
    <3> QED BY <1>4, <3>2, <3>3, <3>4 DEF Associates
  <2>2. CASE j # id
    <3>1. Piece(j, q0) = <<>>
      BY <1>0, <2>2 DEF Piece
    <3>2. Listed(j) = Listed(j)'
      BY <1>4, <3>1, ConcatEmptySeq
    <3> QED BY <1>0, <1>5, <2>2, <3>2 DEF Unread
  <2> QED BY <2>1, <2>2
<1>7. Returned' = Returned
  BY <1>0, <1>5 DEF Returned
<1> QED BY <1>6, <1>7, Quiet

LEMMA RecvPartialStep ==
  ASSUME Types, ListInv, WalkInv, Types', ListInv', RecvPartial
  PROVE  Streams!Next
PROOF
<1>0. at = "recv" /\ at' = "return" /\ id \in Ids /\ id # All /\ q0 # Nil /\ pkt[q0].id = id
  BY PacketsAssumption DEF RecvPartial, WalkInv, Mine
<1>1. PICK n \in Nat : \E c : ChainOf(n, c) /\ \E m \in 0..n-1 :
        p = c[m] /\ q0 = c[m + 1] /\ q0 \in live /\ Passed(n, c, m)
  BY <1>0, Standing
<1>2. PICK c : ChainOf(n, c) /\ \E m \in 0..n-1 : p = c[m] /\ q0 = c[m + 1] /\ q0 \in live /\ Passed(n, c, m)
  BY <1>1
<1>3. PICK m \in 0..n-1 : p = c[m] /\ q0 = c[m + 1] /\ q0 \in live /\ Passed(n, c, m)
  BY <1>2
<1>q. PICK q : q = q0
  OBVIOUS
<1>b. PICK b : b = SubSeq(pkt[q].bytes, 1, amount)
  OBVIOUS
<1>r. PICK r : r = SubSeq(pkt[q].bytes, amount + 1, Len(pkt[q].bytes))
  OBVIOUS
<1>i. PICK i \in Ids : i = id
  BY <1>0
<1>4. pkt[q].bytes \in Seq(Data) /\ pkt[q] \in PacketType /\ q \in Nodes
  <2>1. q \in Nodes
    BY <1>0, <1>q DEF Types, q0
  <2> QED BY <2>1 DEF Types, PacketType, Data
<1>a. data \in Seq(Data) /\ amount \in Nat /\ Len(pkt[q].bytes) > amount
  BY <1>q, PacketsAssumption DEF RecvPartial, Types, WalkInv, Length
<1>5. b \in Seq(Data) /\ r \in Seq(Data)
  BY <1>4, <1>a, <1>b, <1>r
<1>6. pkt[q].bytes = b \o r
  <2>1. PICK s \in Seq(Data) : s = pkt[q].bytes
    BY <1>4
  <2>2. /\ Len(s) \in Nat /\ 1 \in 1..Len(s)+1 /\ amount \in 1-1..Len(s) /\ Len(s) \in amount..Len(s)
    BY <1>a, <2>1
  <2>3. SubSeq(s, 1, amount) \o SubSeq(s, amount + 1, Len(s)) = SubSeq(s, 1, Len(s))
    BY <2>2, ConcatAdjacentSubSeq
  <2>4. SubSeq(s, 1, Len(s)) = s
    OBVIOUS
  <2> QED BY <1>b, <1>r, <2>1, <2>3, <2>4
<1>7. Shortened(q, b)
  <2>1. PICK less : less = [pkt[q] EXCEPT !.bytes = r]
    OBVIOUS
  <2>2. less \in PacketType /\ less.id = pkt[q].id /\ less.bytes = r
    BY <1>4, <1>5, <2>1 DEF PacketType, Data
  <2>3. pkt' = [pkt EXCEPT ![q] = less]
    BY <1>q, <1>r, <2>1 DEF RecvPartial
  <2> QED BY <1>6, <2>2, <2>3 DEF Shortened, RecvPartial
<1>8. ASSUME NEW j \in Ids
      PROVE  /\ Listed(j) \in Seq(Data) /\ Listed(j)' \in Seq(Data)
             /\ Listed(j) = IF j = pkt[q].id THEN b \o Listed(j)' ELSE Listed(j)'
  <2>1. j = pkt[q].id => \A k \in 1..m : Piece(j, c[k]) = <<>>
    BY <1>0, <1>3, <1>q DEF Piece, Passed
  <2>2. q = c[m + 1] /\ ChainOf(n, c) /\ m \in 0..n-1
    BY <1>2, <1>3, <1>q
  <2> QED BY <1>5, <1>7, <2>1, <2>2, ListedShortened
<1>9. data' = data \o b
  BY <1>b, <1>q DEF RecvPartial
<1>10. data \o b \in Seq(Data)
  BY <1>5, <1>a, ConcatProperties
<1>l. PICK l \in Seq(Data) : l = Listed(i)'
  BY <1>8
<1>11. Follows(Unread(i), data \o b, l)
  <2>1. Listed(i) = b \o l
    BY <1>0, <1>8, <1>i, <1>l, <1>q
  <2>2. Unread(i) = data \o (b \o l)
    BY <1>0, <1>i, <2>1 DEF Unread
  <2>3. Associates(Data, data)
    BY <1>a, Associative
  <2>4. (data \o b) \o l = data \o (b \o l)
    BY <1>5, <2>3 DEF Associates
  <2> QED BY <2>2, <2>4 DEF Follows
<1>12. ASSUME NEW j \in Ids PROVE Unread(j)' = Listed(j)'
  <2>1. Unread(j)' = <<>> \o Listed(j)'
    BY <1>0 DEF Unread
  <2> QED BY <1>8, <2>1, ConcatEmptySeq
<1>13. ASSUME NEW j \in Ids, j # i PROVE Unread(j)' = Unread(j)
  <2>1. Unread(j) = <<>> \o Listed(j)
    BY <1>0, <1>13, <1>i DEF Unread
  <2>2. Listed(j) = Listed(j)'
    BY <1>0, <1>8, <1>13, <1>i, <1>q
  <2> QED BY <1>8, <1>12, <2>1, <2>2, ConcatEmptySeq
<1>14. Returned' = data \o b
  BY <1>0, <1>9 DEF Returned
<1>15. Unread(i)' = l
  BY <1>12, <1>l
<1> QED BY <1>10, <1>11, <1>13, <1>14, <1>15, ReadStep

LEMMA RecvEndStep ==
  ASSUME Types, ListInv, WalkInv, RecvEnd PROVE Streams!Next
PROOF
<1>0. at = "recv" /\ at' = "return" /\ id \in Ids /\ data' = data /\ data \in Seq(Data)
  BY DEF RecvEnd, WalkInv
<1>i. PICK i \in Ids : i = id
  BY <1>0
<1>1. ASSUME NEW j \in Ids PROVE Listed(j) \in Seq(Data) /\ Listed(j)' = Listed(j) /\ Unread(j)' = Listed(j)
  <2>1. Listed(j) \in Seq(Data) /\ Listed(j)' = Listed(j)
    BY ListedType, ListedSame DEF RecvEnd, listVars
  <2>2. Unread(j)' = <<>> \o Listed(j)
    BY <1>0, <2>1 DEF Unread
  <2> QED BY <2>1, <2>2, ConcatEmptySeq
<1>2. ASSUME NEW j \in Ids, j # i PROVE Unread(j)' = Unread(j)
  <2>1. Unread(j) = <<>> \o Listed(j)
    BY <1>0, <1>2, <1>i DEF Unread
  <2> QED BY <1>1, <2>1, ConcatEmptySeq
<1>3. Follows(Unread(i), data, Listed(i))
  BY <1>0, <1>i DEF Unread, Follows
<1>4. Returned' = data
  BY <1>0 DEF Returned
<1> QED BY <1>0, <1>1, <1>2, <1>3, <1>4, ReadStep

LEMMA ClearNodeStep ==
  ASSUME Types, ListInv, WalkInv, Types', ListInv', ClearNode
  PROVE  UNCHANGED Streams!vars
PROOF
<1>0. /\ at = "clear" /\ q0 # Nil /\ (pkt[q0].id = id \/ id = All) /\ Unlink
      /\ at' = at /\ id' = id /\ data' = data
  BY DEF ClearNode, Mine, walkVars
<1>1. PICK n \in Nat : \E c : ChainOf(n, c) /\ \E m \in 0..n-1 :
        p = c[m] /\ q0 = c[m + 1] /\ q0 \in live /\ Passed(n, c, m)
  BY <1>0, Standing
<1>2. PICK c : ChainOf(n, c) /\ \E m \in 0..n-1 : p = c[m] /\ q0 = c[m + 1] /\ q0 \in live /\ Passed(n, c, m)
  BY <1>1
<1>3. PICK m \in 0..n-1 : p = c[m] /\ q0 = c[m + 1] /\ q0 \in live /\ Passed(n, c, m)
  BY <1>2
<1>4. ASSUME NEW j \in Ids PROVE Unread(j)' = Unread(j)
  <2>1. CASE id \in {j, All}
    BY <1>0, <2>1 DEF Unread
  <2>2. CASE id \notin {j, All}
    <3>1. Piece(j, q0) = <<>>
      BY <1>0, <2>2 DEF Piece
    <3>2. Listed(j)' \in Seq(Data) /\ Listed(j) = <<>> \o Listed(j)'
      BY <1>0, <1>2, <1>3, <3>1, ListedUnlink
    <3>3. Listed(j) = Listed(j)'
      BY <3>2, ConcatEmptySeq
    <3> QED BY <1>0, <3>3 DEF Unread
  <2> QED BY <2>1, <2>2
<1>5. Returned' = Returned
  BY <1>0 DEF Returned
<1> QED BY <1>4, <1>5, Quiet

\* A walk that came to the end of the list left nothing for its socket.
LEMMA NothingLeft ==
  ASSUME Types, ListInv, WalkInv, at = "clear", q0 = Nil, NEW j \in Ids, id \in {j, All}
  PROVE  Listed(j) = <<>>
PROOF
<1>1. PICK n \in Nat : \E c : ChainOf(n, c) /\ \E m \in 0..n : p = c[m] /\ Passed(n, c, m)
  BY DEF WalkInv
<1>2. PICK c : ChainOf(n, c) /\ \E m \in 0..n : p = c[m] /\ Passed(n, c, m)
  BY <1>1
<1>3. PICK m \in 0..n : p = c[m] /\ Passed(n, c, m)
  BY <1>2
<1>4. m = n
  <2>1. SUFFICES ASSUME m # n PROVE FALSE
    OBVIOUS
  <2>2. m + 1 \in 1..n /\ (m + 1) - 1 = m
    BY <1>3, <2>1
  <2>3. c[m + 1] \in Nodes /\ next[c[m]] = c[m + 1]
    BY <1>2, <2>2 DEF ChainOf
  <2> QED BY <1>3, <2>3, PacketsAssumption DEF q0
<1>w. PICK w : w = Pieces(j, n, c)
  OBVIOUS
<1>5. PICK u : SumOf(Data, n, w, u) /\ Listed(j) = u[n]
  BY <1>2, <1>w, Reads DEF Readable
<1>6. Empty(n, w)
  <2>1. \A k \in 1..n : Piece(j, c[k]) = <<>>
    BY <1>3, <1>4 DEF Passed, Piece
  <2> QED BY <1>w, <2>1 DEF Empty, Pieces
<1>7. n \in 0..n
  OBVIOUS
<1> QED BY <1>5, <1>6, <1>7, SumOfNothing

\* The other steps leave the list as it is.
LEMMA UnreadWhen ==
  ASSUME Types, ListInv, NEW i \in Ids
  PROVE  /\ at \notin {"recv", "clear"} => Unread(i) = Listed(i)
         /\ at = "clear" /\ id \in {i, All} => Unread(i) = <<>>
         /\ at = "clear" /\ id \notin {i, All} => Unread(i) = Listed(i)
PROOF
<1>1. Listed(i) \in Seq(Data) /\ <<>> \in Seq(Data)
  BY ListedType
<1>2. <<>> \o Listed(i) = Listed(i) /\ <<>> \o <<>> = <<>>
  BY <1>1, ConcatEmptySeq
<1> QED BY <1>2 DEF Unread

Unreads ==
  Types /\ ListInv => \A i \in Ids :
    /\ at \notin {"recv", "clear"} => Unread(i) = Listed(i)
    /\ at = "clear" /\ id \in {i, All} => Unread(i) = <<>>
    /\ at = "clear" /\ id \notin {i, All} => Unread(i) = Listed(i)

LEMMA UnreadsAre == Unreads
BY UnreadWhen DEF Unreads

LEMMA UnreadsNext == Unreads'
BY UnreadsAre, PTL

LEMMA NextStreams ==
  ASSUME Types, ListInv, WalkInv, [Next]_vars PROVE [Streams!Next]_(Streams!vars)
PROOF
<1>0. Types' /\ ListInv' /\ WalkInv'
  BY NextTypes, NextList, NextWalk
<1> USE DEF listVars, walkVars
<1>1. ASSUME UNCHANGED <<next, pkt>> PROVE \A j \in Ids : Listed(j)' = Listed(j)
  BY <1>1, ListedSame
<1>2. ASSUME NEW i \in Ids, packet_handler(i) PROVE Streams!Next
  BY <1>0, <1>2, ArriveStep
<1>3. ASSUME NEW i \in Ids, recv(i) PROVE UNCHANGED Streams!vars
  <2>1. at = "idle" /\ at' = "recv" /\ data' = <<>> /\ UNCHANGED <<next, pkt>>
    BY <1>3 DEF recv, Walk
  <2>2. ASSUME NEW j \in Ids PROVE Unread(j)' = Unread(j)
    <3>1. Listed(j)' = Listed(j)
      BY <1>1, <2>1
    <3> QED BY <2>1, <3>1 DEF Unread
  <2>3. Returned' = Returned
    BY <2>1 DEF Returned
  <2> QED BY <2>2, <2>3, Quiet
<1>4. ASSUME NEW i \in Ids \cup {All}, clear_socket_packets(i) PROVE Streams!Next
  <2>1. at = "idle" /\ at' = "clear" /\ id' = i /\ UNCHANGED <<next, pkt>>
    BY <1>4 DEF clear_socket_packets, Walk
  <2>2. ASSUME NEW j \in Ids PROVE Unread(j)' = IF i \in {j, All} THEN <<>> ELSE Unread(j)
    <3>1. Listed(j)' = Listed(j)
      BY <1>1, <2>1
    <3>2. Unread(j) = Listed(j)
      BY <2>1, UnreadWhen
    <3> QED BY <1>0, <2>1, <3>1, <3>2, UnreadsNext DEF Unreads
  <2>3. Returned' = Returned
    BY <2>1 DEF Returned
  <2> DEFINE st == [k \in Ids |-> Unread(k)]
             su == [k \in Ids |-> Unread(k)']
  <2>4. CASE i = All
    <3>1. su = [k \in Ids |-> <<>>]
      BY <2>2, <2>4
    <3> QED BY <2>3, <3>1 DEF Streams!Next, Streams!Discard
  <2>5. CASE i \in Ids
    <3>1. su = [st EXCEPT ![i] = <<>>]
      BY <2>2, <2>5, PacketsAssumption
    <3> QED BY <2>3, <2>5, <3>1 DEF Streams!Next, Streams!Discard
  <2> QED BY <2>4, <2>5
<1>5. CASE Skip \/ UNCHANGED vars
  <2>1. UNCHANGED <<next, pkt, at, id, data>>
    BY <1>5 DEF Skip, vars
  <2>2. ASSUME NEW j \in Ids PROVE Unread(j)' = Unread(j)
    <3>1. Listed(j)' = Listed(j)
      BY <1>1, <2>1
    <3> QED BY <2>1, <3>1 DEF Unread
  <2>3. Returned' = Returned
    BY <2>1 DEF Returned
  <2> QED BY <2>2, <2>3, Quiet
<1>6. CASE RecvFull
  BY <1>0, <1>6, RecvFullStep
<1>7. CASE RecvPartial
  BY <1>0, <1>7, RecvPartialStep
<1>8. CASE RecvEnd
  BY <1>8, RecvEndStep
<1>9. CASE ClearNode
  BY <1>0, <1>9, ClearNodeStep
<1>10. CASE RecvReturn
  <2>1. at = "return" /\ at' = "idle" /\ UNCHANGED <<next, pkt>>
    BY <1>10 DEF RecvReturn, Return
  <2>2. ASSUME NEW j \in Ids PROVE Unread(j)' = Unread(j)
    <3>1. Listed(j)' = Listed(j)
      BY <1>1, <2>1
    <3> QED BY <2>1, <3>1 DEF Unread
  <2>3. Returned' = <<>>
    BY <2>1 DEF Returned
  <2> DEFINE st == [k \in Ids |-> Unread(k)]
             su == [k \in Ids |-> Unread(k)']
  <2>4. su = st
    BY <2>2
  <2> QED BY <2>3, <2>4 DEF Streams!Next, Streams!Taken
<1>11. CASE ClearReturn
  <2>1. at = "clear" /\ q0 = Nil /\ at' = "idle" /\ UNCHANGED <<next, pkt>>
    BY <1>11 DEF ClearReturn, Return
  <2>2. ASSUME NEW j \in Ids PROVE Unread(j)' = Unread(j)
    <3>1. Listed(j)' = Listed(j) /\ Unread(j)' = Listed(j)'
      BY <1>0, <1>1, <2>1, UnreadsNext DEF Unreads
    <3>2. CASE id \in {j, All}
      <4>1. Listed(j) = <<>>
        BY <2>1, <3>2, NothingLeft
      <4> QED BY <2>1, <3>1, <3>2, <4>1, UnreadWhen
    <3>3. CASE id \notin {j, All}
      BY <2>1, <3>1, <3>3, UnreadWhen
    <3> QED BY <3>2, <3>3
  <2>3. Returned' = Returned
    BY <2>1 DEF Returned
  <2> QED BY <2>2, <2>3, Quiet
<1> QED BY <1>2, <1>3, <1>4, <1>5, <1>6, <1>7, <1>8, <1>9, <1>10, <1>11 DEF Next

LEMMA InitStreams == Init => Streams!Init
PROOF
<1> SUFFICES ASSUME Init PROVE Streams!Init
  OBVIOUS
<1>1. Types /\ ListInv
  BY InitTypes, InitList
<1>2. at = "idle" /\ live = {}
  BY DEF Init
<1>3. ASSUME NEW i \in Ids PROVE Unread(i) = <<>>
  <2>1. Unread(i) = Listed(i)
    BY <1>1, <1>2, UnreadWhen
  <2>2. PICK n \in Nat : \E c : ChainOf(n, c)
    BY <1>1 DEF ListInv
  <2>3. PICK c : ChainOf(n, c)
    BY <2>2
  <2>4. n = 0
    <3>1. n # 0 => c[n] \in live
      BY <2>3 DEF ChainOf
    <3> QED BY <1>2, <3>1
  <2>5. PICK u : SumOf(Data, n, Pieces(i, n, c), u) /\ Listed(i) = u[n]
    BY <1>1, <2>3, Reads DEF Readable
  <2> QED BY <2>1, <2>4, <2>5 DEF SumOf
<1>4. Returned = <<>>
  BY <1>2 DEF Returned
<1> QED BY <1>3, <1>4 DEF Streams!Init

\* The packet list of ESP32.cpp, with its one chain of next fields for all the
\* sockets, implements a stream of bytes for each of them: whatever arrives
\* between the walks, recv() returns the first bytes of its socket that were not
\* yet returned, whole packets or the front of one, and takes nothing from
\* another socket; _clear_socket_packets() leaves nothing of its own (recv,
\* _packet_handler, _clear_socket_packets).
THEOREM ListImplementsStreams == Spec => ImplementsStreams
PROOF
<1>1. Types /\ ListInv /\ WalkInv /\ [Next]_vars => [Streams!Next]_(Streams!vars)
  BY NextStreams
<1>2. Spec => []WalkInv
  BY InitTypes, NextTypes, InitList, NextList, InitWalk, NextWalk, PTL DEF Spec
<1> QED BY <1>1, <1>2, TypesAlways, ListInvAlways, InitStreams, PTL DEF Spec, ImplementsStreams, Streams!Spec
=============================================================================
