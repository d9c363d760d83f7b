------------------------------ MODULE Packets -------------------------------
(***************************************************************************)
(* The packet list of ESP32.cpp: one linked list for all sockets, appended *)
(* to through _packets_end by _packet_handler(), walked and unlinked from  *)
(* by recv() and _clear_socket_packets().  The driver's mutex is held      *)
(* during a walk, so that nothing else happens to the list meanwhile.      *)
(***************************************************************************)
EXTENDS Integers, Sequences, FiniteSets

CONSTANTS
  Ids,         \* sockets
  All,         \* ESP32_ALL_SOCKET_IDS
  Nodes,       \* what malloc() can hand out
  MaxLen,      \* bytes in a packet
  Bytes        \* what they can be

Root == "_packets"
Nil == "NULL"
Junk == "junk"      \* memory of malloc() that nothing was read into

ASSUME PacketsAssumption ==
  /\ All \notin Ids /\ Nodes \cap {Root, Nil} = {} /\ IsFiniteSet(Nodes)
  /\ MaxLen \in Nat \ {0} /\ Junk \notin Bytes

VARIABLES
  next,     \* where each next field points; next[Root] is _packets
  end,      \* _packets_end: whose next field is the last one
  pkt,      \* the packets: id and the bytes from index on
  live,     \* nodes that malloc() gave out and free() did not get back
  at,       \* the function executing
  id, amount, p, data     \* its arguments and locals

listVars == <<next, end, pkt, live>>
walkVars == <<at, id, amount, p, data>>
vars == <<listVars, walkVars>>

Free == [id |-> All, bytes |-> <<>>]

Init ==
  /\ next = [n \in Nodes \cup {Root, Nil} |-> Nil] /\ end = Root
  /\ pkt = [n \in Nodes |-> Free] /\ live = {}
  /\ at = "idle" /\ id = All /\ amount = 0 /\ p = Root /\ data = <<>>

\* What is read of a packet of n bytes.  ATCmdParser::read() returns -1 when
\* one fails to arrive in time, which is not 0, so that the packet is kept
\* with the length it announced.
ReadBytes(n) ==
  {[k \in 1..n |-> IF k <= m THEN b[k] ELSE Junk] : b \in [1..n -> Bytes], m \in 0..n}

\* The packet is appended.  Without memory for it its bytes are skipped; an
\* empty packet is what read() returns 0 for, and is freed again.
packet_handler(i) ==
  /\ at = "idle"
  /\ \E q \in Nodes \ live : \E n \in 1..MaxLen : \E bytes \in ReadBytes(n) :
       /\ pkt' = [pkt EXCEPT ![q] = [id |-> i, bytes |-> bytes]]
       /\ next' = [next EXCEPT ![q] = Nil, ![end] = q]
       /\ end' = q
       /\ live' = live \cup {q}
  /\ UNCHANGED walkVars

Walk(function, i, max) ==
  /\ at = "idle" /\ at' = function
  /\ id' = i /\ amount' = max /\ p' = Root /\ data' = <<>>
  /\ UNCHANGED listVars

\* The function returns; its locals are gone.
Return ==
  /\ at' = "idle" /\ id' = All /\ amount' = 0 /\ p' = Root /\ data' = <<>>
  /\ UNCHANGED listVars

recv(i) == \E max \in 1..MaxLen+1 : Walk("recv", i, max)
clear_socket_packets(i) == Walk("clear", i, 0)

q0 == next[p]      \* the node the walk has come to
Mine == q0 # Nil /\ (pkt[q0].id = id \/ id = All)
Length == Len(pkt[q0].bytes)

\* Mutant: the end of the list is not moved when the last node goes.
UnlinkKeepsEnd ==
  /\ next' = [next EXCEPT ![p] = next[q0], ![q0] = Nil]
  /\ pkt' = [pkt EXCEPT ![q0] = Free]
  /\ live' = live \ {q0}
  /\ UNCHANGED end

\* Unlinks and frees the node; nothing is known about its memory afterwards.
Unlink ==
  /\ end' = IF end = q0 THEN p ELSE end
  /\ next' = [next EXCEPT ![p] = next[q0], ![q0] = Nil]
  /\ pkt' = [pkt EXCEPT ![q0] = Free]
  /\ live' = live \ {q0}

\* Another socket's packet.
Skip ==
  /\ at \in {"recv", "clear"} /\ q0 # Nil /\ ~Mine
  /\ p' = q0
  /\ UNCHANGED <<listVars, at, id, amount, data>>

\* Mutant: a packet one byte too long counts as one that fits.
RecvFullOneMore ==
  /\ at = "recv" /\ Mine /\ Length <= amount + 1
  /\ data' = data \o pkt[q0].bytes
  /\ amount' = amount - Length
  /\ Unlink
  /\ UNCHANGED <<at, id, p>>

\* A packet that fits is taken whole, and the walk goes on.
RecvFull ==
  /\ at = "recv" /\ Mine /\ Length <= amount
  /\ data' = data \o pkt[q0].bytes
  /\ amount' = amount - Length
  /\ Unlink
  /\ UNCHANGED <<at, id, p>>

\* Mutant: the bytes returned stay in the packet.
RecvPartialKeeps ==
  /\ at = "recv" /\ Mine /\ Length > amount
  /\ data' = data \o SubSeq(pkt[q0].bytes, 1, amount)
  /\ at' = "return"
  /\ UNCHANGED <<listVars, id, amount, p>>

\* The first bytes of a packet that does not fit end the walk.
RecvPartial ==
  /\ at = "recv" /\ Mine /\ Length > amount
  /\ data' = data \o SubSeq(pkt[q0].bytes, 1, amount)
  /\ pkt' = [pkt EXCEPT ![q0].bytes = SubSeq(@, amount + 1, Len(@))]
  /\ at' = "return"
  /\ UNCHANGED <<next, end, live, id, amount, p>>

\* Without any data recv() polls again or gives up; the list is as it was.
RecvEnd ==
  /\ at = "recv" /\ q0 = Nil
  /\ at' = "return"
  /\ UNCHANGED <<listVars, id, amount, p, data>>

RecvReturn == at = "return" /\ Return

ClearNode ==
  /\ at = "clear" /\ Mine
  /\ Unlink
  /\ UNCHANGED walkVars

ClearReturn == at = "clear" /\ q0 = Nil /\ Return

Next ==
  \/ \E i \in Ids : packet_handler(i) \/ recv(i) \/ clear_socket_packets(i)
  \/ clear_socket_packets(All)
  \/ Skip \/ RecvFull \/ RecvPartial \/ RecvEnd \/ RecvReturn \/ ClearNode \/ ClearReturn

Spec == Init /\ [][Next]_vars

-----------------------------------------------------------------------------

\* The k-th node of the list.
chain[k \in 0..Cardinality(Nodes)] == IF k = 0 THEN Root ELSE next[chain[k-1]]

OnList == {chain[k] : k \in 1..Cardinality(Nodes)} \ {Nil}

\* What is on the list for a socket, packet after packet.
Listed(i) ==
  LET upTo[k \in 0..Cardinality(Nodes)] ==
        IF k = 0 THEN <<>>
        ELSE upTo[k-1] \o (IF chain[k] # Nil /\ pkt[chain[k]].id = i
                           THEN pkt[chain[k]].bytes ELSE <<>>)
  IN  upTo[Cardinality(Nodes)]

TypeOK ==
  /\ next \in [Nodes \cup {Root, Nil} -> Nodes \cup {Nil}]
  /\ end \in Nodes \cup {Root}
  /\ \A n \in Nodes : pkt[n].id \in Ids \cup {All} /\ Len(pkt[n].bytes) <= MaxLen
  /\ live \subseteq Nodes
  /\ at \in {"idle", "recv", "return", "clear"}
  /\ id \in Ids \cup {All} /\ amount \in 0..MaxLen+1 /\ p \in Nodes \cup {Root}

\* _packets_end is the last next field of the list, whichever packets were
\* taken out of it: the next packet is appended where a walk finds it.
EndIsLast == next[end] = Nil /\ end \in OnList \cup {Root}

\* The list and the memory agree: no packet is lost without being freed, and
\* none is freed while the list still leads to it, or a walk stands on it.
NothingLeaksOrDangles == OnList = live /\ p \in live \cup {Root}

\* The list is intact between any two steps of the functions that change it:
\* it ends where the driver believes, and holds the packets in memory.
ListIntact == EndIsLast /\ NothingLeaksOrDangles

\* What a socket has still to read: what recv() has collected is not read
\* before it returns, and what is being cleared is gone from the start.
Unread(i) ==
  (IF at = "recv" /\ id = i THEN data ELSE <<>>)
    \o (IF at = "clear" /\ id \in {i, All} THEN <<>> ELSE Listed(i))

Returned == IF at = "return" THEN data ELSE <<>>

Streams == INSTANCE PacketStreams WITH
  Bytes <- Bytes \cup {Junk}, stream <- [i \in Ids |-> Unread(i)], result <- Returned

\* The list implements a stream of bytes for each socket: no byte is lost,
\* returned twice, out of order or to another socket.  Where bytes failed to
\* arrive, the stream has junk in their place.
ImplementsStreams == Streams!Spec
=============================================================================
