--------------------------- MODULE NotifierProofs ---------------------------
(***************************************************************************)
(* The requests and their sockets, for every number of sockets, name       *)
(* servers and questions, slow connections or not.                         *)
(*                                                                         *)
(* The hard part is what is left behind when the driver takes an OK for    *)
(* the answer to another command.  A socket that a failed lookup gives     *)
(* back while its UDP connection is still being set up would be believed   *)
(* open for ever, with nobody to close it, if it were not the very next    *)
(* one that is handed out: get_free_id() takes the lowest.                 *)
(***************************************************************************)
EXTENDS Notifier, FiniteSetTheorems, Induction

-----------------------------------------------------------------------------
\* Types, and where the request is.

Lines == [kind : LineKinds, id : Id \cup {None}]
Packet == [kind : {"IPD", "LAST"}, id : Id]
CallType == [op : {"none", "TCP", "UDP", "send", "recv", "close"}, id : Id \cup {None},
           awaits : {"none", "OK", ">", "SENDOK", "poll"}, try : 0..1]
Busy == [op : Commands \cup {"none"}, id : Id \cup {None}]

LookingUp == pc \in {"query", "disconnect", "reconnect", "question", "answer", "unlook"}

DriverTypes ==
  /\ ids \subseteq Id /\ id_bits \subseteq Id /\ id_close \subseteq Id
  /\ packets \subseteq Packet
  /\ timeout \in {PollTimeout, CommandTimeout, MiscTimeout}
  /\ timeout = PollTimeout => call.op = "recv"

ModuleTypes ==
  /\ rx \in Seq(Lines) /\ links \subseteq Id /\ busy \in Busy
  /\ busy # Idle => busy.op \in Commands /\ busy.id \in Id
  /\ \A i \in 1..Len(rx) : rx[i].id \in Id <=> rx[i].kind \in OobKinds
  /\ peer \in [Id -> {"silent", "asked", "half", "done"}]

\* The call under way is the one its point in the request makes.
CallInv ==
  /\ call \in CallType
  /\ call.op = "none" <=> call = NoCall
  /\ call # NoCall =>
       \/ pc = "connect" /\ call.op = "TCP" /\ call.id = sock
       \/ pc = "reconnect" /\ call.op = "UDP" /\ call.id = udp
       \/ pc \in {"disconnect", "unlook"} /\ call.op = "close" /\ call.id = udp
       \/ pc = "question" /\ call.op = "send" /\ call.id = udp
       \/ pc = "answer" /\ call.op = "recv" /\ call.id = udp
       \/ pc = "send" /\ call.op = "send" /\ call.id = sock
       \/ pc = "recv" /\ call.op = "recv" /\ call.id = sock
       \/ pc = "close" /\ call.op = "close" /\ call.id = sock
  /\ call.op \in {"TCP", "UDP"} => call.awaits \in {"none", "OK"} /\ call.try = 0
  /\ call.op = "send" => call.awaits \in {"none", ">", "SENDOK"}
  /\ call.op = "recv" => call.awaits \in {"none", "poll"}
  /\ call.op = "close" => call.awaits \in {"none", "OK"}

RequestTypes ==
  /\ pc \in {"idle", "lookup", "connect", "send", "recv", "close"} \/ LookingUp
  /\ IF pc = "idle" THEN sock = None ELSE sock \in Id
  /\ IF LookingUp THEN udp \in Id ELSE udp = None
  /\ lost \subseteq Id

LookupTypes ==
  /\ udpAddr \in 0..DnsServers /\ server \in 1..DnsServers+1
  /\ attempts \in 0..DnsAttempts /\ sent \in 0..DnsAttempts
  /\ attempts + sent <= DnsAttempts
  /\ pc \in {"disconnect", "reconnect", "question"} => attempts > 0
  /\ pc \in {"disconnect", "reconnect", "question", "answer"} => server <= DnsServers
  /\ pc \in {"question", "answer"} => udpAddr = server

Types == DriverTypes /\ ModuleTypes /\ CallInv /\ RequestTypes /\ LookupTypes

-----------------------------------------------------------------------------
\* Who owns which socket.

\* close() has come to its end.
Released(id, at) == pc \in at /\ call = NoCall

OwnerInv ==
  /\ OwnersDistinct
  /\ Released(udp, {"unlook"}) => udp \notin ids
  /\ Released(sock, {"close"}) => sock \notin ids
  /\ pc = "close" /\ call # NoCall => sock \in ids

-----------------------------------------------------------------------------
\* The lines on their way.

At(i, kind, id) == rx[i].kind = kind /\ rx[i].id = id
Pending(kind, id) == \E i \in 1..Len(rx) : At(i, kind, id)
Kinds(K) == \A i \in 1..Len(rx) : rx[i].kind \in K

\* Lines that nobody asked for.
Unasked == {"CLOSED", "IPD", "LAST"}

\* The module owes nothing.
Quiet == busy = Idle /\ Kinds(Unasked)

\* OK follows a connection at once.
ConnectThenOK ==
  \A i \in 1..Len(rx) : rx[i].kind = "CONNECT" => i < Len(rx) /\ rx[i + 1].kind = "OK"

\* The last line about a link says what has become of it.
EndsOpen(id) ==
  \/ id \in id_bits /\ ~Pending("CLOSED", id)
  \/ \E i \in 1..Len(rx) : At(i, "CONNECT", id) /\ \A j \in i+1..Len(rx) : ~At(j, "CLOSED", id)

EndsClosed(id) ==
  \/ id \notin id_bits /\ ~Pending("CONNECT", id)
  \/ \E i \in 1..Len(rx) : At(i, "CLOSED", id) /\ \A j \in i+1..Len(rx) : ~At(j, "CONNECT", id)

LinkInv == \A id \in Id : IF id \in links THEN EndsOpen(id) ELSE EndsClosed(id)

\* The other end has something to say on a link the driver knows of ...
PeerInv ==
  \A id \in links : peer[id] \in {"asked", "half"} => id \in id_bits /\ ~Pending("CLOSED", id)

\* ... and what it says comes before the end of the link.
PacketInv ==
  \A i \in 1..Len(rx) : rx[i].kind \in {"IPD", "LAST"} =>
     rx[i].id \in id_bits /\ \A j \in 1..i-1 : ~At(j, "CLOSED", rx[i].id)

\* What the module is busy with, and what it has said, for the call under way.
BusyInv ==
  /\ busy.op = "CIPSEND" => call.awaits = ">" /\ busy.id = call.id
  /\ busy.op = "data" => call.awaits = "SENDOK" /\ busy.id = call.id
  /\ busy.op = "CIPCLOSE" => call.awaits = "OK" /\ call.op = "close" /\ busy.id = call.id

SendInv ==
  /\ \A i \in 1..Len(rx) : rx[i].kind = ">" =>
        /\ call.awaits = ">" /\ busy = Idle
        /\ \A j \in i+1..Len(rx) : rx[j].kind \in Unasked
  /\ \A i \in 1..Len(rx) : rx[i].kind = "SENDOK" =>
        /\ call.awaits = "SENDOK" /\ busy = Idle
        /\ \A j \in 1..Len(rx) : i # j => rx[j].kind \in Unasked
  /\ call.awaits = "SENDOK" =>
        /\ busy.op \in {"none", "data"}
        /\ IF busy = Idle THEN Kinds(Unasked \cup {"SENDOK", "ERROR"}) ELSE Kinds(Unasked)

CloseInv ==
  /\ call.op = "close" /\ call.awaits = "OK" =>
        /\ call.try = 0
        /\ busy.op \in {"none", "CIPCLOSE"}
        /\ IF busy = Idle THEN Kinds(Unasked \cup {"OK", "ERROR"}) /\ call.id \notin links
                          ELSE Kinds(Unasked)
        /\ \A i, j \in 1..Len(rx) : rx[i].kind = "OK" /\ i < j => rx[j].kind \in Unasked /\ rx[j].id # call.id
        /\ \A i, j \in 1..Len(rx) : rx[i].kind = "OK" /\ i > j => rx[j].kind \in Unasked
  /\ call.op = "close" /\ call.awaits = "none" =>
        /\ call.id \in id_bits => Quiet
        /\ call.try = 1 => Quiet /\ call.id \notin id_bits

StreamInv ==
  ConnectThenOK /\ LinkInv /\ PeerInv /\ PacketInv /\ BusyInv /\ SendInv /\ CloseInv

-----------------------------------------------------------------------------
\* What each point of the request may rely on.

\* Every close of the link that is announced ends a connection.
Alternates(id) ==
  \A i \in 1..Len(rx) : At(i, "CLOSED", id) =>
     \/ id \in id_bits /\ \A j \in 1..i-1 : ~At(j, "CLOSED", id)
     \/ \E j \in 1..i-1 : At(j, "CONNECT", id) /\ \A k \in j+1..i-1 : ~At(k, "CLOSED", id)

\* The connection was refused: nothing will be sent.
Doomed ==
  /\ pc \in {"connect", "send"} /\ sock \notin links
  /\ busy.op \notin {"TCP", "UDP"}
  /\ \A i \in 1..Len(rx) : rx[i].kind # ">"
  /\ call.awaits # "SENDOK"
  /\ pc = "connect" => call.op # "TCP" \/ call.awaits = "OK"
  /\ pc = "send" /\ call = NoCall => ret # "true"

AlternateInv == \A id \in Id \ lost : Alternates(id) \/ (id = sock /\ Doomed)

\* Only the TCP connection of this request or of a lost one is slow.
SlowInv ==
  busy.op = "TCP" =>
     /\ \/ busy.id \in lost
        \/ busy.id = sock /\ pc \in {"connect", "send"} /\ (call.op = "TCP" => call.awaits = "OK")
     /\ LookingUp => udp \notin id_bits /\ ~Pending("CONNECT", udp)

\* Nothing of the socket's link is in the driver's memory.
Forgotten(id) ==
  id \notin id_bits \cup id_close /\ \A p \in packets : p.id # id

PointInv ==
  /\ pc \in {"answer", "recv"} => Quiet
  /\ pc = "query" /\ udp \in id_bits => Quiet
  /\ pc = "query" /\ udpAddr = 0 => Forgotten(udp)
  /\ pc = "question" => 
       /\ call.awaits # "none" => busy.op # "TCP"
       /\ call.op = "send" /\ call.awaits = "none" =>
            /\ udp \in id_bits \cap id_close => Quiet
            /\ call.try = 1 => Quiet
       /\ call = NoCall /\ (udp \in id_bits \/ ret = "true") => Quiet
  /\ pc = "send" /\ call = NoCall /\ ret = "true" => Quiet
  /\ pc = "close" /\ call.awaits = "none" => Quiet
  /\ pc = "reconnect" =>
       /\ udp \notin id_close
       /\ call.awaits = "OK" /\ udp \in id_bits => rx # <<>> /\ rx[1].kind = "OK"
       /\ call.op = "UDP" /\ call.awaits = "none" => udp \notin id_bits
       /\ call = NoCall /\ ret = "false" => Forgotten(udp)
  /\ pc \in {"disconnect", "unlook"} /\ call = NoCall => Forgotten(udp)
  /\ pc = "close" /\ call = NoCall => Forgotten(sock)
  /\ resolved => pc = "unlook" /\ (call.awaits = "none" => Quiet)

-----------------------------------------------------------------------------
\* The sockets nobody owns.

Untouched(id) ==
  /\ Forgotten(id) /\ id \notin links /\ busy.id # id
  /\ \A i \in 1..Len(rx) : rx[i].id # id

\* The socket a failed lookup has given back may still be connected behind the
\* driver's back.  It is the next one to be handed out.
Heir(id) ==
  /\ pc = "idle" /\ owing /\ id \notin id_bits \cup id_close
  /\ \A j \in Id \ lost : id <= j

SpareInv ==
  /\ \A id \in Id \ (lost \cup {sock, udp}) : Untouched(id) \/ Heir(id)
  /\ pc # "idle" => \A j \in Id \ lost : sock <= j
  /\ LookingUp => \A j \in Id \ (lost \cup {sock}) : udp <= j

-----------------------------------------------------------------------------
\* When the module owed nothing as open() was called.

\* The OK that open() waits for is its own.
OwnOK ==
  call.op \in {"TCP", "UDP"} /\ call.awaits = "OK" /\ ~owing =>
     /\ IF busy = Idle
        THEN \A i \in 1..Len(rx) : rx[i].kind = "OK" =>
               \/ i = 1 /\ call.id \in id_bits
               \/ i > 1 /\ At(i - 1, "CONNECT", call.id)
        ELSE busy.op = call.op /\ busy.id = call.id /\ \A i \in 1..Len(rx) : rx[i].kind # "OK"
     /\ \A i, j \in 1..Len(rx) : rx[i].kind = "OK" /\ rx[j].kind = "OK" => i = j

\* A lookup leaves nothing behind.
NothingOwed ==
  LookingUp /\ call.awaits = "none" /\ ~owing /\ udp \notin id_bits =>
     busy.id # udp /\ ~Pending("CONNECT", udp)

OwingInv == OwnOK /\ NothingOwed /\ OpenMeansOpen

NotifierInv ==
  Types /\ OwnerInv /\ StreamInv /\ AlternateInv /\ SlowInv /\ PointInv /\ SpareInv /\ OwingInv

-----------------------------------------------------------------------------
\* Names of the parts of a step.

\* What only the driver and the module change.
DriverAndModule == <<id_bits, id_close, packets, timeout, rx, links, busy, peer>>

\* A call is begun at the given point.
Begins(op, id, at) ==
  call' = [op |-> op, id |-> id, awaits |-> "none", try |-> 0] /\ pc' = at /\ ret' = "none"

LEMMA ClientLeaves ==
  ASSUME Client PROVE UNCHANGED <<DriverAndModule, owing>>
PROOF
<1> USE DEF DriverAndModule, outside, driverVars, moduleVars
<1>1. CASE OpenRefused \/ Open \/ LookupCached \/ LookupRefused \/ Lookup \/ QueryAnotherRound
  BY <1>1 DEF Client, OpenRefused, Open, LookupCached, LookupRefused, Lookup, QueryAnotherRound
<1>2. CASE QueryGivesUp \/ Query \/ QueryDisconnected \/ QueryConnected \/ QueryNotSent \/ QuerySent
  BY <1>2 DEF Client, QueryGivesUp, Query, QueryDisconnected, QueryConnected, QueryNotSent, QuerySent
<1>3. CASE QueryReplied \/ QueryClosed \/ QueryWaits \/ QueryTimedOut \/ LookupDone \/ Connected
  BY <1>3 DEF Client, QueryReplied, QueryClosed, QueryWaits, QueryTimedOut, LookupDone, Connected
<1>4. CASE Sent \/ Received \/ Waits \/ RequestFails \/ RequestSucceeds
  BY <1>4 DEF Client, Sent, Received, Waits, RequestFails, RequestSucceeds
<1> QED BY <1>1, <1>2, <1>3, <1>4 DEF Client

\* What a step of the module or of another end leaves alone.
LEMMA ModuleLeaves ==
  ASSUME Module \/ PeerAnswers \/ PeerHangsUp
  PROVE  UNCHANGED <<ids, id_bits, id_close, packets, timeout, call, ret, pc, sock, udp, udpAddr,
                     server, attempts, sent, resolved, lost, owing>>
BY DEF Module, PeerAnswers, PeerHangsUp, driverVars, callVars, requestVars, dnsVars

LEMMA CallingLeaves ==
  ASSUME Calling
  PROVE  UNCHANGED <<pc, sock, udp, udpAddr, server, attempts, sent, resolved, lost>>
BY DEF Calling, requestVars, dnsVars

LEMMA UnchangedLeaves ==
  ASSUME UNCHANGED vars
  PROVE  UNCHANGED <<ids, DriverAndModule, call, ret, pc, sock, udp, udpAddr,
                     server, attempts, sent, resolved, lost, owing>>
BY DEF vars, driverVars, callVars, moduleVars, requestVars, dnsVars, DriverAndModule

-----------------------------------------------------------------------------
\* get_free_id() hands out the lowest of the free sockets.

LEMMA LowestIsLeast ==
  ASSUME NEW S, S \subseteq Id, S # {}
  PROVE  Lowest(S) \in S /\ \A j \in S : Lowest(S) <= j
PROOF
<1>1. S \subseteq Nat
  BY Esp32Assumption DEF Id
<1>2. \E i \in S : \A j \in S : i <= j
  BY <1>1, LeastNat
<1> QED BY <1>2, Zenon DEF Lowest

LEMMA FreeIds == get_free_id \subseteq Id
BY DEF get_free_id

-----------------------------------------------------------------------------
\* Types.

LEMMA NoCallFacts == NoCall \in CallType /\ NoCall.op = "none" /\ NoCall.awaits = "none" /\ NoCall.id = None
BY DEF NoCall, CallType

\* The program calls the driver when the last call has returned.
LEMMA ClientCalls ==
  ASSUME CallInv, Client PROVE call = NoCall
PROOF
<1>1. pc \in {"idle", "lookup", "query"} => call = NoCall
  BY DEF CallInv
<1>2. CASE OpenRefused \/ Open \/ LookupCached \/ LookupRefused \/ Lookup \/ QueryAnotherRound
  BY <1>1, <1>2 DEF OpenRefused, Open, LookupCached, LookupRefused, Lookup, QueryAnotherRound
<1>3. CASE QueryGivesUp \/ Query \/ QueryDisconnected \/ QueryConnected \/ QueryNotSent \/ QuerySent
  BY <1>1, <1>3 DEF QueryGivesUp, Query, QueryDisconnected, QueryConnected, QueryNotSent, QuerySent,
                    Returned
<1>4. CASE QueryReplied \/ QueryClosed \/ QueryWaits \/ QueryTimedOut \/ LookupDone \/ Connected
  BY <1>4 DEF QueryReplied, QueryClosed, QueryWaits, QueryTimedOut, LookupDone, Connected, Returned
<1>5. CASE Sent \/ Received \/ Waits \/ RequestFails \/ RequestSucceeds
  BY <1>5 DEF Sent, Received, Waits, RequestFails, RequestSucceeds, Returned
<1> QED BY <1>2, <1>3, <1>4, <1>5 DEF Client

\* Where the program goes on after a step, and whom it calls.
Goes ==
  \/ call' = NoCall /\ pc' \in {"idle", "lookup", "query"}
  \/ Begins("TCP", sock, "connect")
  \/ Begins("UDP", udp, "reconnect")
  \/ Begins("close", udp, "disconnect") \/ Begins("close", udp, "unlook")
  \/ Begins("send", udp, "question")
  \/ Begins("recv", udp, "answer")
  \/ Begins("send", sock, "send")
  \/ Begins("recv", sock, "recv")
  \/ Begins("close", sock, "close")

LEMMA ClientGoes ==
  ASSUME CallInv, Client
  PROVE  Goes /\ (call' # NoCall => sock' = sock /\ (pc' # "connect" => udp' = udp))
PROOF
<1>0. call = NoCall
  BY ClientCalls
<1> USE <1>0 DEF Goes, Begins, Calls, Start, callVars, dnsVars, requestVars, Fail
<1>1. CASE OpenRefused \/ Open \/ LookupCached \/ LookupRefused \/ Lookup \/ QueryAnotherRound
  BY <1>1 DEF OpenRefused, Open, LookupCached, LookupRefused, Lookup, QueryAnotherRound
<1>2. CASE QueryGivesUp \/ Query \/ QueryDisconnected \/ QueryConnected \/ QueryNotSent \/ QuerySent
  BY <1>2 DEF QueryGivesUp, Query, QueryDisconnected, QueryConnected, QueryNotSent, QuerySent
<1>3. CASE QueryReplied \/ QueryClosed \/ QueryWaits \/ QueryTimedOut \/ LookupDone \/ Connected
  BY <1>3 DEF QueryReplied, QueryClosed, QueryWaits, QueryTimedOut, LookupDone, Connected
<1>4. CASE Sent \/ Received \/ Waits \/ RequestFails \/ RequestSucceeds
  BY <1>4 DEF Sent, Received, Waits, RequestFails, RequestSucceeds
<1> QED BY <1>1, <1>2, <1>3, <1>4 DEF Client

LEMMA ClientRequestTypes ==
  ASSUME Types, Client PROVE RequestTypes'
PROOF
<1>0. RequestTypes /\ (get_free_id # {} => Lowest(get_free_id) \in Id)
  BY LowestIsLeast, FreeIds DEF Types
<1> USE <1>0, Esp32Assumption
    DEF RequestTypes, LookingUp, Calls, Start, dnsVars, requestVars, Fail, Returned
<1>1. CASE OpenRefused \/ Open \/ LookupCached \/ LookupRefused \/ Lookup \/ QueryAnotherRound
  BY <1>1 DEF OpenRefused, Open, LookupCached, LookupRefused, Lookup, QueryAnotherRound
<1>2. CASE QueryGivesUp \/ Query \/ QueryDisconnected \/ QueryConnected \/ QueryNotSent \/ QuerySent
  BY <1>2 DEF QueryGivesUp, Query, QueryDisconnected, QueryConnected, QueryNotSent, QuerySent
<1>3. CASE QueryReplied \/ QueryClosed \/ QueryWaits \/ QueryTimedOut \/ LookupDone \/ Connected
  BY <1>3 DEF QueryReplied, QueryClosed, QueryWaits, QueryTimedOut, LookupDone, Connected
<1>4. CASE Sent \/ Received \/ Waits \/ RequestFails \/ RequestSucceeds
  BY <1>4 DEF Sent, Received, Waits, RequestFails, RequestSucceeds
<1> QED BY <1>1, <1>2, <1>3, <1>4 DEF Client

LEMMA ClientLookupTypes ==
  ASSUME Types, Client PROVE LookupTypes'
PROOF
<1>0. LookupTypes
  BY DEF Types
<1> USE <1>0, DnsAssumption
    DEF LookupTypes, Calls, Start, dnsVars, requestVars, Fail, Returned
<1>1. CASE OpenRefused \/ Open \/ LookupCached \/ LookupRefused \/ Lookup \/ QueryAnotherRound
  BY <1>1 DEF OpenRefused, Open, LookupCached, LookupRefused, Lookup, QueryAnotherRound
<1>2. CASE QueryGivesUp \/ Query
  BY <1>2 DEF QueryGivesUp, Query
<1>3. CASE QueryDisconnected \/ QueryConnected \/ QueryNotSent
  BY <1>3 DEF QueryDisconnected, QueryConnected, QueryNotSent
<1>4. CASE QuerySent
  BY <1>4 DEF QuerySent
<1>5. CASE QueryReplied \/ QueryClosed \/ QueryWaits \/ QueryTimedOut \/ LookupDone \/ Connected
  BY <1>5 DEF QueryReplied, QueryClosed, QueryWaits, QueryTimedOut, LookupDone, Connected
<1>6. CASE Sent \/ Received \/ Waits \/ RequestFails \/ RequestSucceeds
  BY <1>6 DEF Sent, Received, Waits, RequestFails, RequestSucceeds
<1> QED BY <1>1, <1>2, <1>3, <1>4, <1>5, <1>6 DEF Client

LEMMA ClientCallInv ==
  ASSUME Types, Client PROVE CallInv'
PROOF
<1>1. CallInv /\ RequestTypes /\ RequestTypes'
  BY ClientRequestTypes DEF Types
<1>2. Goes /\ (call' # NoCall => sock' = sock /\ (pc' # "connect" => udp' = udp))
  BY <1>1, ClientGoes
<1>3. CASE call' = NoCall
  BY <1>3, NoCallFacts DEF CallInv
<1>4. CASE call' # NoCall
  <2>1. sock' = sock /\ (pc' # "connect" => udp' = udp)
    BY <1>2, <1>4
  <2>2. sock' \in Id \cup {None} /\ udp' \in Id \cup {None}
    BY <1>1 DEF RequestTypes
  <2>3. \E op \in {"TCP", "UDP", "send", "recv", "close"} : \E id \in {sock', udp'} :
           call' = [op |-> op, id |-> id, awaits |-> "none", try |-> 0]
    BY <1>2, <1>4, <2>1 DEF Goes, Begins
  <2>4. call' \in CallType /\ call'.op # "none" /\ call'.awaits = "none" /\ call'.try = 0
    BY <2>2, <2>3 DEF CallType
  <2>5. \/ pc' = "connect" /\ call'.op = "TCP" /\ call'.id = sock'
        \/ pc' = "reconnect" /\ call'.op = "UDP" /\ call'.id = udp'
        \/ pc' \in {"disconnect", "unlook"} /\ call'.op = "close" /\ call'.id = udp'
        \/ pc' = "question" /\ call'.op = "send" /\ call'.id = udp'
        \/ pc' = "answer" /\ call'.op = "recv" /\ call'.id = udp'
        \/ pc' = "send" /\ call'.op = "send" /\ call'.id = sock'
        \/ pc' = "recv" /\ call'.op = "recv" /\ call'.id = sock'
        \/ pc' = "close" /\ call'.op = "close" /\ call'.id = sock'
    BY <1>2, <1>4, <2>1 DEF Goes, Begins
  <2> QED BY <1>4, <2>4, <2>5 DEF CallInv
<1> QED BY <1>3, <1>4

LEMMA ClientDriverTypes ==
  ASSUME Types, Client PROVE DriverTypes' /\ ModuleTypes'
PROOF
<1>1. DriverTypes /\ ModuleTypes /\ call = NoCall /\ call.op = "none"
  BY ClientCalls, NoCallFacts DEF Types
<1>2. UNCHANGED <<id_bits, id_close, packets, timeout, rx, links, busy, peer>>
  BY ClientLeaves DEF DriverAndModule
<1>3. timeout # PollTimeout
  BY <1>1 DEF DriverTypes
<1>4. get_free_id # {} => Lowest(get_free_id) \in Id
  BY LowestIsLeast, FreeIds
<1>5. ids' \subseteq Id
  <2> USE <1>1, <1>4 DEF DriverTypes, outside, driverVars
  <2>1. CASE OpenRefused \/ Open \/ LookupCached \/ LookupRefused \/ Lookup \/ QueryAnotherRound
    BY <2>1 DEF OpenRefused, Open, LookupCached, LookupRefused, Lookup, QueryAnotherRound
  <2>2. CASE QueryGivesUp \/ Query \/ QueryDisconnected \/ QueryConnected \/ QueryNotSent \/ QuerySent
    BY <2>2 DEF QueryGivesUp, Query, QueryDisconnected, QueryConnected, QueryNotSent, QuerySent
  <2>3. CASE QueryReplied \/ QueryClosed \/ QueryWaits \/ QueryTimedOut \/ LookupDone \/ Connected
    BY <2>3 DEF QueryReplied, QueryClosed, QueryWaits, QueryTimedOut, LookupDone, Connected
  <2>4. CASE Sent \/ Received \/ Waits \/ RequestFails \/ RequestSucceeds
    BY <2>4 DEF Sent, Received, Waits, RequestFails, RequestSucceeds
  <2> QED BY <2>1, <2>2, <2>3, <2>4 DEF Client
<1>6. DriverTypes'
  BY <1>1, <1>2, <1>3, <1>5 DEF DriverTypes
<1>7. ModuleTypes'
  BY <1>1, <1>2 DEF ModuleTypes
<1> QED BY <1>6, <1>7

-----------------------------------------------------------------------------
\* The lines the module adds and the driver reads, one by one.

Adds(kind, id) ==
  /\ Len(rx') = Len(rx) + 1
  /\ \A i \in 1..Len(rx) : rx'[i] = rx[i]
  /\ rx'[Len(rx) + 1].kind = kind /\ rx'[Len(rx) + 1].id = id

AddsTwo(kind, id, kind2, id2) ==
  /\ Len(rx') = Len(rx) + 2
  /\ \A i \in 1..Len(rx) : rx'[i] = rx[i]
  /\ rx'[Len(rx) + 1].kind = kind /\ rx'[Len(rx) + 1].id = id
  /\ rx'[Len(rx) + 2].kind = kind2 /\ rx'[Len(rx) + 2].id = id2

Reads ==
  /\ Len(rx) >= 1 /\ Len(rx') = Len(rx) - 1
  /\ \A i \in 1..Len(rx') : rx'[i] = rx[i + 1]

LEMMA SayOne ==
  ASSUME rx \in Seq(Lines), NEW kind \in LineKinds, NEW id \in Id \cup {None},
         Say(<<Line(kind, id)>>)
  PROVE  rx' \in Seq(Lines) /\ Adds(kind, id)
PROOF
<1> DEFINE a == [kind |-> kind, id |-> id]
<1>1. a \in Lines /\ a.kind = kind /\ a.id = id
  BY DEF Lines
<1>2. rx' = rx \o <<a>> /\ Len(rx) \in Nat
  BY DEF Say, Line
<1> HIDE DEF a
<1>3. <<a>> \in Seq(Lines) /\ Len(<<a>>) = 1
  BY <1>1
<1>4. /\ rx' \in Seq(Lines) /\ Len(rx') = Len(rx) + 1
      /\ \A i \in 1..Len(rx) : rx'[i] = rx[i]
      /\ rx'[Len(rx) + 1] = a
  BY <1>2, <1>3
<1> QED BY <1>1, <1>4 DEF Adds

LEMMA SayTwo ==
  ASSUME rx \in Seq(Lines), NEW kind \in LineKinds, NEW id \in Id \cup {None},
         NEW kind2 \in LineKinds, NEW id2 \in Id \cup {None},
         rx' = rx \o <<Line(kind, id), Line(kind2, id2)>>
  PROVE  rx' \in Seq(Lines) /\ AddsTwo(kind, id, kind2, id2)
PROOF
<1> DEFINE a == [kind |-> kind, id |-> id]
           b == [kind |-> kind2, id |-> id2]
<1>1. a \in Lines /\ a.kind = kind /\ a.id = id /\ b \in Lines /\ b.kind = kind2 /\ b.id = id2
  BY DEF Lines
<1>2. rx' = rx \o <<a, b>> /\ Len(rx) \in Nat
  BY DEF Line
<1> HIDE DEF a, b
<1>3. <<a, b>> \in Seq(Lines) /\ Len(<<a, b>>) = 2
  BY <1>1
<1>4. /\ rx' \in Seq(Lines) /\ Len(rx') = Len(rx) + 2
      /\ \A i \in 1..Len(rx) : rx'[i] = rx[i]
      /\ rx'[Len(rx) + 1] = a /\ rx'[Len(rx) + 2] = b
  BY <1>2, <1>3
<1> QED BY <1>1, <1>4 DEF AddsTwo

LEMMA PairOfLines ==
  ASSUME NEW a, NEW b PROVE <<a>> \o <<b>> = <<a, b>>
PROOF
<1> DEFINE S == {a, b}
           s == <<a>> \o <<b>>
           t == <<a, b>>
<1>1. <<a>> \in Seq(S) /\ <<b>> \in Seq(S) /\ Len(<<a>>) = 1 /\ Len(<<b>>) = 1 /\ t \in Seq(S)
  OBVIOUS
<1>2. s \in Seq(S) /\ Len(s) = 2 /\ Len(t) = 2
  BY <1>1
<1>3. s[1] = a /\ s[2] = b /\ t[1] = a /\ t[2] = b
  BY <1>1
<1> HIDE DEF s, t
<1>4. s = t
  BY <1>1, <1>2, <1>3
<1> QED BY <1>4 DEF s, t

LEMMA ReadOne ==
  ASSUME rx \in Seq(Lines), rx # <<>>, rx' = Tail(rx)
  PROVE  rx' \in Seq(Lines) /\ Reads /\ Head(rx) = rx[1] /\ rx[1] \in Lines
BY DEF Reads

-----------------------------------------------------------------------------
\* What the module and the other ends do.

Refused ==
  /\ busy # Idle /\ busy.op \in Commands /\ busy.id \in Id
  /\ busy.op \in {"CIPSEND", "data", "CIPCLOSE"} => busy.id \notin links
  /\ \/ Adds("ERROR", None)
     \/ busy.op = "TCP" /\ busy.id \notin links /\ AddsTwo("ERROR", None, "CLOSED", busy.id)
  /\ busy' = Idle /\ UNCHANGED <<links, peer>>

Opened ==
  /\ busy # Idle /\ busy.op \in {"TCP", "UDP"} /\ busy.id \in Id /\ busy.id \notin links
  /\ AddsTwo("CONNECT", busy.id, "OK", None)
  /\ links' = links \cup {busy.id} /\ peer' = [peer EXCEPT ![busy.id] = "silent"]
  /\ busy' = Idle

Prompted ==
  /\ busy # Idle /\ busy.op = "CIPSEND" /\ busy.id \in Id /\ busy.id \in links
  /\ AddsTwo("OK", None, ">", None)
  /\ busy' = Idle /\ UNCHANGED <<links, peer>>

Taken ==
  /\ busy # Idle /\ busy.op = "data" /\ busy.id \in Id /\ busy.id \in links
  /\ Adds("SENDOK", None)
  /\ peer' = [peer EXCEPT ![busy.id] = "asked"]
  /\ busy' = Idle /\ UNCHANGED links

Disconnected ==
  /\ busy # Idle /\ busy.op = "CIPCLOSE" /\ busy.id \in Id /\ busy.id \in links
  /\ AddsTwo("CLOSED", busy.id, "OK", None)
  /\ links' = links \ {busy.id}
  /\ busy' = Idle /\ UNCHANGED peer

PeerSaid(id, kind) ==
  /\ id \in links /\ kind \in {"IPD", "LAST"} /\ peer[id] \in {"asked", "half"}
  /\ Adds(kind, id)
  /\ peer' = [peer EXCEPT ![id] = IF kind = "IPD" THEN "half" ELSE "done"]
  /\ UNCHANGED <<links, busy>>

PeerLeft(id) ==
  /\ id \in links
  /\ Adds("CLOSED", id)
  /\ links' = links \ {id}
  /\ UNCHANGED <<busy, peer>>

ModuleDoes ==
  \/ Refused \/ Opened \/ Prompted \/ Taken \/ Disconnected
  \/ \E id \in Id : PeerLeft(id) \/ \E kind \in {"IPD", "LAST"} : PeerSaid(id, kind)

LEMMA ModuleStep ==
  ASSUME ModuleTypes, Module \/ PeerAnswers \/ PeerHangsUp
  PROVE  ModuleDoes /\ rx' \in Seq(Lines)
PROOF
<1>1. rx \in Seq(Lines) /\ links \subseteq Id /\ busy \in Busy /\ Idle.op = "none"
      /\ (busy # Idle => busy.id \in Id) /\ None \in Id \cup {None}
  BY DEF ModuleTypes, Idle, Command
<1>2. /\ "ERROR" \in LineKinds /\ "OK" \in LineKinds /\ ">" \in LineKinds /\ "SENDOK" \in LineKinds
      /\ "CONNECT" \in LineKinds /\ "CLOSED" \in LineKinds /\ "IPD" \in LineKinds
      /\ "LAST" \in LineKinds
  BY DEF LineKinds, OobKinds
<1>3. busy.op \in Commands => busy # Idle /\ busy.id \in Id
  BY <1>1 DEF Commands
<1>4. CASE Refuse
  <2>1. /\ busy # Idle /\ busy.op \in Commands /\ busy.id \in Id
        /\ busy.op \in {"CIPSEND", "data", "CIPCLOSE"} => busy.id \notin links
        /\ busy' = Idle /\ UNCHANGED <<links, peer>>
    BY <1>3, <1>4 DEF Refuse
  <2>2. CASE busy.op = "TCP" /\ busy.id \notin links
    <3>1. Say(<<Line("ERROR", None)>> \o <<Line("CLOSED", busy.id)>>)
      BY <1>4, <2>2 DEF Refuse
    <3>2. <<Line("ERROR", None)>> \o <<Line("CLOSED", busy.id)>>
            = <<Line("ERROR", None), Line("CLOSED", busy.id)>>
      BY PairOfLines
    <3>3. rx' = rx \o <<Line("ERROR", None), Line("CLOSED", busy.id)>>
      BY <3>1, <3>2 DEF Say
    <3>4. rx' \in Seq(Lines) /\ AddsTwo("ERROR", None, "CLOSED", busy.id)
      BY <1>1, <1>2, <2>1, <3>3, SayTwo
    <3> QED BY <2>1, <2>2, <3>4 DEF ModuleDoes, Refused
  <2>3. CASE ~(busy.op = "TCP" /\ busy.id \notin links)
    <3>1. Say(<<Line("ERROR", None)>> \o <<>>)
      BY <1>4, <2>3 DEF Refuse
    <3>2. Say(<<Line("ERROR", None)>>)
      BY <3>1 DEF Say
    <3>3. rx' \in Seq(Lines) /\ Adds("ERROR", None)
      BY <1>1, <1>2, <3>2, SayOne
    <3> QED BY <2>1, <3>3 DEF ModuleDoes, Refused
  <2> QED BY <2>2, <2>3
<1>5. CASE Connect
  <2>1. busy # Idle /\ busy.id \in Id
    BY <1>3, <1>5 DEF Connect, Commands
  <2>2. rx' \in Seq(Lines) /\ AddsTwo("CONNECT", busy.id, "OK", None)
    BY <1>1, <1>2, <1>5, <2>1, SayTwo DEF Connect, Say
  <2> QED BY <1>5, <2>1, <2>2 DEF ModuleDoes, Opened, Connect
<1>6. CASE AskForData
  <2>1. busy # Idle /\ busy.id \in Id
    BY <1>3, <1>6 DEF AskForData, Commands
  <2>2. rx' \in Seq(Lines) /\ AddsTwo("OK", None, ">", None)
    BY <1>1, <1>2, <1>6, SayTwo DEF AskForData, Say
  <2> QED BY <1>6, <2>1, <2>2 DEF ModuleDoes, Prompted, AskForData
<1>7. CASE TakeData
  <2>1. busy # Idle /\ busy.id \in Id
    BY <1>3, <1>7 DEF TakeData, Commands
  <2>2. rx' \in Seq(Lines) /\ Adds("SENDOK", None)
    BY <1>1, <1>2, <1>7, SayOne DEF TakeData
  <2> QED BY <1>7, <2>1, <2>2 DEF ModuleDoes, Taken, TakeData
<1>8. CASE Disconnect
  <2>1. busy # Idle /\ busy.id \in Id
    BY <1>3, <1>8 DEF Disconnect, Commands
  <2>2. rx' \in Seq(Lines) /\ AddsTwo("CLOSED", busy.id, "OK", None)
    BY <1>1, <1>2, <1>8, <2>1, SayTwo DEF Disconnect, Say
  <2> QED BY <1>8, <2>1, <2>2 DEF ModuleDoes, Disconnected, Disconnect
<1>9. ASSUME NEW id \in Id, PeerSends(id) PROVE ModuleDoes /\ rx' \in Seq(Lines)
  <2>1. CASE /\ peer[id] = "asked" /\ peer' = [peer EXCEPT ![id] = "half"]
             /\ Say(<<Line("IPD", id)>>)
    <3>1. rx' \in Seq(Lines) /\ Adds("IPD", id)
      BY <1>1, <1>2, <2>1, SayOne
    <3>2. PeerSaid(id, "IPD")
      BY <1>9, <2>1, <3>1 DEF PeerSends, PeerSaid
    <3> QED BY <3>1, <3>2 DEF ModuleDoes
  <2>2. CASE /\ peer[id] \in {"asked", "half"} /\ peer' = [peer EXCEPT ![id] = "done"]
             /\ Say(<<Line("LAST", id)>>)
    <3>1. rx' \in Seq(Lines) /\ Adds("LAST", id)
      BY <1>1, <1>2, <2>2, SayOne
    <3>2. PeerSaid(id, "LAST")
      BY <1>9, <2>2, <3>1 DEF PeerSends, PeerSaid
    <3> QED BY <3>1, <3>2 DEF ModuleDoes
  <2> QED BY <1>9, <2>1, <2>2 DEF PeerSends
<1>10. ASSUME NEW id \in Id, PeerCloses(id) PROVE ModuleDoes /\ rx' \in Seq(Lines)
  <2>1. rx' \in Seq(Lines) /\ Adds("CLOSED", id)
    BY <1>1, <1>2, <1>10, SayOne DEF PeerCloses
  <2> QED BY <1>10, <2>1 DEF ModuleDoes, PeerLeft, PeerCloses
<1> QED BY <1>4, <1>5, <1>6, <1>7, <1>8, <1>9, <1>10 DEF Module, Answers, PeerAnswers, PeerHangsUp

LEMMA IdleFacts == Idle \in Busy /\ Idle.op = "none" /\ Idle.id = None
BY DEF Idle, Command, Busy

LEMMA NoneIsNoId == None \notin Id
BY Esp32Assumption DEF None, Id

LEMMA ModuleStepTypes ==
  ASSUME Types, Module \/ PeerAnswers \/ PeerHangsUp PROVE Types'
PROOF
<1>1. UNCHANGED <<ids, id_bits, id_close, packets, timeout, call, ret, pc, sock, udp, udpAddr,
                  server, attempts, sent, resolved, lost, owing>>
  BY ModuleLeaves
<1>2. DriverTypes' /\ CallInv' /\ RequestTypes' /\ LookupTypes'
  BY <1>1 DEF Types, DriverTypes, CallInv, RequestTypes, LookingUp, LookupTypes
<1>3. ModuleDoes /\ rx' \in Seq(Lines) /\ ModuleTypes
  BY ModuleStep DEF Types
<1>4. ModuleTypes'
  <2> USE <1>3, IdleFacts, NoneIsNoId DEF ModuleTypes, OobKinds
  <2>1. CASE Refused
    BY <2>1 DEF Refused, Adds, AddsTwo
  <2>2. CASE Opened
    <3>1. peer' \in [Id -> {"silent", "asked", "half", "done"}]
      BY <2>2 DEF Opened
    <3>2. links' \subseteq Id /\ busy' = Idle
      BY <2>2 DEF Opened
    <3>3. \A i \in 1..Len(rx') : rx'[i].id \in Id <=> rx'[i].kind \in OobKinds
      BY <2>2 DEF Opened, AddsTwo
    <3> QED BY <3>1, <3>2, <3>3
  <2>3. CASE Prompted
    BY <2>3 DEF Prompted, AddsTwo
  <2>4. CASE Taken
    BY <2>4 DEF Taken, Adds
  <2>5. CASE Disconnected
    <3>1. links' \subseteq Id /\ busy' = Idle /\ peer' = peer
      BY <2>5 DEF Disconnected
    <3>2. AddsTwo("CLOSED", busy.id, "OK", None) /\ busy.id \in Id /\ Len(rx) \in Nat
      BY <2>5 DEF Disconnected
    <3>3. ASSUME NEW i \in 1..Len(rx') PROVE rx'[i].id \in Id <=> rx'[i].kind \in OobKinds
      <4>1. i \in 1..Len(rx) \/ i = Len(rx) + 1 \/ i = Len(rx) + 2
        BY <3>2 DEF AddsTwo
      <4> QED BY <3>2, <4>1 DEF AddsTwo
    <3> QED BY <3>1, <3>3
  <2>6. ASSUME NEW id \in Id, NEW kind \in {"IPD", "LAST"}, PeerSaid(id, kind) PROVE ModuleTypes'
    BY <2>6 DEF PeerSaid, Adds
  <2>7. ASSUME NEW id \in Id, PeerLeft(id) PROVE ModuleTypes'
    BY <2>7 DEF PeerLeft, Adds
  <2> QED BY <2>1, <2>2, <2>3, <2>4, <2>5, <2>6, <2>7 DEF ModuleDoes
<1> QED BY <1>2, <1>4 DEF Types

-----------------------------------------------------------------------------
\* What the driver does.

\* The call goes on.
GoesOn(awaits, try) ==
  /\ call' \in CallType /\ call' # NoCall
  /\ call'.op = call.op /\ call'.id = call.id /\ call'.awaits = awaits /\ call'.try = try

LEMMA AwaitGoesOn ==
  ASSUME CallInv, call.op # "none", NEW kind \in {"OK", ">", "SENDOK", "poll"}, Await(kind)
  PROVE  GoesOn(kind, call.try) /\ ret' = ret
PROOF
<1>1. call \in CallType /\ call' = [call EXCEPT !.awaits = kind]
  BY DEF CallInv, Await
<1>2. /\ call' \in CallType /\ call'.op = call.op /\ call'.id = call.id /\ call'.awaits = kind
      /\ call'.try = call.try
  BY <1>1 DEF CallType
<1>3. call' # NoCall
  BY <1>2, NoCallFacts
<1> QED BY <1>2, <1>3 DEF GoesOn, Await

LEMMA RetryGoesOn ==
  ASSUME CallInv, call.op # "none", call' = [call EXCEPT !.awaits = "none", !.try = 1]
  PROVE  GoesOn("none", 1)
PROOF
<1>1. call \in CallType
  BY DEF CallInv
<1> DEFINE waits == [call EXCEPT !.awaits = "none"]
<1>2. /\ waits \in CallType /\ waits.op = call.op /\ waits.id = call.id /\ waits.awaits = "none"
  BY <1>1 DEF CallType
<1>3. call' = [waits EXCEPT !.try = 1]
  OBVIOUS
<1> HIDE DEF waits
<1>4. /\ call' \in CallType /\ call'.op = call.op /\ call'.id = call.id /\ call'.awaits = "none"
      /\ call'.try = 1
  BY <1>2, <1>3 DEF CallType
<1>5. call' # NoCall
  BY <1>4, NoCallFacts
<1> QED BY <1>4, <1>5 DEF GoesOn

\* A command is carried out, or is not because the module is busy.
Orders(op, id) ==
  IF busy = Idle THEN busy' \in Busy /\ busy' # Idle /\ busy'.op = op /\ busy'.id = id ELSE busy' = busy

LEMMA SendOrders ==
  ASSUME ModuleTypes, NEW op \in Commands, NEW id \in Id, SendCommand(op, id)
  PROVE  Orders(op, id)
PROOF
<1> DEFINE c == Command(op, id)
<1>1. c \in Busy /\ c.op = op /\ c.id = id
  BY DEF Command, Busy
<1>2. c # Idle
  BY <1>1, IdleFacts DEF Commands
<1> QED BY <1>1, <1>2 DEF SendCommand, Orders

\* The steps of the driver.  What they read and say of the call:
DParse ==
  /\ call.awaits # "none" /\ rx[1].kind # call.awaits /\ Reads
  /\ id_bits' = IF rx[1].kind = "CONNECT" THEN id_bits \cup {rx[1].id}
                ELSE IF rx[1].kind = "CLOSED" THEN id_bits \ {rx[1].id} ELSE id_bits
  /\ id_close' = IF rx[1].kind = "CLOSED" THEN id_close \cup {rx[1].id} ELSE id_close
  /\ IF rx[1].kind \in {"IPD", "LAST"}
     THEN packets' = packets \cup {rx[1]} /\ timeout' = CommandTimeout
     ELSE UNCHANGED <<packets, timeout>>
  /\ UNCHANGED <<ids, call, ret, links, busy, peer>>

DOpenEnter ==
  /\ call.op \in {"TCP", "UDP"} /\ call.awaits = "none" /\ GoesOn("OK", call.try)
  /\ Orders(call.op, call.id)
  /\ timeout' = CommandTimeout
  /\ UNCHANGED <<ids, id_bits, id_close, packets, ret, rx, links, peer>>

DOpenReturn(result) ==
  /\ call.op \in {"TCP", "UDP"} /\ call.awaits = "OK" /\ call' = NoCall /\ ret' = result
  /\ timeout' = MiscTimeout /\ packets' = clear_socket_packets(call.id)
  /\ UNCHANGED <<ids, id_bits, id_close, links, busy, peer>>

DOpenMatched == DOpenReturn("true") /\ rx[1].kind = "OK" /\ Reads
DOpenTimedOut == DOpenReturn("false") /\ rx = <<>> /\ (busy = Idle \/ busy.op = "TCP") /\ UNCHANGED rx

DSendEnter ==
  /\ call.op = "send" /\ call.awaits = "none"
  /\ IF IsOpen(call.id) THEN Orders("CIPSEND", call.id) /\ GoesOn(">", call.try) /\ ret' = ret
                        ELSE call' = NoCall /\ ret' = "false" /\ UNCHANGED busy
  /\ UNCHANGED <<ids, id_bits, id_close, packets, timeout, rx, links, peer>>

DSendPrompted ==
  /\ call.op = "send" /\ call.awaits = ">" /\ rx[1].kind = ">" /\ Reads
  /\ Orders("data", call.id) /\ GoesOn("SENDOK", call.try)
  /\ UNCHANGED <<ids, id_bits, id_close, packets, timeout, ret, links, peer>>

DSendMatched ==
  /\ call.op = "send" /\ call.awaits = "SENDOK" /\ rx[1].kind = "SENDOK" /\ Reads
  /\ call' = NoCall /\ ret' = "true"
  /\ UNCHANGED <<ids, id_bits, id_close, packets, timeout, links, busy, peer>>

DSendTimedOut ==
  /\ call.op = "send" /\ call.awaits \in {">", "SENDOK"}
  /\ rx = <<>> /\ (busy = Idle \/ busy.op = "TCP")
  /\ IF call.try = 0 THEN GoesOn("none", 1) /\ ret' = ret ELSE call' = NoCall /\ ret' = "false"
  /\ UNCHANGED <<ids, id_bits, id_close, packets, timeout, rx, links, busy, peer>>

DRelease ==
  /\ id_close' = id_close \ {call.id} /\ ids' = ids \ {call.id}
  /\ packets' = clear_socket_packets(call.id)
  /\ call' = NoCall /\ ret' = "true"

DCloseEnter ==
  /\ call.op = "close" /\ call.awaits = "none"
  /\ IF call.id \notin id_bits
     THEN DRelease /\ UNCHANGED <<timeout, busy>>
     ELSE /\ Orders("CIPCLOSE", call.id) /\ GoesOn("OK", call.try) /\ timeout' = CommandTimeout
          /\ UNCHANGED <<ids, id_close, packets, ret>>
  /\ UNCHANGED <<id_bits, rx, links, peer>>

DCloseMatched ==
  /\ call.op = "close" /\ call.awaits = "OK" /\ rx[1].kind = "OK" /\ Reads
  /\ DRelease /\ timeout' = MiscTimeout
  /\ UNCHANGED <<id_bits, links, busy, peer>>

DCloseTimedOut ==
  /\ call.op = "close" /\ call.awaits = "OK"
  /\ rx = <<>> /\ (busy = Idle \/ busy.op = "TCP") /\ timeout' = MiscTimeout
  /\ IF call.try = 0 THEN GoesOn("none", 1) /\ UNCHANGED <<ids, ret>>
                     ELSE ids' = ids \ {call.id} /\ call' = NoCall /\ ret' = "false"
  /\ UNCHANGED <<id_bits, id_close, packets, rx, links, busy, peer>>

DRecvEnter ==
  /\ call.op = "recv" /\ call.awaits = "none" /\ GoesOn("poll", call.try)
  /\ timeout' = PollTimeout
  /\ UNCHANGED <<ids, id_bits, id_close, packets, ret, rx, links, busy, peer>>

DRecvPolled ==
  /\ call.op = "recv" /\ call.awaits = "poll" /\ rx = <<>> /\ call' = NoCall
  /\ timeout' = MiscTimeout /\ packets' = clear_socket_packets(call.id)
  /\ ret' \in {"last", "more", "closed", "block"}
  /\ UNCHANGED <<ids, id_bits, id_close, rx, links, busy, peer>>

DriverDoes ==
  \/ DParse \/ DOpenMatched \/ DOpenTimedOut
  \/ DSendEnter \/ DSendPrompted \/ DSendMatched \/ DSendTimedOut
  \/ DCloseEnter \/ DCloseMatched \/ DCloseTimedOut
  \/ DRecvEnter \/ DRecvPolled

LEMMA DriverStep ==
  ASSUME Types, Calling
  PROVE  /\ rx' \in Seq(Lines)
         /\ \/ DriverDoes /\ owing' = owing
            \/ DOpenEnter /\ (owing' <=> (busy # Idle \/ Line("OK", None) \in Range(rx)))
PROOF
<1>0. /\ DriverTypes /\ ModuleTypes /\ CallInv /\ RequestTypes /\ rx \in Seq(Lines)
      /\ call \in CallType /\ (call.op # "none" => call.id \in Id)
  BY NoneIsNoId DEF Types, CallInv, RequestTypes, LookingUp, ModuleTypes
<1>1. call.awaits # "none" => call.op # "none"
  BY <1>0, NoCallFacts DEF CallInv
<1>2. CASE Parse
  <2>1. ~OpenEnter
    BY <1>2 DEF Parse, OpenEnter, Entering
  <2>2. rx' \in Seq(Lines) /\ Reads /\ Head(rx) = rx[1] /\ rx[1] \in Lines
    BY <1>0, <1>2, ReadOne DEF Parse
  <2>3. DParse
    BY <1>0, <1>2, <2>2 DEF Parse, DParse, socket_handler, packet_handler, callVars
  <2> QED BY <2>1, <2>2, <2>3 DEF Calling, DriverDoes
<1>3. CASE OpenEnter
  <2>1. call.op \in {"TCP", "UDP"} /\ call.awaits = "none" /\ call.id \in Id
    BY <1>0, <1>3 DEF OpenEnter, Entering
  <2>2. GoesOn("OK", call.try) /\ ret' = ret /\ Orders(call.op, call.id)
    BY <1>0, <1>3, <2>1, AwaitGoesOn, SendOrders DEF OpenEnter, Commands
  <2>3. DOpenEnter
    BY <1>3, <2>1, <2>2 DEF OpenEnter, DOpenEnter
  <2> QED BY <1>0, <1>3, <2>3 DEF Calling, OpenEnter
<1>4. CASE OpenMatched
  <2>1. ~OpenEnter
    BY <1>4 DEF OpenMatched, Matched, OpenEnter, Entering
  <2>2. rx' \in Seq(Lines) /\ Reads /\ Head(rx) = rx[1]
    BY <1>0, <1>4, ReadOne DEF OpenMatched, Matched
  <2>3. DOpenMatched
    BY <1>4, <2>2 DEF OpenMatched, Matched, DOpenMatched, DOpenReturn, OpenReturn, Return
  <2> QED BY <2>1, <2>2, <2>3 DEF Calling, DriverDoes
<1>5. CASE OpenTimedOut
  <2>1. ~OpenEnter
    BY <1>5 DEF OpenTimedOut, TimedOut, OpenEnter, Entering
  <2>2. timeout # PollTimeout
    BY <1>0, <1>5 DEF OpenTimedOut, OpenReturn, DriverTypes
  <2>3. rx = <<>> /\ (busy = Idle \/ busy.op = "TCP")
    BY <1>0, <1>5, <2>2 DEF OpenTimedOut, TimedOut, Silence, DriverTypes, PollTimeout, CommandTimeout,
                            MiscTimeout
  <2>4. DOpenTimedOut
    BY <1>5, <2>3 DEF OpenTimedOut, TimedOut, DOpenTimedOut, DOpenReturn, OpenReturn, Return
  <2> QED BY <1>0, <1>5, <2>1, <2>4 DEF Calling, DriverDoes, OpenTimedOut
<1>6. CASE SendEnter
  <2>1. ~OpenEnter /\ call.op = "send" /\ call.awaits = "none" /\ call.id \in Id
    BY <1>0, <1>6 DEF SendEnter, OpenEnter, Entering
  <2>2. CASE IsOpen(call.id)
    <3>1. Orders("CIPSEND", call.id) /\ GoesOn(">", call.try) /\ ret' = ret
      BY <1>0, <1>6, <2>1, <2>2, AwaitGoesOn, SendOrders DEF SendEnter, Commands
    <3>2. DSendEnter
      BY <1>6, <2>1, <2>2, <3>1 DEF SendEnter, DSendEnter, driverVars
    <3> QED BY <1>0, <1>6, <2>1, <3>2 DEF Calling, DriverDoes, SendEnter
  <2>3. CASE ~IsOpen(call.id)
    <3>1. DSendEnter
      BY <1>6, <2>1, <2>3 DEF SendEnter, DSendEnter, driverVars, Return
    <3> QED BY <1>0, <1>6, <2>1, <3>1 DEF Calling, DriverDoes, SendEnter
  <2> QED BY <2>2, <2>3
<1>7. CASE SendPrompted
  <2>1. ~OpenEnter /\ call.op = "send" /\ call.awaits = ">"
    BY <1>0, <1>1, <1>7 DEF SendPrompted, Matched, OpenEnter, Entering, CallInv, CallType
  <2>2. rx' \in Seq(Lines) /\ Reads /\ Head(rx) = rx[1]
    BY <1>0, <1>7, ReadOne DEF SendPrompted, Matched
  <2>3. Orders("data", call.id) /\ GoesOn("SENDOK", call.try) /\ ret' = ret
    BY <1>0, <1>7, <2>1, AwaitGoesOn, SendOrders DEF SendPrompted, Commands
  <2>4. DSendPrompted
    BY <1>7, <2>1, <2>2, <2>3 DEF SendPrompted, DSendPrompted, Matched, driverVars
  <2> QED BY <2>1, <2>2, <2>4 DEF Calling, DriverDoes
<1>8. CASE SendMatched
  <2>1. ~OpenEnter /\ call.op = "send" /\ call.awaits = "SENDOK"
    BY <1>0, <1>1, <1>8 DEF SendMatched, Matched, OpenEnter, Entering, CallInv, CallType
  <2>2. rx' \in Seq(Lines) /\ Reads /\ Head(rx) = rx[1]
    BY <1>0, <1>8, ReadOne DEF SendMatched, Matched
  <2>3. DSendMatched
    BY <1>8, <2>1, <2>2 DEF SendMatched, DSendMatched, Matched, driverVars, Return
  <2> QED BY <2>1, <2>2, <2>3 DEF Calling, DriverDoes
<1>9. CASE SendTimedOut
  <2>1. ~OpenEnter /\ call.op = "send" /\ call.awaits \in {">", "SENDOK"}
    BY <1>9 DEF SendTimedOut, TimedOut, OpenEnter, Entering
  <2>2. timeout # PollTimeout
    BY <1>0, <2>1 DEF DriverTypes
  <2>3. rx = <<>> /\ (busy = Idle \/ busy.op = "TCP")
    BY <1>0, <1>9, <2>2 DEF SendTimedOut, TimedOut, Silence, DriverTypes, PollTimeout, CommandTimeout,
                            MiscTimeout
  <2>4. call.try = 0 => GoesOn("none", 1) /\ ret' = ret
    BY <1>0, <1>9, <2>1, RetryGoesOn DEF SendTimedOut
  <2>5. DSendTimedOut
    BY <1>9, <2>1, <2>3, <2>4 DEF SendTimedOut, DSendTimedOut, driverVars, moduleVars, Return
  <2> QED BY <1>0, <2>1, <2>5 DEF Calling, DriverDoes, DSendTimedOut
<1>10. CASE CloseEnter
  <2>1. ~OpenEnter /\ call.op = "close" /\ call.awaits = "none" /\ call.id \in Id
    BY <1>0, <1>10 DEF CloseEnter, OpenEnter, Entering
  <2>2. CASE call.id \in id_bits
    <3>1. Orders("CIPCLOSE", call.id) /\ GoesOn("OK", call.try) /\ ret' = ret
      BY <1>0, <1>10, <2>1, <2>2, AwaitGoesOn, SendOrders DEF CloseEnter, Commands
    <3>2. DCloseEnter
      BY <1>10, <2>1, <2>2, <3>1 DEF CloseEnter, DCloseEnter
    <3> QED BY <1>0, <2>1, <3>2 DEF Calling, DriverDoes, DCloseEnter
  <2>3. CASE call.id \notin id_bits
    <3>1. DCloseEnter
      BY <1>10, <2>1, <2>3 DEF CloseEnter, DCloseEnter, Release, DRelease, Return
    <3> QED BY <1>0, <2>1, <3>1 DEF Calling, DriverDoes, DCloseEnter
  <2> QED BY <2>2, <2>3
<1>11. CASE CloseMatched
  <2>1. ~OpenEnter /\ call.op = "close" /\ call.awaits = "OK"
    BY <1>11 DEF CloseMatched, Matched, OpenEnter, Entering
  <2>2. rx' \in Seq(Lines) /\ Reads /\ Head(rx) = rx[1]
    BY <1>0, <1>11, ReadOne DEF CloseMatched, Matched
  <2>3. DCloseMatched
    BY <1>11, <2>1, <2>2 DEF CloseMatched, DCloseMatched, Matched, Release, DRelease, Return
  <2> QED BY <2>1, <2>2, <2>3 DEF Calling, DriverDoes
<1>12. CASE CloseTimedOut
  <2>1. ~OpenEnter /\ call.op = "close" /\ call.awaits = "OK"
    BY <1>12 DEF CloseTimedOut, TimedOut, OpenEnter, Entering
  <2>2. timeout # PollTimeout
    BY <1>0, <2>1 DEF DriverTypes
  <2>3. rx = <<>> /\ (busy = Idle \/ busy.op = "TCP")
    BY <1>0, <1>12, <2>2 DEF CloseTimedOut, TimedOut, Silence, DriverTypes, PollTimeout,
                             CommandTimeout, MiscTimeout
  <2>4. call.try = 0 => GoesOn("none", 1) /\ ret' = ret
    BY <1>0, <1>12, <2>1, RetryGoesOn DEF CloseTimedOut
  <2>5. DCloseTimedOut
    BY <1>12, <2>1, <2>3, <2>4 DEF CloseTimedOut, DCloseTimedOut, moduleVars, Return
  <2> QED BY <1>0, <2>1, <2>5 DEF Calling, DriverDoes, DCloseTimedOut
<1>13. CASE RecvEnter
  <2>1. ~OpenEnter /\ call.op = "recv" /\ call.awaits = "none"
    BY <1>13 DEF RecvEnter, OpenEnter, Entering
  <2>2. GoesOn("poll", call.try) /\ ret' = ret
    BY <1>0, <1>13, <2>1, AwaitGoesOn DEF RecvEnter
  <2>3. DRecvEnter
    BY <1>13, <2>1, <2>2 DEF RecvEnter, DRecvEnter, moduleVars
  <2> QED BY <1>0, <2>1, <2>3 DEF Calling, DriverDoes, DRecvEnter
<1>14. CASE RecvPolled
  <2>1. ~OpenEnter /\ call.op = "recv" /\ call.awaits = "poll"
    BY <1>0, <1>1, <1>14 DEF RecvPolled, OpenEnter, Entering, CallInv, CallType
  <2>2. ret' \in {"last", "more", "closed", "block"}
    BY <1>14 DEF RecvPolled, Return
  <2>3. DRecvPolled
    BY <1>14, <2>1, <2>2 DEF RecvPolled, DRecvPolled, moduleVars, Return
  <2> QED BY <1>0, <2>1, <2>3 DEF Calling, DriverDoes, DRecvPolled
<1> QED BY <1>2, <1>3, <1>4, <1>5, <1>6, <1>7, <1>8, <1>9, <1>10, <1>11, <1>12, <1>13, <1>14
        DEF Calling, Driver

LEMMA DriverStepTypes ==
  ASSUME Types, Calling PROVE Types'
PROOF
<1>0. /\ DriverTypes /\ ModuleTypes /\ CallInv /\ RequestTypes /\ LookupTypes
      /\ call \in CallType /\ (call.op # "none" => call.id \in Id)
  BY NoneIsNoId DEF Types, CallInv, RequestTypes, LookingUp
<1>1. UNCHANGED <<pc, sock, udp, udpAddr, server, attempts, sent, resolved, lost>>
  BY CallingLeaves
<1>2. RequestTypes' /\ LookupTypes'
  BY <1>0, <1>1 DEF RequestTypes, LookingUp, LookupTypes
<1>3. rx' \in Seq(Lines) /\ (DriverDoes \/ DOpenEnter)
  BY DriverStep
<1>4. CallInv'
  <2>1. CASE call' = NoCall
    BY <2>1, NoCallFacts DEF CallInv
  <2>2. CASE UNCHANGED call
    BY <1>0, <1>1, <2>2 DEF CallInv
  <2>3. ASSUME NEW a, NEW t, GoesOn(a, t),
               \/ a = "none"
               \/ a = "OK" /\ call.op \in {"TCP", "UDP"} /\ t = call.try
               \/ a = "OK" /\ call.op = "close"
               \/ a = "poll" /\ call.op = "recv"
               \/ a \in {">", "SENDOK"} /\ call.op = "send",
               a = "none" => call.op \in {"send", "close"},
               call.op # "none"
        PROVE CallInv'
    BY <1>0, <1>1, <2>3, NoCallFacts DEF CallInv, GoesOn
  <2>4. CASE DOpenEnter
    BY <2>3, <2>4 DEF DOpenEnter
  <2>5. CASE DSendEnter \/ DSendPrompted \/ DSendTimedOut
    BY <2>1, <2>3, <2>5 DEF DSendEnter, DSendPrompted, DSendTimedOut
  <2>6. CASE DCloseEnter \/ DCloseTimedOut
    BY <2>1, <2>3, <2>6 DEF DCloseEnter, DCloseTimedOut, DRelease
  <2>7. CASE DRecvEnter
    BY <2>3, <2>7 DEF DRecvEnter
  <2>8. CASE DParse \/ DOpenMatched \/ DOpenTimedOut \/ DSendMatched \/ DCloseMatched \/ DRecvPolled
    BY <2>1, <2>2, <2>8 DEF DParse, DOpenMatched, DOpenTimedOut, DOpenReturn, DSendMatched,
                            DCloseMatched, DRelease, DRecvPolled
  <2> QED BY <1>3, <2>4, <2>5, <2>6, <2>7, <2>8 DEF DriverDoes
<1>5. DriverTypes'
  <2> USE <1>0, NoCallFacts DEF DriverTypes, clear_socket_packets, PollTimeout, CommandTimeout, MiscTimeout
  <2>1. CASE DParse
    <3>1. rx[1] \in Lines /\ (rx[1].id \in Id <=> rx[1].kind \in OobKinds)
      BY <2>1 DEF DParse, Reads, ModuleTypes
    <3>2. rx[1].kind \in {"CONNECT", "CLOSED"} => rx[1].id \in Id
      BY <3>1 DEF OobKinds
    <3>3. rx[1].kind \in {"IPD", "LAST"} => rx[1] \in Packet
      BY <3>1 DEF OobKinds, Lines, Packet
    <3> QED BY <2>1, <3>2, <3>3 DEF DParse
  <2>2. CASE DOpenEnter \/ DOpenMatched \/ DOpenTimedOut
    BY <2>2 DEF DOpenEnter, DOpenMatched, DOpenTimedOut, DOpenReturn, GoesOn
  <2>3. CASE DSendEnter \/ DSendPrompted \/ DSendMatched \/ DSendTimedOut
    BY <2>3 DEF DSendEnter, DSendPrompted, DSendMatched, DSendTimedOut, GoesOn
  <2>4. CASE DCloseEnter \/ DCloseMatched \/ DCloseTimedOut
    BY <2>4 DEF DCloseEnter, DCloseMatched, DCloseTimedOut, DRelease, GoesOn
  <2>5. CASE DRecvEnter \/ DRecvPolled
    BY <2>5 DEF DRecvEnter, DRecvPolled, GoesOn
  <2> QED BY <1>3, <2>1, <2>2, <2>3, <2>4, <2>5 DEF DriverDoes
<1>6. ModuleTypes'
  <2>1. links' = links /\ peer' = peer
    BY <1>3 DEF DriverDoes, DParse, DOpenEnter, DOpenMatched, DOpenTimedOut, DOpenReturn, DSendEnter,
            DSendPrompted, DSendMatched, DSendTimedOut, DCloseEnter, DCloseMatched, DCloseTimedOut,
            DRecvEnter, DRecvPolled
  <2>2. Reads \/ rx' = rx
    BY <1>3 DEF DriverDoes, DParse, DOpenEnter, DOpenMatched, DOpenTimedOut, DOpenReturn, DSendEnter,
            DSendPrompted, DSendMatched, DSendTimedOut, DCloseEnter, DCloseMatched, DCloseTimedOut,
            DRecvEnter, DRecvPolled
  <2>3. \A i \in 1..Len(rx') : rx'[i].id \in Id <=> rx'[i].kind \in OobKinds
    BY <1>0, <1>3, <2>2 DEF Reads, ModuleTypes
  <2>4. busy' = busy \/ \E op \in Commands : Orders(op, call.id) /\ call.id \in Id
    BY <1>0, <1>3 DEF DriverDoes, DParse, DOpenEnter, DOpenMatched, DOpenTimedOut, DOpenReturn,
            DSendEnter, DSendPrompted, DSendMatched, DSendTimedOut, DCloseEnter, DCloseMatched,
            DCloseTimedOut, DRecvEnter, DRecvPolled, Commands
  <2>5. busy' \in Busy /\ (busy' # Idle => busy'.op \in Commands /\ busy'.id \in Id)
    BY <1>0, <2>4 DEF Orders, ModuleTypes
  <2> QED BY <1>0, <1>3, <2>1, <2>3, <2>5 DEF ModuleTypes
<1> QED BY <1>2, <1>4, <1>5, <1>6 DEF Types

LEMMA InitTypes == Init => Types
PROOF
<1> SUFFICES ASSUME Init PROVE Types
  OBVIOUS
<1> USE Esp32Assumption, DnsAssumption, NoCallFacts, IdleFacts DEF Init, DriverInit
<1>1. DriverTypes
  BY DEF DriverTypes, PollTimeout, MiscTimeout
<1>2. ModuleTypes
  BY DEF ModuleTypes
<1>3. CallInv /\ RequestTypes
  BY DEF CallInv, RequestTypes, LookingUp
<1>4. LookupTypes
  BY DEF LookupTypes
<1> QED BY <1>1, <1>2, <1>3, <1>4 DEF Types

LEMMA NextTypes == Types /\ [Next]_vars => Types'
PROOF
<1> SUFFICES ASSUME Types, [Next]_vars PROVE Types'
  OBVIOUS
<1>1. CASE Client
  BY <1>1, ClientRequestTypes, ClientLookupTypes, ClientCallInv, ClientDriverTypes DEF Types
<1>2. CASE Calling
  BY <1>2, DriverStepTypes
<1>3. CASE Module \/ PeerAnswers \/ PeerHangsUp
  BY <1>3, ModuleStepTypes
<1>4. CASE UNCHANGED vars
  <2>1. UNCHANGED <<ids, DriverAndModule, call, ret, pc, sock, udp, udpAddr,
                    server, attempts, sent, resolved, lost, owing>>
    BY <1>4, UnchangedLeaves
  <2> QED BY <2>1 DEF Types, DriverTypes, ModuleTypes, CallInv, RequestTypes, LookupTypes, LookingUp,
                      DriverAndModule
<1> QED BY <1>1, <1>2, <1>3, <1>4 DEF Next

LEMMA TypesAlways == Spec => []Types
BY InitTypes, NextTypes, PTL DEF Spec

LEMMA TypesGiveTypeOK == Types => TypeOK
PROOF
<1> SUFFICES ASSUME Types PROVE TypeOK
  OBVIOUS
<1>1. ids \subseteq Id /\ id_bits \subseteq Id /\ id_close \subseteq Id /\ links \subseteq Id
  BY DEF Types, DriverTypes, ModuleTypes
<1>2. /\ packets \subseteq [kind : {"IPD", "LAST"}, id : Id]
      /\ rx \in Seq([kind : LineKinds, id : Id \cup {None}])
      /\ timeout \in {PollTimeout, CommandTimeout, MiscTimeout}
  BY DEF Types, DriverTypes, ModuleTypes, Lines, Packet
<1>3. busy.op \in Commands \cup {"none"} /\ busy.id \in Id \cup {None}
  BY DEF Types, ModuleTypes, Busy
<1>4. call.id \in Id \cup {None} /\ call.try \in 0..1
  BY DEF Types, CallInv, CallType
<1>5. peer \in [Id -> {"silent", "asked", "half", "done"}]
  BY DEF Types, ModuleTypes
<1>6. sock \in Id \cup {None} /\ udp \in Id \cup {None} /\ lost \subseteq Id
  BY DEF Types, RequestTypes
<1>7. /\ udpAddr \in 0..DnsServers /\ server \in 1..DnsServers+1
      /\ attempts \in 0..DnsAttempts /\ sent \in 0..DnsAttempts
  BY DEF Types, LookupTypes
<1> QED BY <1>1, <1>2, <1>3, <1>4, <1>5, <1>6, <1>7 DEF TypeOK

-----------------------------------------------------------------------------
\* Sockets and their owners.

LEMMA ClientOwners ==
  ASSUME Types, OwnerInv, Client PROVE OwnerInv'
PROOF
<1>0. /\ ids \subseteq Id /\ RequestTypes /\ OwnerInv /\ OwnersDistinct /\ call = NoCall
      /\ None \notin Id
  BY ClientCalls, NoneIsNoId DEF Types, DriverTypes, OwnerInv
<1>1. get_free_id # {} => Lowest(get_free_id) \in Id /\ Lowest(get_free_id) \notin ids
  BY LowestIsLeast, FreeIds DEF get_free_id
<1>2. Goes /\ (call' # NoCall => sock' = sock /\ (pc' # "connect" => udp' = udp))
  BY ClientGoes DEF Types
<1>3. Released(udp, {"unlook"})' => udp' \notin ids'
  BY <1>2 DEF Released, Goes, Begins, NoCall
<1>4. Released(sock, {"close"})' => sock' \notin ids'
  BY <1>2 DEF Released, Goes, Begins, NoCall
<1>5. OwnersDistinct'
  <2> USE <1>0, <1>1 DEF OwnersDistinct, RequestTypes, LookingUp, outside, driverVars, Calls, Start,
                         dnsVars, requestVars, Fail, Returned
  <2>1. CASE OpenRefused
    BY <2>1 DEF OpenRefused
  <2>2. CASE Open
    BY <2>2 DEF Open
  <2>3. CASE LookupCached \/ LookupRefused
    BY <2>3 DEF LookupCached, LookupRefused
  <2>4. CASE Lookup
    BY <2>4 DEF Lookup
  <2>5. CASE QueryAnotherRound \/ QueryGivesUp \/ Query \/ QueryDisconnected \/ QueryConnected
    BY <2>5 DEF QueryAnotherRound, QueryGivesUp, Query, QueryDisconnected, QueryConnected
  <2>6. CASE QueryNotSent \/ QuerySent \/ QueryReplied \/ QueryClosed \/ QueryWaits \/ QueryTimedOut
    BY <2>6 DEF QueryNotSent, QuerySent, QueryReplied, QueryClosed, QueryWaits, QueryTimedOut
  <2>7. CASE LookupDone
    <3>1. udp \notin ids
      BY <2>7 DEF LookupDone, OwnerInv, Released
    <3> QED BY <2>7, <3>1 DEF LookupDone
  <2>8. CASE Connected \/ Sent \/ Received \/ Waits \/ RequestFails
    BY <2>8 DEF Connected, Sent, Received, Waits, RequestFails
  <2>9. CASE RequestSucceeds
    <3>1. sock \notin ids
      BY <2>9 DEF RequestSucceeds, OwnerInv, Released
    <3> QED BY <2>9, <3>1 DEF RequestSucceeds
  <2> QED BY <2>1, <2>2, <2>3, <2>4, <2>5, <2>6, <2>7, <2>8, <2>9 DEF Client
<1>6. pc' = "close" => pc = "recv" /\ sock' = sock /\ ids' = ids
  <2> USE <1>0 DEF outside, driverVars, Calls, Start, callVars, dnsVars, requestVars, Fail, Returned
  <2>1. CASE OpenRefused \/ Open \/ LookupCached \/ LookupRefused \/ Lookup \/ QueryAnotherRound
    BY <2>1 DEF OpenRefused, Open, LookupCached, LookupRefused, Lookup, QueryAnotherRound
  <2>2. CASE QueryGivesUp \/ Query \/ QueryDisconnected \/ QueryConnected \/ QueryNotSent \/ QuerySent
    BY <2>2 DEF QueryGivesUp, Query, QueryDisconnected, QueryConnected, QueryNotSent, QuerySent
  <2>3. CASE QueryReplied \/ QueryClosed \/ QueryWaits \/ QueryTimedOut \/ LookupDone \/ Connected
    BY <2>3 DEF QueryReplied, QueryClosed, QueryWaits, QueryTimedOut, LookupDone, Connected
  <2>4. CASE Sent \/ Received \/ Waits \/ RequestFails \/ RequestSucceeds
    BY <2>4 DEF Sent, Received, Waits, RequestFails, RequestSucceeds
  <2> QED BY <2>1, <2>2, <2>3, <2>4 DEF Client
<1>7. pc' = "close" => sock' \in ids'
  BY <1>0, <1>6 DEF OwnersDistinct, RequestTypes
<1> QED BY <1>3, <1>4, <1>5, <1>7 DEF OwnerInv

LEMMA CallingOwners ==
  ASSUME Types, OwnerInv, Calling PROVE OwnerInv'
PROOF
<1>0. /\ ids \subseteq Id /\ RequestTypes /\ CallInv /\ OwnersDistinct /\ None \notin Id
  BY NoneIsNoId DEF Types, DriverTypes, OwnerInv
<1>1. UNCHANGED <<pc, sock, udp, lost>> /\ (DriverDoes \/ DOpenEnter)
  BY CallingLeaves, DriverStep
<1>2. call # NoCall
  BY <1>1 DEF DriverDoes, DParse, DOpenEnter, DOpenMatched, DOpenTimedOut, DOpenReturn, DSendEnter,
          DSendPrompted, DSendMatched, DSendTimedOut, DCloseEnter, DCloseMatched, DCloseTimedOut,
          DRecvEnter, DRecvPolled, NoCall
<1>3. CASE ids' = ids /\ call' # NoCall
  BY <1>0, <1>1, <1>2, <1>3 DEF OwnerInv, OwnersDistinct, Released
<1>4. CASE ids' = ids /\ call.op # "close"
  <2>1. pc \notin {"unlook", "close"}
    BY <1>0, <1>2, <1>4 DEF CallInv
  <2> QED BY <1>0, <1>1, <1>4, <2>1 DEF OwnerInv, OwnersDistinct, Released
<1>5. CASE ids' = ids \ {call.id} /\ call.op = "close" /\ call' = NoCall
  <2>1. \/ pc \in {"disconnect", "unlook"} /\ call.id = udp
        \/ pc = "close" /\ call.id = sock
    BY <1>0, <1>2, <1>5 DEF CallInv
  <2> QED BY <1>0, <1>1, <1>5, <2>1 DEF OwnerInv, OwnersDistinct, Released, RequestTypes, LookingUp
<1>6. \/ ids' = ids /\ (call' # NoCall \/ call.op # "close")
      \/ ids' = ids \ {call.id} /\ call.op = "close" /\ call' = NoCall
  BY <1>0, <1>1 DEF DriverDoes, DParse, DOpenEnter, DOpenMatched, DOpenTimedOut, DOpenReturn, DSendEnter,
            DSendPrompted, DSendMatched, DSendTimedOut, DCloseEnter, DCloseMatched, DCloseTimedOut,
            DRecvEnter, DRecvPolled, DRelease, GoesOn, NoCall
<1> QED BY <1>3, <1>4, <1>5, <1>6

LEMMA NextOwners ==
  ASSUME Types, OwnerInv, [Next]_vars PROVE OwnerInv'
PROOF
<1>1. CASE Module \/ PeerAnswers \/ PeerHangsUp
  BY <1>1, ModuleLeaves DEF OwnerInv, OwnersDistinct, Released
<1>2. CASE UNCHANGED vars
  BY <1>2, UnchangedLeaves DEF OwnerInv, OwnersDistinct, Released
<1> QED BY <1>1, <1>2, ClientOwners, CallingOwners DEF Next

-----------------------------------------------------------------------------
\* The lines on their way.

\* Lines are added behind those on their way.
Grows == Len(rx') >= Len(rx) /\ \A i \in 1..Len(rx) : rx'[i] = rx[i]
Added == Len(rx)+1..Len(rx')

\* What socket_handler() makes of the first line.
BitsAfter ==
  id_bits' = IF rx[1].kind = "CONNECT" THEN id_bits \cup {rx[1].id}
             ELSE IF rx[1].kind = "CLOSED" THEN id_bits \ {rx[1].id} ELSE id_bits

LEMMA ReadEnds ==
  ASSUME rx \in Seq(Lines), rx' \in Seq(Lines), Reads, BitsAfter, NEW id \in Id
  PROVE  (EndsOpen(id) => EndsOpen(id)') /\ (EndsClosed(id) => EndsClosed(id)')
PROOF
<1>0. Len(rx) \in Nat /\ Len(rx') \in Nat
  OBVIOUS
<1> USE <1>0 DEF Reads, At
<1>1. ASSUME id \in id_bits, ~Pending("CLOSED", id) PROVE EndsOpen(id)'
  <2>1. id \in id_bits'
    BY <1>1 DEF Pending, BitsAfter
  <2>2. ~Pending("CLOSED", id)'
    BY <1>1 DEF Pending
  <2> QED BY <2>1, <2>2 DEF EndsOpen
<1>2. ASSUME NEW i \in 1..Len(rx), At(i, "CONNECT", id),
             \A j \in i+1..Len(rx) : ~At(j, "CLOSED", id)
      PROVE  EndsOpen(id)'
  <2>1. CASE i = 1
    <3>1. id \in id_bits'
      BY <1>2, <2>1 DEF BitsAfter
    <3>2. ~Pending("CLOSED", id)'
      BY <1>2, <2>1 DEF Pending
    <3> QED BY <3>1, <3>2 DEF EndsOpen
  <2>2. CASE i # 1
    <3>1. i - 1 \in 1..Len(rx') /\ At(i - 1, "CONNECT", id)'
      BY <1>2, <2>2
    <3>2. \A j \in i..Len(rx') : ~At(j, "CLOSED", id)'
      BY <1>2, <2>2
    <3>3. (i - 1) + 1 = i
      BY <1>2
    <3> QED BY <3>1, <3>2, <3>3 DEF EndsOpen
  <2> QED BY <2>1, <2>2
<1>3. ASSUME id \notin id_bits, ~Pending("CONNECT", id) PROVE EndsClosed(id)'
  <2>1. id \notin id_bits'
    BY <1>3 DEF Pending, BitsAfter
  <2>2. ~Pending("CONNECT", id)'
    BY <1>3 DEF Pending
  <2> QED BY <2>1, <2>2 DEF EndsClosed
<1>4. ASSUME NEW i \in 1..Len(rx), At(i, "CLOSED", id),
             \A j \in i+1..Len(rx) : ~At(j, "CONNECT", id)
      PROVE  EndsClosed(id)'
  <2>1. CASE i = 1
    <3>1. id \notin id_bits'
      BY <1>4, <2>1 DEF BitsAfter
    <3>2. ~Pending("CONNECT", id)'
      BY <1>4, <2>1 DEF Pending
    <3> QED BY <3>1, <3>2 DEF EndsClosed
  <2>2. CASE i # 1
    <3>1. i - 1 \in 1..Len(rx') /\ At(i - 1, "CLOSED", id)'
      BY <1>4, <2>2
    <3>2. \A j \in i..Len(rx') : ~At(j, "CONNECT", id)'
      BY <1>4, <2>2
    <3>3. (i - 1) + 1 = i
      BY <1>4
    <3> QED BY <3>1, <3>2, <3>3 DEF EndsClosed
  <2> QED BY <2>1, <2>2
<1> QED BY <1>1, <1>2, <1>3, <1>4 DEF EndsOpen, EndsClosed

LEMMA AddEnds ==
  ASSUME rx \in Seq(Lines), rx' \in Seq(Lines), Grows, id_bits' = id_bits, NEW id \in Id
  PROVE  /\ EndsOpen(id) /\ (\A j \in Added : ~At(j, "CLOSED", id)') => EndsOpen(id)'
         /\ EndsClosed(id) /\ (\A j \in Added : ~At(j, "CONNECT", id)') => EndsClosed(id)'
PROOF
<1>0. Len(rx) \in Nat /\ Len(rx') \in Nat
  OBVIOUS
<1> USE <1>0 DEF Grows, Added, At
<1>1. ASSUME id \in id_bits, ~Pending("CLOSED", id), \A j \in Added : ~At(j, "CLOSED", id)'
      PROVE  EndsOpen(id)'
  <2>1. ~Pending("CLOSED", id)'
    BY <1>1 DEF Pending
  <2> QED BY <1>1, <2>1 DEF EndsOpen
<1>2. ASSUME NEW i \in 1..Len(rx), At(i, "CONNECT", id),
             \A j \in i+1..Len(rx) : ~At(j, "CLOSED", id), \A j \in Added : ~At(j, "CLOSED", id)'
      PROVE  EndsOpen(id)'
  <2>1. i \in 1..Len(rx') /\ At(i, "CONNECT", id)'
    BY <1>2
  <2>2. \A j \in i+1..Len(rx') : ~At(j, "CLOSED", id)'
    BY <1>2
  <2> QED BY <2>1, <2>2 DEF EndsOpen
<1>3. ASSUME id \notin id_bits, ~Pending("CONNECT", id), \A j \in Added : ~At(j, "CONNECT", id)'
      PROVE  EndsClosed(id)'
  <2>1. ~Pending("CONNECT", id)'
    BY <1>3 DEF Pending
  <2> QED BY <1>3, <2>1 DEF EndsClosed
<1>4. ASSUME NEW i \in 1..Len(rx), At(i, "CLOSED", id),
             \A j \in i+1..Len(rx) : ~At(j, "CONNECT", id), \A j \in Added : ~At(j, "CONNECT", id)'
      PROVE  EndsClosed(id)'
  <2>1. i \in 1..Len(rx') /\ At(i, "CLOSED", id)'
    BY <1>4
  <2>2. \A j \in i+1..Len(rx') : ~At(j, "CONNECT", id)'
    BY <1>4
  <2> QED BY <2>1, <2>2 DEF EndsClosed
<1> QED BY <1>1, <1>2, <1>3, <1>4 DEF EndsOpen, EndsClosed

\* The lines a step of the module adds, and what it does to the links.
LEMMA ModuleAdds ==
  ASSUME ModuleTypes, ModuleDoes, rx' \in Seq(Lines)
  PROVE  Grows /\ Len(rx') \in {Len(rx) + 1, Len(rx) + 2} /\ Len(rx) \in Nat
PROOF
<1>1. Len(rx) \in Nat
  BY DEF ModuleTypes
<1>2. \E k, i, l, j : Adds(k, i) \/ AddsTwo(k, i, l, j)
  BY DEF ModuleDoes, Refused, Opened, Prompted, Taken, Disconnected, PeerSaid, PeerLeft
<1> QED BY <1>1, <1>2 DEF Adds, AddsTwo, Grows

LEMMA ModuleLinks ==
  ASSUME ModuleTypes, LinkInv, ModuleDoes, rx' \in Seq(Lines), id_bits' = id_bits
  PROVE  LinkInv'
PROOF
<1>0. Grows /\ Len(rx) \in Nat /\ rx \in Seq(Lines) /\ links \subseteq Id
  BY ModuleAdds DEF ModuleTypes
<1> SUFFICES ASSUME NEW id \in Id
             PROVE  (id \in links' => EndsOpen(id)') /\ (id \notin links' => EndsClosed(id)')
  BY DEF LinkInv
<1>1. (id \in links => EndsOpen(id)) /\ (id \notin links => EndsClosed(id))
  BY DEF LinkInv
<1>2. /\ EndsOpen(id) /\ (\A j \in Added : ~At(j, "CLOSED", id)') => EndsOpen(id)'
      /\ EndsClosed(id) /\ (\A j \in Added : ~At(j, "CONNECT", id)') => EndsClosed(id)'
  BY <1>0, AddEnds
<1>3. CASE Refused
  <2>1. \A j \in Added : ~At(j, "CONNECT", id)'
    BY <1>0, <1>3 DEF Refused, Adds, AddsTwo, Added, At
  <2>2. id \in links => \A j \in Added : ~At(j, "CLOSED", id)'
    BY <1>0, <1>3 DEF Refused, Adds, AddsTwo, Added, At
  <2> QED BY <1>1, <1>2, <1>3, <2>1, <2>2 DEF Refused
<1>4. CASE Opened
  <2>1. CASE id = busy.id
    <3>0. PICK n \in Nat : n = Len(rx) + 1
      BY <1>0
    <3>1. n \in 1..Len(rx') /\ At(n, "CONNECT", id)'
      BY <1>0, <1>4, <2>1, <3>0 DEF Opened, AddsTwo, At
    <3>2. \A j \in n + 1..Len(rx') : ~At(j, "CLOSED", id)'
      BY <1>0, <1>4, <2>1, <3>0 DEF Opened, AddsTwo, At
    <3>3. EndsOpen(id)'
      BY <3>1, <3>2 DEF EndsOpen
    <3> QED BY <1>4, <2>1, <3>3 DEF Opened
  <2>2. CASE id # busy.id
    <3>1. \A j \in Added : ~At(j, "CONNECT", id)' /\ ~At(j, "CLOSED", id)'
      BY <1>0, <1>4, <2>2 DEF Opened, AddsTwo, Added, At
    <3> QED BY <1>1, <1>2, <1>4, <2>2, <3>1 DEF Opened
  <2> QED BY <2>1, <2>2
<1>5. CASE Prompted \/ Taken
  <2>1. \A j \in Added : ~At(j, "CONNECT", id)' /\ ~At(j, "CLOSED", id)'
    BY <1>0, <1>5 DEF Prompted, Taken, Adds, AddsTwo, Added, At
  <2> QED BY <1>1, <1>2, <1>5, <2>1 DEF Prompted, Taken
<1>6. ASSUME NEW gone \in Id, links' = links \ {gone}, Adds("CLOSED", gone) \/ AddsTwo("CLOSED", gone, "OK", None)
      PROVE  (id \in links' => EndsOpen(id)') /\ (id \notin links' => EndsClosed(id)')
  <2>1. CASE id = gone
    <3>0. PICK n \in Nat : n = Len(rx) + 1
      BY <1>0
    <3>1. n \in 1..Len(rx') /\ At(n, "CLOSED", id)'
      BY <1>0, <1>6, <2>1, <3>0 DEF Adds, AddsTwo, At
    <3>2. \A j \in n + 1..Len(rx') : ~At(j, "CONNECT", id)'
      BY <1>0, <1>6, <2>1, <3>0 DEF Adds, AddsTwo, At
    <3>3. EndsClosed(id)'
      BY <3>1, <3>2 DEF EndsClosed
    <3> QED BY <1>6, <2>1, <3>3
  <2>2. CASE id # gone
    <3>1. \A j \in Added : ~At(j, "CONNECT", id)' /\ ~At(j, "CLOSED", id)'
      BY <1>0, <1>6, <2>2 DEF Adds, AddsTwo, Added, At
    <3> QED BY <1>1, <1>2, <1>6, <2>2, <3>1
  <2> QED BY <2>1, <2>2
<1>7. CASE Disconnected
  BY <1>6, <1>7 DEF Disconnected
<1>8. ASSUME NEW p \in Id, PeerLeft(p)
      PROVE  (id \in links' => EndsOpen(id)') /\ (id \notin links' => EndsClosed(id)')
  BY <1>6, <1>8 DEF PeerLeft
<1>9. ASSUME NEW p \in Id, NEW kind \in {"IPD", "LAST"}, PeerSaid(p, kind)
      PROVE  (id \in links' => EndsOpen(id)') /\ (id \notin links' => EndsClosed(id)')
  <2>1. \A j \in Added : ~At(j, "CONNECT", id)' /\ ~At(j, "CLOSED", id)'
    BY <1>0, <1>9 DEF PeerSaid, Adds, Added, At
  <2> QED BY <1>1, <1>2, <1>9, <2>1 DEF PeerSaid
<1> QED BY <1>3, <1>4, <1>5, <1>7, <1>8, <1>9 DEF ModuleDoes

LEMMA ModuleConnects ==
  ASSUME ModuleTypes, ConnectThenOK, ModuleDoes, rx' \in Seq(Lines)
  PROVE  ConnectThenOK'
PROOF
<1>0. Grows /\ Len(rx) \in Nat
  BY ModuleAdds
<1>1. CASE Opened
  BY <1>0, <1>1 DEF Opened, ConnectThenOK, Grows, AddsTwo
<1>2. ASSUME \A j \in Added : rx'[j].kind # "CONNECT" PROVE ConnectThenOK'
  <2> SUFFICES ASSUME NEW i \in 1..Len(rx'), rx'[i].kind = "CONNECT"
               PROVE  i < Len(rx') /\ rx'[i + 1].kind = "OK"
    BY DEF ConnectThenOK
  <2>1. i \in 1..Len(rx)
    BY <1>0, <1>2 DEF Added, Grows
  <2>2. i < Len(rx) /\ rx[i + 1].kind = "OK"
    BY <1>0, <2>1 DEF ConnectThenOK, Grows
  <2> QED BY <1>0, <2>1, <2>2 DEF Grows
<1> USE <1>0 DEF Added, Grows, Adds, AddsTwo
<1>3. ASSUME Refused, NEW j \in Added PROVE rx'[j].kind # "CONNECT"
  BY <1>3 DEF Refused
<1>4. ASSUME Prompted \/ Taken \/ Disconnected, NEW j \in Added PROVE rx'[j].kind # "CONNECT"
  BY <1>4 DEF Prompted, Taken, Disconnected
<1>5. ASSUME NEW p \in Id, PeerLeft(p), NEW j \in Added PROVE rx'[j].kind # "CONNECT"
  BY <1>5 DEF PeerLeft
<1>6. ASSUME NEW p \in Id, NEW kind \in {"IPD", "LAST"}, PeerSaid(p, kind), NEW j \in Added
      PROVE  rx'[j].kind # "CONNECT"
  BY <1>6 DEF PeerSaid
<1> HIDE DEF Added
<1> QED BY <1>1, <1>2, <1>3, <1>4, <1>5, <1>6 DEF ModuleDoes

LEMMA ModulePeers ==
  ASSUME ModuleTypes, LinkInv, PeerInv, BusyInv, SendInv, ModuleDoes, rx' \in Seq(Lines),
         id_bits' = id_bits
  PROVE  PeerInv'
PROOF
<1>0. Grows /\ Len(rx) \in Nat /\ links \subseteq Id
      /\ peer \in [Id -> {"silent", "asked", "half", "done"}]
  BY ModuleAdds DEF ModuleTypes
<1> SUFFICES ASSUME NEW id \in links', peer'[id] \in {"asked", "half"}
             PROVE  id \in id_bits /\ ~Pending("CLOSED", id)'
  BY DEF PeerInv
<1>1. ASSUME id \in id_bits, ~Pending("CLOSED", id), \A j \in Added : ~At(j, "CLOSED", id)'
      PROVE  id \in id_bits /\ ~Pending("CLOSED", id)'
  BY <1>0, <1>1 DEF Pending, Grows, Added, At
<1>2. id \in links /\ peer[id] \in {"asked", "half"} => id \in id_bits /\ ~Pending("CLOSED", id)
  BY DEF PeerInv
<1>3. CASE Refused
  <2>1. \A j \in Added : ~At(j, "CLOSED", id)'
    BY <1>0, <1>3 DEF Refused, Adds, AddsTwo, Added, At
  <2> QED BY <1>1, <1>2, <1>3, <2>1 DEF Refused
<1>4. CASE Opened
  <2>1. id # busy.id /\ id \in links /\ peer[id] \in {"asked", "half"}
    BY <1>0, <1>4 DEF Opened
  <2>2. \A j \in Added : ~At(j, "CLOSED", id)'
    BY <1>0, <1>4, <2>1 DEF Opened, AddsTwo, Added, At
  <2> QED BY <1>1, <1>2, <2>1, <2>2
<1>5. CASE Prompted
  <2>1. \A j \in Added : ~At(j, "CLOSED", id)'
    BY <1>0, <1>5 DEF Prompted, AddsTwo, Added, At
  <2> QED BY <1>1, <1>2, <1>5, <2>1 DEF Prompted
<1>6. CASE Taken
  <2>1. \A j \in Added : ~At(j, "CLOSED", id)'
    BY <1>0, <1>6 DEF Taken, Adds, Added, At
  <2>2. CASE id = busy.id
    <3>1. Kinds(Unasked)
      BY <1>6 DEF Taken, BusyInv, SendInv
    <3>2. EndsOpen(id)
      BY <1>0, <1>6, <2>2 DEF Taken, LinkInv
    <3>3. id \in id_bits /\ ~Pending("CLOSED", id)
      BY <3>1, <3>2 DEF EndsOpen, Kinds, Unasked, At
    <3> QED BY <1>1, <2>1, <3>3
  <2>3. CASE id # busy.id
    <3>1. id \in links /\ peer[id] \in {"asked", "half"}
      BY <1>0, <1>6, <2>3 DEF Taken
    <3> QED BY <1>1, <1>2, <2>1, <3>1
  <2> QED BY <2>2, <2>3
<1>7. CASE Disconnected
  <2>1. \A j \in Added : ~At(j, "CLOSED", id)'
    BY <1>0, <1>7 DEF Disconnected, AddsTwo, Added, At
  <2> QED BY <1>1, <1>2, <1>7, <2>1 DEF Disconnected
<1>8. ASSUME NEW p \in Id, PeerLeft(p) PROVE id \in id_bits /\ ~Pending("CLOSED", id)'
  <2>1. \A j \in Added : ~At(j, "CLOSED", id)'
    BY <1>0, <1>8 DEF PeerLeft, Adds, Added, At
  <2> QED BY <1>1, <1>2, <1>8, <2>1 DEF PeerLeft
<1>9. ASSUME NEW p \in Id, NEW kind \in {"IPD", "LAST"}, PeerSaid(p, kind)
      PROVE  id \in id_bits /\ ~Pending("CLOSED", id)'
  <2>1. \A j \in Added : ~At(j, "CLOSED", id)'
    BY <1>0, <1>9 DEF PeerSaid, Adds, Added, At
  <2>2. id \in links /\ peer[id] \in {"asked", "half"}
    BY <1>0, <1>9 DEF PeerSaid
  <2> QED BY <1>1, <1>2, <2>1, <2>2
<1> QED BY <1>3, <1>4, <1>5, <1>6, <1>7, <1>8, <1>9 DEF ModuleDoes

LEMMA ModulePackets ==
  ASSUME ModuleTypes, PeerInv, PacketInv, ModuleDoes, rx' \in Seq(Lines), id_bits' = id_bits
  PROVE  PacketInv'
PROOF
<1>0. Grows /\ Len(rx) \in Nat
  BY ModuleAdds
<1>1. ASSUME \A j \in Added : rx'[j].kind \notin {"IPD", "LAST"} PROVE PacketInv'
  BY <1>0, <1>1 DEF PacketInv, Grows, Added, At
<1>2. CASE Refused \/ Opened \/ Prompted \/ Taken \/ Disconnected
  BY <1>0, <1>1, <1>2 DEF Refused, Opened, Prompted, Taken, Disconnected, Adds, AddsTwo, Added
<1>3. ASSUME NEW p \in Id, PeerLeft(p) PROVE PacketInv'
  BY <1>0, <1>1, <1>3 DEF PeerLeft, Adds, Added
<1>4. ASSUME NEW p \in Id, NEW kind \in {"IPD", "LAST"}, PeerSaid(p, kind) PROVE PacketInv'
  <2>1. p \in id_bits /\ ~Pending("CLOSED", p)
    BY <1>4 DEF PeerSaid, PeerInv
  <2> SUFFICES ASSUME NEW i \in 1..Len(rx'), rx'[i].kind \in {"IPD", "LAST"}
               PROVE  /\ rx'[i].id \in id_bits
                      /\ \A j \in 1..i-1 : rx'[j].kind = "CLOSED" => rx'[j].id # rx'[i].id
    BY DEF PacketInv, At
  <2>2. CASE i \in 1..Len(rx)
    BY <1>0, <1>4, <2>2 DEF PeerSaid, Adds, PacketInv, At
  <2>3. CASE i = Len(rx) + 1
    BY <1>0, <1>4, <2>1, <2>3 DEF PeerSaid, Adds, Pending, At
  <2> QED BY <1>0, <1>4, <2>2, <2>3 DEF PeerSaid, Adds
<1> QED BY <1>2, <1>3, <1>4 DEF ModuleDoes

LEMMA ModuleSends ==
  ASSUME ModuleTypes, BusyInv, SendInv, ModuleDoes, rx' \in Seq(Lines), UNCHANGED call
  PROVE  BusyInv' /\ SendInv'
PROOF
<1>0. Grows /\ Len(rx) \in Nat
  BY ModuleAdds
<1>1. BusyInv'
  BY IdleFacts DEF BusyInv, ModuleDoes, Refused, Opened, Prompted, Taken, Disconnected, PeerSaid, PeerLeft
<1>2. SendInv'
  <2>0. busy # Idle => \A i \in 1..Len(rx) : rx[i].kind \notin {">", "SENDOK"}
    BY DEF SendInv
  <2> USE <1>0, <2>0, IdleFacts DEF SendInv, Kinds, Unasked, Grows, Adds, AddsTwo
  <2>1. CASE Refused
    BY <2>1 DEF Refused
  <2>2. CASE Opened
    BY <2>2 DEF Opened
  <2>3. CASE Prompted
    BY <2>3 DEF Prompted, BusyInv
  <2>4. CASE Taken
    <3>1. call.awaits = "SENDOK" /\ Kinds(Unasked)
      BY <2>4 DEF Taken, BusyInv
    <3>2. call'.awaits = "SENDOK" /\ busy' = Idle
      BY <2>4, <3>1 DEF Taken
    <3>3. /\ Kinds(Unasked \cup {"SENDOK", "ERROR"})'
          /\ \A i, j \in 1..Len(rx') : rx'[i].kind = "SENDOK" /\ i # j => rx'[j].kind \in Unasked
          /\ \A i \in 1..Len(rx') : rx'[i].kind # ">"
      BY <2>4, <3>1 DEF Taken
    <3> QED BY <3>2, <3>3
  <2>5. CASE Disconnected
    <3>1. call.awaits = "OK"
      BY <2>5 DEF Disconnected, BusyInv
    <3> QED BY <2>5, <3>1 DEF Disconnected
  <2>6. ASSUME NEW p \in Id, PeerLeft(p) PROVE SendInv'
    BY <2>6 DEF PeerLeft
  <2>7. ASSUME NEW p \in Id, NEW kind \in {"IPD", "LAST"}, PeerSaid(p, kind) PROVE SendInv'
    BY <2>7 DEF PeerSaid
  <2> QED BY <2>1, <2>2, <2>3, <2>4, <2>5, <2>6, <2>7 DEF ModuleDoes
<1> QED BY <1>1, <1>2

LEMMA ModuleQuiet ==
  ASSUME ModuleTypes, ModuleDoes, rx' \in Seq(Lines), Quiet
  PROVE  Quiet' /\ \E p \in Id : PeerLeft(p) \/ \E kind \in {"IPD", "LAST"} : PeerSaid(p, kind)
PROOF
<1>0. Grows /\ Len(rx) \in Nat
  BY ModuleAdds
<1> USE <1>0 DEF Quiet, Kinds, Unasked, Grows, Adds
<1>1. ASSUME NEW p \in Id, PeerLeft(p) PROVE Quiet'
  BY <1>1 DEF PeerLeft
<1>2. ASSUME NEW p \in Id, NEW kind \in {"IPD", "LAST"}, PeerSaid(p, kind) PROVE Quiet'
  BY <1>2 DEF PeerSaid
<1> QED BY <1>1, <1>2 DEF ModuleDoes, Refused, Opened, Prompted, Taken, Disconnected

LEMMA ModuleCloses ==
  ASSUME ModuleTypes, BusyInv, CloseInv, ModuleDoes, rx' \in Seq(Lines), UNCHANGED <<call, id_bits>>
  PROVE  CloseInv'
PROOF
<1>0. Grows /\ Len(rx) \in Nat
  BY ModuleAdds
<1>1. CASE call.op = "close" /\ call.awaits = "none"
  BY <1>1, ModuleQuiet DEF CloseInv
<1>2. CASE call.op = "close" /\ call.awaits = "OK"
  <2> USE <1>0, <1>2, IdleFacts DEF CloseInv, Kinds, Unasked, Grows, Adds, AddsTwo
  <2>1. CASE Refused
    <3>1. busy.op = "CIPCLOSE" /\ busy.id = call.id /\ call.id \notin links /\ Kinds(Unasked)
      BY <2>1 DEF Refused, BusyInv, Commands
    <3> QED BY <2>1, <3>1 DEF Refused
  <2>2. CASE Opened \/ Prompted \/ Taken
    BY <2>2 DEF Opened, Prompted, Taken
  <2>3. CASE Disconnected
    <3>1. busy.id = call.id /\ Kinds(Unasked) /\ call.try = 0
      BY <2>3 DEF Disconnected, BusyInv
    <3>2. busy' = Idle /\ busy'.op = "none" /\ call.id \notin links'
      BY <2>3, <3>1 DEF Disconnected
    <3>3. Kinds(Unasked \cup {"OK", "ERROR"})'
      BY <2>3, <3>1 DEF Disconnected
    <3>4. \A i \in 1..Len(rx') : rx'[i].kind = "OK" => i = Len(rx')
      BY <2>3, <3>1 DEF Disconnected
    <3>5. \A j \in 1..Len(rx') : j < Len(rx') => rx'[j].kind \in Unasked
      BY <2>3, <3>1 DEF Disconnected
    <3> QED BY <3>1, <3>2, <3>3, <3>4, <3>5
  <2>4. ASSUME NEW p \in Id, PeerLeft(p) PROVE CloseInv'
    BY <2>4 DEF PeerLeft
  <2>5. ASSUME NEW p \in Id, NEW kind \in {"IPD", "LAST"}, PeerSaid(p, kind) PROVE CloseInv'
    BY <2>5 DEF PeerSaid
  <2> QED BY <2>1, <2>2, <2>3, <2>4, <2>5 DEF ModuleDoes
<1>3. CASE ~(call.op = "close" /\ call.awaits \in {"none", "OK"})
  BY <1>3 DEF CloseInv
<1> QED BY <1>1, <1>2, <1>3

LEMMA ModuleStream ==
  ASSUME Types, StreamInv, Module \/ PeerAnswers \/ PeerHangsUp PROVE StreamInv'
PROOF
<1>1. ModuleTypes /\ ModuleDoes /\ rx' \in Seq(Lines) /\ UNCHANGED <<id_bits, call>>
  BY ModuleStep, ModuleLeaves DEF Types
<1> QED BY <1>1, ModuleConnects, ModuleLinks, ModulePeers, ModulePackets, ModuleSends, ModuleCloses
        DEF StreamInv

LEMMA ReadStream ==
  ASSUME ModuleTypes, ConnectThenOK, LinkInv, PeerInv, PacketInv, rx' \in Seq(Lines),
         UNCHANGED <<links, peer>>, (Reads /\ BitsAfter) \/ UNCHANGED <<rx, id_bits>>
  PROVE  ConnectThenOK' /\ LinkInv' /\ PeerInv' /\ PacketInv'
PROOF
<1>0. rx \in Seq(Lines) /\ Len(rx) \in Nat /\ links \subseteq Id
  BY DEF ModuleTypes
<1>1. CASE UNCHANGED <<rx, id_bits>>
  BY <1>1 DEF ConnectThenOK, LinkInv, EndsOpen, EndsClosed, PeerInv, PacketInv, Pending, At
<1>2. CASE Reads /\ BitsAfter
  <2>1. ConnectThenOK'
    <3> SUFFICES ASSUME NEW i \in 1..Len(rx'), rx'[i].kind = "CONNECT"
                 PROVE  i < Len(rx') /\ rx'[i + 1].kind = "OK"
      BY DEF ConnectThenOK
    <3>1. i + 1 \in 1..Len(rx) /\ rx[i + 1].kind = "CONNECT" /\ Len(rx') = Len(rx) - 1
      BY <1>0, <1>2 DEF Reads
    <3>2. i + 1 < Len(rx) /\ rx[(i + 1) + 1].kind = "OK"
      BY <3>1 DEF ConnectThenOK
    <3>3. i + 1 \in 1..Len(rx')
      BY <1>0, <3>1, <3>2
    <3> QED BY <1>0, <1>2, <3>1, <3>2, <3>3 DEF Reads
  <2>2. LinkInv'
    BY <1>0, <1>2, ReadEnds DEF LinkInv
  <2>3. PeerInv'
    BY <1>0, <1>2 DEF Reads, BitsAfter, PeerInv, Pending, At
  <2>4. PacketInv'
    <3> SUFFICES ASSUME NEW i \in 1..Len(rx'), rx'[i].kind \in {"IPD", "LAST"}
                 PROVE  /\ rx'[i].id \in id_bits'
                        /\ \A j \in 1..i-1 : rx'[j].kind = "CLOSED" => rx'[j].id # rx'[i].id
      BY DEF PacketInv, At
    <3>1. i + 1 \in 1..Len(rx) /\ rx'[i] = rx[i + 1]
      BY <1>0, <1>2 DEF Reads
    <3>2. /\ rx[i + 1].id \in id_bits
          /\ \A j \in 1..i : rx[j].kind = "CLOSED" => rx[j].id # rx[i + 1].id
      BY <3>1 DEF PacketInv, At
    <3>3. rx'[i].id \in id_bits'
      BY <1>0, <1>2, <3>1, <3>2 DEF BitsAfter
    <3>4. ASSUME NEW j \in 1..i-1 PROVE rx'[j].kind = "CLOSED" => rx'[j].id # rx'[i].id
      <4>1. j \in 1..Len(rx') /\ j + 1 \in 1..i
        BY <1>0, <1>2, <3>1 DEF Reads
      <4>2. rx'[j] = rx[j + 1]
        BY <1>2, <4>1 DEF Reads
      <4> QED BY <3>1, <3>2, <4>1, <4>2
    <3> QED BY <3>3, <3>4
  <2> QED BY <2>1, <2>2, <2>3, <2>4
<1> QED BY <1>1, <1>2

\* A driver step reads a line or leaves the lines alone.
LEMMA DriverReads ==
  ASSUME DriverDoes \/ DOpenEnter
  PROVE  UNCHANGED <<links, peer>> /\ ((Reads /\ BitsAfter) \/ UNCHANGED <<rx, id_bits>>)
PROOF
<1>1. CASE DParse
  BY <1>1 DEF DParse, BitsAfter
<1>2. CASE DOpenMatched \/ DSendPrompted \/ DSendMatched \/ DCloseMatched
  BY <1>2 DEF DOpenMatched, DOpenReturn, DSendPrompted, DSendMatched, DCloseMatched, BitsAfter
<1> QED BY <1>1, <1>2 DEF DriverDoes, DOpenEnter, DOpenTimedOut, DOpenReturn, DSendEnter,
                          DSendTimedOut, DCloseEnter, DCloseTimedOut, DRecvEnter, DRecvPolled

LEMMA DriverBusy ==
  ASSUME ModuleTypes, CallInv, BusyInv, SendInv, CloseInv, DriverDoes \/ DOpenEnter
  PROVE  BusyInv'
PROOF
<1>0. (busy = Idle => busy.op = "none") /\ (busy.op = "none" => busy = Idle)
  BY IdleFacts DEF ModuleTypes, Commands
<1> USE <1>0, NoCallFacts DEF BusyInv, GoesOn, Orders
<1>1. CASE DParse \/ DRecvEnter \/ DRecvPolled
  BY <1>1 DEF DParse, DRecvEnter, DRecvPolled
<1>2. CASE DOpenEnter \/ DOpenMatched \/ DOpenTimedOut
  BY <1>2 DEF DOpenEnter, DOpenMatched, DOpenTimedOut, DOpenReturn
<1>3. CASE DSendEnter \/ DSendTimedOut
  BY <1>3 DEF DSendEnter, DSendTimedOut
<1>4. CASE DSendPrompted
  <2>1. busy = Idle
    BY <1>4 DEF DSendPrompted, Reads, SendInv
  <2> QED BY <1>4, <2>1 DEF DSendPrompted
<1>5. CASE DSendMatched
  <2>1. busy = Idle
    BY <1>5 DEF DSendMatched, Reads, SendInv
  <2> QED BY <1>5, <2>1 DEF DSendMatched
<1>6. CASE DCloseEnter \/ DCloseTimedOut
  BY <1>6 DEF DCloseEnter, DCloseTimedOut, DRelease
<1>7. CASE DCloseMatched
  <2>1. busy = Idle
    BY <1>7 DEF DCloseMatched, Reads, CloseInv, Kinds, Unasked
  <2> QED BY <1>7, <2>1 DEF DCloseMatched, DRelease
<1> QED BY <1>1, <1>2, <1>3, <1>4, <1>5, <1>6, <1>7 DEF DriverDoes

LEMMA DriverSends ==
  ASSUME ModuleTypes, CallInv, SendInv, DriverDoes \/ DOpenEnter, rx' \in Seq(Lines)
  PROVE  SendInv'
PROOF
<1>0. (busy = Idle => busy.op = "none") /\ (busy.op = "none" => busy = Idle) /\ Len(rx) \in Nat
  BY IdleFacts DEF ModuleTypes, Commands
<1>1. call.awaits \notin {">", "SENDOK"} => \A i \in 1..Len(rx) : rx[i].kind \notin {">", "SENDOK"}
  BY DEF SendInv
<1>2. ASSUME call'.awaits # "SENDOK", \A i \in 1..Len(rx') : rx'[i].kind \notin {">", "SENDOK"}
      PROVE  SendInv'
  BY <1>2 DEF SendInv
<1>3. CASE DParse
  <2>1. /\ Len(rx') = Len(rx) - 1 /\ (\A i \in 1..Len(rx') : i + 1 \in 1..Len(rx) /\ rx'[i] = rx[i + 1])
        /\ UNCHANGED <<call, busy>>
    BY <1>0, <1>3 DEF DParse, Reads
  <2>2. ASSUME NEW i \in 1..Len(rx'), rx'[i].kind = ">"
        PROVE  /\ call'.awaits = ">" /\ busy' = Idle
               /\ \A j \in i+1..Len(rx') : rx'[j].kind \in Unasked
    <3>1. i + 1 \in 1..Len(rx) /\ rx[i + 1].kind = ">"
      BY <2>1, <2>2
    <3>2. call.awaits = ">" /\ busy = Idle /\ \A j \in (i+1)+1..Len(rx) : rx[j].kind \in Unasked
      BY <3>1 DEF SendInv
    <3>3. ASSUME NEW j \in i+1..Len(rx') PROVE rx'[j].kind \in Unasked
      <4>1. j \in 1..Len(rx') /\ j + 1 \in (i+1)+1..Len(rx)
        BY <1>0, <2>1
      <4> QED BY <2>1, <3>2, <4>1
    <3> QED BY <2>1, <3>2, <3>3
  <2>3. ASSUME NEW i \in 1..Len(rx'), rx'[i].kind = "SENDOK"
        PROVE  /\ call'.awaits = "SENDOK" /\ busy' = Idle
               /\ \A j \in 1..Len(rx') : i # j => rx'[j].kind \in Unasked
    <3>1. i + 1 \in 1..Len(rx) /\ rx[i + 1].kind = "SENDOK"
      BY <2>1, <2>3
    <3>2. call.awaits = "SENDOK" /\ busy = Idle /\ \A j \in 1..Len(rx) : i + 1 # j => rx[j].kind \in Unasked
      BY <3>1 DEF SendInv
    <3>3. ASSUME NEW j \in 1..Len(rx'), i # j PROVE rx'[j].kind \in Unasked
      <4>1. j + 1 \in 1..Len(rx) /\ i + 1 # j + 1 /\ rx'[j] = rx[j + 1]
        BY <2>1, <3>3
      <4> QED BY <3>2, <4>1
    <3> QED BY <2>1, <3>2, <3>3
  <2>4. \A K : Kinds(K) => Kinds(K)'
    BY <2>1 DEF Kinds
  <2>5. call'.awaits = "SENDOK" =>
          /\ busy'.op \in {"none", "data"}
          /\ IF busy' = Idle THEN Kinds(Unasked \cup {"SENDOK", "ERROR"})' ELSE Kinds(Unasked)'
    BY <2>1, <2>4 DEF SendInv
  <2> QED BY <2>2, <2>3, <2>5 DEF SendInv, Kinds
<1>4. CASE DOpenEnter \/ DOpenMatched \/ DOpenTimedOut
  BY <1>0, <1>1, <1>2, <1>4, NoCallFacts
     DEF DOpenEnter, DOpenMatched, DOpenTimedOut, DOpenReturn, GoesOn, Reads
<1>5. CASE DSendEnter
  BY <1>1, <1>2, <1>5, NoCallFacts DEF DSendEnter, GoesOn
<1>6. CASE DSendPrompted
  <2>1. busy = Idle /\ \A j \in 2..Len(rx) : rx[j].kind \in Unasked
    BY <1>6 DEF DSendPrompted, Reads, SendInv
  <2>2. Kinds(Unasked)'
    BY <1>0, <1>6, <2>1 DEF DSendPrompted, Reads, Kinds
  <2>3. busy' # Idle /\ busy'.op = "data" /\ call'.awaits = "SENDOK"
    BY <1>6, <2>1 DEF DSendPrompted, Orders, GoesOn
  <2> QED BY <2>2, <2>3 DEF SendInv, Kinds, Unasked
<1>7. CASE DSendMatched
  <2>1. \A j \in 2..Len(rx) : rx[j].kind \in Unasked
    BY <1>7 DEF DSendMatched, Reads, SendInv
  <2> QED BY <1>0, <1>2, <1>7, <2>1, NoCallFacts DEF DSendMatched, Reads, Unasked
<1>8. CASE DSendTimedOut
  BY <1>2, <1>8, NoCallFacts DEF DSendTimedOut, GoesOn
<1>9. CASE DCloseEnter \/ DCloseMatched \/ DCloseTimedOut
  BY <1>0, <1>1, <1>2, <1>9, NoCallFacts
     DEF DCloseEnter, DCloseMatched, DCloseTimedOut, DRelease, GoesOn, Reads
<1>10. CASE DRecvEnter \/ DRecvPolled
  BY <1>1, <1>2, <1>10, NoCallFacts DEF DRecvEnter, DRecvPolled, GoesOn
<1> QED BY <1>3, <1>4, <1>5, <1>6, <1>7, <1>8, <1>9, <1>10 DEF DriverDoes

\* When nothing is on its way, the driver knows which links are open.
LEMMA NothingOnItsWay ==
  ASSUME LinkInv, rx = <<>>, NEW id \in Id
  PROVE  id \in links <=> id \in id_bits
BY DEF LinkInv, EndsOpen, EndsClosed, Pending

LEMMA DriverCloses ==
  ASSUME ModuleTypes, CallInv, LinkInv, CloseInv, DriverDoes \/ DOpenEnter, rx' \in Seq(Lines),
         call.op = "close" => call.id \in Id
  PROVE  CloseInv'
PROOF
<1>0. /\ (busy = Idle => busy.op = "none") /\ (busy.op = "none" => busy = Idle) /\ Len(rx) \in Nat
      /\ call.try \in {0, 1}
  BY IdleFacts DEF ModuleTypes, Commands, CallInv, CallType
<1>1. ASSUME call'.op # "close" PROVE CloseInv'
  BY <1>1 DEF CloseInv
<1>2. CASE DParse
  <2>1. CASE call.op = "close"
    <3>1. call.awaits = "OK"
      BY <1>2, <2>1 DEF DParse, CallInv
    <3>2. /\ Len(rx') = Len(rx) - 1 /\ (\A i \in 1..Len(rx') : i + 1 \in 1..Len(rx) /\ rx'[i] = rx[i + 1])
          /\ UNCHANGED <<call, links, busy>>
      BY <1>0, <1>2 DEF DParse, Reads
    <3>3. IF busy = Idle THEN Kinds(Unasked \cup {"OK", "ERROR"})' /\ call.id \notin links
                         ELSE Kinds(Unasked)'
      BY <2>1, <3>1, <3>2 DEF CloseInv, Kinds
    <3>4. ASSUME NEW i \in 1..Len(rx'), NEW j \in 1..Len(rx'), rx'[i].kind = "OK"
          PROVE  /\ i < j => rx'[j].kind \in Unasked /\ rx'[j].id # call.id
                 /\ i > j => rx'[j].kind \in Unasked
      <4>1. /\ i + 1 \in 1..Len(rx) /\ j + 1 \in 1..Len(rx) /\ rx[i + 1].kind = "OK"
            /\ rx'[j] = rx[j + 1] /\ (i < j => i + 1 < j + 1) /\ (i > j => i + 1 > j + 1)
        BY <1>0, <3>2, <3>4
      <4> QED BY <2>1, <3>1, <4>1 DEF CloseInv
    <3> QED BY <2>1, <3>1, <3>2, <3>3, <3>4 DEF CloseInv
  <2>2. CASE call.op # "close"
    BY <1>1, <1>2, <2>2 DEF DParse
  <2> QED BY <2>1, <2>2
<1>3. CASE DOpenEnter \/ DOpenMatched \/ DOpenTimedOut
  BY <1>1, <1>3, NoCallFacts DEF DOpenEnter, DOpenMatched, DOpenTimedOut, DOpenReturn, GoesOn
<1>4. CASE DSendEnter \/ DSendPrompted \/ DSendMatched \/ DSendTimedOut
  BY <1>1, <1>4, NoCallFacts DEF DSendEnter, DSendPrompted, DSendMatched, DSendTimedOut, GoesOn
<1>5. CASE DRecvEnter \/ DRecvPolled
  BY <1>1, <1>5, NoCallFacts DEF DRecvEnter, DRecvPolled, GoesOn
<1>6. CASE DCloseEnter
  <2>1. CASE call.id \notin id_bits
    BY <1>1, <1>6, <2>1, NoCallFacts DEF DCloseEnter, DRelease
  <2>2. CASE call.id \in id_bits
    <3>1. Quiet /\ call.try = 0
      BY <1>0, <1>6, <2>2 DEF DCloseEnter, CloseInv
    <3>2. /\ busy' # Idle /\ busy'.op = "CIPCLOSE" /\ rx' = rx
          /\ call'.op = "close" /\ call'.awaits = "OK" /\ call'.try = 0
      BY <1>6, <2>2, <3>1 DEF DCloseEnter, Orders, GoesOn, Quiet
    <3>3. Kinds(Unasked)'
      BY <3>1, <3>2 DEF Quiet, Kinds
    <3> QED BY <3>2, <3>3 DEF CloseInv, Kinds, Unasked
  <2> QED BY <2>1, <2>2
<1>7. CASE DCloseMatched
  BY <1>1, <1>7, NoCallFacts DEF DCloseMatched, DRelease
<1>8. CASE DCloseTimedOut
  <2>1. busy = Idle /\ call.id \notin links /\ rx = <<>> /\ call.try = 0
    BY <1>0, <1>8 DEF DCloseTimedOut, CloseInv
  <2>2. call.id \notin id_bits
    BY <1>8, <2>1, NothingOnItsWay DEF DCloseTimedOut
  <2>3. /\ call'.op = "close" /\ call'.awaits = "none" /\ call'.id = call.id
        /\ UNCHANGED <<rx, busy, id_bits>>
    BY <1>8, <2>1 DEF DCloseTimedOut, GoesOn
  <2>4. Quiet'
    BY <2>1, <2>3 DEF Quiet, Kinds
  <2> QED BY <2>2, <2>3, <2>4 DEF CloseInv
<1> QED BY <1>2, <1>3, <1>4, <1>5, <1>6, <1>7, <1>8 DEF DriverDoes

LEMMA CallingStream ==
  ASSUME Types, StreamInv, Calling PROVE StreamInv'
PROOF
<1>1. /\ ModuleTypes /\ CallInv /\ (call.op = "close" => call.id \in Id)
  BY NoCallFacts DEF Types, CallInv, RequestTypes, LookingUp
<1>2. rx' \in Seq(Lines) /\ (DriverDoes \/ DOpenEnter)
  BY DriverStep
<1>3. UNCHANGED <<links, peer>> /\ ((Reads /\ BitsAfter) \/ UNCHANGED <<rx, id_bits>>)
  BY <1>2, DriverReads
<1>4. ConnectThenOK' /\ LinkInv' /\ PeerInv' /\ PacketInv'
  BY <1>1, <1>2, <1>3, ReadStream DEF StreamInv
<1> QED BY <1>1, <1>2, <1>4, DriverBusy, DriverSends, DriverCloses DEF StreamInv

LEMMA ClientStream ==
  ASSUME Types, StreamInv, PointInv, Client PROVE StreamInv'
PROOF
<1>0. call = NoCall /\ call.awaits = "none" /\ UNCHANGED <<rx, links, busy, peer, id_bits>>
  BY ClientCalls, ClientLeaves, NoCallFacts DEF Types, DriverAndModule
<1>1. Goes /\ (call' # NoCall => sock' = sock /\ (pc' # "connect" => udp' = udp))
  BY ClientGoes DEF Types
<1>2. call'.awaits = "none" /\ call'.try = 0
  BY <1>1, NoCallFacts DEF Goes, Begins, NoCall
<1>3. ConnectThenOK' /\ LinkInv' /\ PeerInv' /\ PacketInv'
  BY <1>0 DEF StreamInv, ConnectThenOK, LinkInv, EndsOpen, EndsClosed, PeerInv, PacketInv, Pending, At
<1>4. BusyInv'
  BY <1>0 DEF StreamInv, BusyInv
<1>5. SendInv'
  <2>1. \A i \in 1..Len(rx) : rx[i].kind \notin {">", "SENDOK"}
    BY <1>0 DEF StreamInv, SendInv
  <2> QED BY <1>0, <1>2, <2>1 DEF SendInv
<1>6. call'.op = "close" /\ call'.id \in id_bits => Quiet
  <2>1. CASE Begins("close", udp, "disconnect") \/ Begins("close", udp, "unlook")
    <3>1. pc \in {"query", "answer"}
      <4> USE <2>1 DEF Begins, Calls, Start, callVars, dnsVars, requestVars, Fail, Returned
      <4>1. CASE OpenRefused \/ Open \/ LookupCached \/ LookupRefused \/ Lookup \/ QueryAnotherRound
        BY <4>1 DEF OpenRefused, Open, LookupCached, LookupRefused, Lookup, QueryAnotherRound
      <4>2. CASE QueryGivesUp \/ Query \/ QueryDisconnected \/ QueryConnected \/ QueryNotSent \/ QuerySent
        BY <4>2 DEF QueryGivesUp, Query, QueryDisconnected, QueryConnected, QueryNotSent, QuerySent
      <4>3. CASE QueryReplied \/ QueryClosed \/ QueryWaits \/ QueryTimedOut \/ LookupDone \/ Connected
        BY <4>3 DEF QueryReplied, QueryClosed, QueryWaits, QueryTimedOut, LookupDone, Connected
      <4>4. CASE Sent \/ Received \/ Waits \/ RequestFails \/ RequestSucceeds
        BY <4>4 DEF Sent, Received, Waits, RequestFails, RequestSucceeds
      <4> QED BY <4>1, <4>2, <4>3, <4>4 DEF Client
    <3> QED BY <2>1, <3>1 DEF Begins, PointInv
  <2>2. CASE Begins("close", sock, "close")
    <3>1. pc = "recv"
      <4> USE <2>2 DEF Begins, Calls, Start, callVars, dnsVars, requestVars, Fail, Returned
      <4>1. CASE OpenRefused \/ Open \/ LookupCached \/ LookupRefused \/ Lookup \/ QueryAnotherRound
        BY <4>1 DEF OpenRefused, Open, LookupCached, LookupRefused, Lookup, QueryAnotherRound
      <4>2. CASE QueryGivesUp \/ Query \/ QueryDisconnected \/ QueryConnected \/ QueryNotSent \/ QuerySent
        BY <4>2 DEF QueryGivesUp, Query, QueryDisconnected, QueryConnected, QueryNotSent, QuerySent
      <4>3. CASE QueryReplied \/ QueryClosed \/ QueryWaits \/ QueryTimedOut \/ LookupDone \/ Connected
        BY <4>3 DEF QueryReplied, QueryClosed, QueryWaits, QueryTimedOut, LookupDone, Connected
      <4>4. CASE Sent \/ Received \/ Waits \/ RequestFails \/ RequestSucceeds
        BY <4>4 DEF Sent, Received, Waits, RequestFails, RequestSucceeds
      <4> QED BY <4>1, <4>2, <4>3, <4>4 DEF Client
    <3> QED BY <3>1 DEF PointInv
  <2> QED BY <1>1, <2>1, <2>2, NoCallFacts DEF Goes, Begins
<1>7. CloseInv'
  BY <1>0, <1>2, <1>6 DEF CloseInv, Quiet, Kinds
<1> QED BY <1>3, <1>4, <1>5, <1>7 DEF StreamInv

-----------------------------------------------------------------------------
\* Every close that is announced ends a connection.

LEMMA ReadAlternates ==
  ASSUME rx \in Seq(Lines), rx' \in Seq(Lines), Reads, BitsAfter, NEW id \in Id, Alternates(id)
  PROVE  Alternates(id)'
PROOF
<1>0. Len(rx) \in Nat /\ Len(rx') \in Nat
  OBVIOUS
<1> SUFFICES ASSUME NEW i \in 1..Len(rx'), rx'[i].kind = "CLOSED", rx'[i].id = id
             PROVE  \/ id \in id_bits' /\ \A j \in 1..i-1 : ~(rx'[j].kind = "CLOSED" /\ rx'[j].id = id)
                    \/ \E j \in 1..i-1 :
                         /\ rx'[j].kind = "CONNECT" /\ rx'[j].id = id
                         /\ \A k \in j+1..i-1 : ~(rx'[k].kind = "CLOSED" /\ rx'[k].id = id)
  BY DEF Alternates, At
<1>1. i + 1 \in 1..Len(rx) /\ At(i + 1, "CLOSED", id) /\ (i + 1) - 1 = i
  BY <1>0 DEF Reads, At
<1>2. \A j \in 1..i-1 : j + 1 \in 1..Len(rx) /\ rx'[j] = rx[j + 1]
  BY <1>0 DEF Reads
<1>3. \/ id \in id_bits /\ \A j \in 1..i : ~At(j, "CLOSED", id)
      \/ \E j \in 1..i : At(j, "CONNECT", id) /\ \A k \in j+1..i : ~At(k, "CLOSED", id)
  BY <1>1 DEF Alternates
<1>4. CASE id \in id_bits /\ \A j \in 1..i : ~At(j, "CLOSED", id)
  <2>1. id \in id_bits'
    BY <1>4 DEF BitsAfter, At
  <2>2. \A j \in 1..i-1 : ~(rx'[j].kind = "CLOSED" /\ rx'[j].id = id)
    BY <1>2, <1>4 DEF At
  <2> QED BY <2>1, <2>2
<1>5. ASSUME NEW j \in 1..i, At(j, "CONNECT", id), \A k \in j+1..i : ~At(k, "CLOSED", id)
      PROVE  \/ id \in id_bits' /\ \A m \in 1..i-1 : ~(rx'[m].kind = "CLOSED" /\ rx'[m].id = id)
             \/ \E m \in 1..i-1 :
                  /\ rx'[m].kind = "CONNECT" /\ rx'[m].id = id
                  /\ \A k \in m+1..i-1 : ~(rx'[k].kind = "CLOSED" /\ rx'[k].id = id)
  <2>1. CASE j = 1
    <3>1. id \in id_bits'
      BY <1>5, <2>1 DEF BitsAfter, At
    <3>2. \A m \in 1..i-1 : ~(rx'[m].kind = "CLOSED" /\ rx'[m].id = id)
      BY <1>2, <1>5, <2>1 DEF At
    <3> QED BY <3>1, <3>2
  <2>2. CASE j # 1
    <3>0. PICK m \in 1..i-1 : j = m + 1
      BY <1>5, <2>2
    <3>1. rx'[m].kind = "CONNECT" /\ rx'[m].id = id
      BY <1>2, <1>5, <3>0 DEF At
    <3>2. \A k \in m+1..i-1 : ~(rx'[k].kind = "CLOSED" /\ rx'[k].id = id)
      BY <1>2, <1>5, <3>0 DEF At
    <3> QED BY <3>0, <3>1, <3>2
  <2> QED BY <2>1, <2>2
<1> QED BY <1>3, <1>4, <1>5

LEMMA AddAlternates ==
  ASSUME rx \in Seq(Lines), rx' \in Seq(Lines), Grows, id_bits' = id_bits, NEW id \in Id,
         Alternates(id), EndsOpen(id) \/ \A i \in Added : ~At(i, "CLOSED", id)',
         \A i, j \in Added : At(i, "CLOSED", id)' /\ At(j, "CLOSED", id)' => i = j
  PROVE  Alternates(id)'
PROOF
<1>0. Len(rx) \in Nat /\ Len(rx') \in Nat
  OBVIOUS
<1> USE <1>0 DEF Grows, Added, At
<1> SUFFICES ASSUME NEW i \in 1..Len(rx'), rx'[i].kind = "CLOSED", rx'[i].id = id
             PROVE  \/ id \in id_bits' /\ \A j \in 1..i-1 : ~(rx'[j].kind = "CLOSED" /\ rx'[j].id = id)
                    \/ \E j \in 1..i-1 :
                         /\ rx'[j].kind = "CONNECT" /\ rx'[j].id = id
                         /\ \A k \in j+1..i-1 : ~(rx'[k].kind = "CLOSED" /\ rx'[k].id = id)
  BY DEF Alternates
<1>1. CASE i \in 1..Len(rx)
  <2>1. \/ id \in id_bits /\ \A j \in 1..i-1 : ~At(j, "CLOSED", id)
        \/ \E j \in 1..i-1 : At(j, "CONNECT", id) /\ \A k \in j+1..i-1 : ~At(k, "CLOSED", id)
    BY <1>1 DEF Alternates
  <2>2. \A j \in 1..i-1 : rx'[j] = rx[j]
    BY <1>1
  <2> QED BY <1>1, <2>1, <2>2
<1>2. CASE i \in Added
  <2>0. \A j \in Added : j < i => ~(rx'[j].kind = "CLOSED" /\ rx'[j].id = id)
    BY <1>2
  <2>1. CASE id \in id_bits /\ ~Pending("CLOSED", id)
    <3>1. \A j \in 1..i-1 : ~(rx'[j].kind = "CLOSED" /\ rx'[j].id = id)
      BY <1>2, <2>0, <2>1 DEF Pending
    <3> QED BY <2>1, <3>1
  <2>2. ASSUME NEW j \in 1..Len(rx), At(j, "CONNECT", id), \A k \in j+1..Len(rx) : ~At(k, "CLOSED", id)
        PROVE  \E m \in 1..i-1 :
                  /\ rx'[m].kind = "CONNECT" /\ rx'[m].id = id
                  /\ \A k \in m+1..i-1 : ~(rx'[k].kind = "CLOSED" /\ rx'[k].id = id)
    <3>1. j \in 1..i-1 /\ rx'[j].kind = "CONNECT" /\ rx'[j].id = id
      BY <1>2, <2>2
    <3>2. \A k \in j+1..i-1 : ~(rx'[k].kind = "CLOSED" /\ rx'[k].id = id)
      BY <1>2, <2>0, <2>2
    <3> QED BY <3>1, <3>2
  <2>3. EndsOpen(id)
    BY <1>2
  <2> QED BY <2>1, <2>2, <2>3 DEF EndsOpen
<1> QED BY <1>1, <1>2

\* A connection that was refused stays so.
LEMMA ModuleDoomed ==
  ASSUME Types, StreamInv, Doomed, ModuleDoes, rx' \in Seq(Lines), UNCHANGED <<pc, sock, call, ret>>
  PROVE  Doomed'
PROOF
<1>0. Grows /\ Len(rx) \in Nat /\ CallInv /\ BusyInv
  BY ModuleAdds DEF Types, StreamInv
<1> USE <1>0, IdleFacts DEF Doomed, Grows, Adds, AddsTwo
<1>1. CASE Refused
  BY <1>1 DEF Refused
<1>2. CASE Opened
  BY <1>2 DEF Opened
<1>3. CASE Prompted
  <2>1. call.awaits = ">" /\ call.id \in links
    BY <1>3 DEF Prompted, BusyInv
  <2>2. call.id = sock
    BY <2>1, NoCallFacts DEF CallInv
  <2> QED BY <2>1, <2>2
<1>4. CASE Taken
  BY <1>4 DEF Taken, BusyInv
<1>5. CASE Disconnected
  BY <1>5 DEF Disconnected
<1>6. ASSUME NEW p \in Id, PeerLeft(p) PROVE Doomed'
  BY <1>6 DEF PeerLeft
<1>7. ASSUME NEW p \in Id, NEW kind \in {"IPD", "LAST"}, PeerSaid(p, kind) PROVE Doomed'
  BY <1>7 DEF PeerSaid
<1> QED BY <1>1, <1>2, <1>3, <1>4, <1>5, <1>6, <1>7 DEF ModuleDoes

LEMMA ModuleAlternates ==
  ASSUME Types, StreamInv, AlternateInv, SlowInv, PointInv, Module \/ PeerAnswers \/ PeerHangsUp
  PROVE  AlternateInv'
PROOF
<1>0. /\ ModuleTypes /\ ModuleDoes /\ rx' \in Seq(Lines) /\ rx \in Seq(Lines)
      /\ UNCHANGED <<id_bits, pc, sock, call, ret, lost>> /\ links \subseteq Id
  BY ModuleStep, ModuleLeaves DEF Types, ModuleTypes
<1>1. Grows /\ Len(rx) \in Nat
  BY <1>0, ModuleAdds
<1> SUFFICES ASSUME NEW id \in Id \ lost PROVE Alternates(id)' \/ (id = sock /\ Doomed')
  BY <1>0 DEF AlternateInv
<1>2. CASE id = sock /\ Doomed
  BY <1>0, <1>2, ModuleDoomed
<1>3. CASE Alternates(id)
  <2>1. ASSUME EndsOpen(id) \/ \A i \in Added : ~At(i, "CLOSED", id)',
               \A i, j \in Added : At(i, "CLOSED", id)' /\ At(j, "CLOSED", id)' => i = j
        PROVE  Alternates(id)'
    BY <1>0, <1>1, <1>3, <2>1, AddAlternates
  <2>2. ASSUME NEW gone \in links, Adds("CLOSED", gone) \/ AddsTwo("CLOSED", gone, "OK", None)
        PROVE  Alternates(id)'
    <3>1. \A i, j \in Added : At(i, "CLOSED", id)' /\ At(j, "CLOSED", id)' => i = j
      BY <1>1, <2>2 DEF Adds, AddsTwo, Added, At
    <3>2. CASE id = gone
      BY <2>1, <2>2, <3>1, <3>2 DEF StreamInv, LinkInv
    <3>3. CASE id # gone
      <4>1. \A i \in Added : ~At(i, "CLOSED", id)'
        BY <1>1, <2>2, <3>3 DEF Adds, AddsTwo, Added, At
      <4> QED BY <2>1, <3>1, <4>1
    <3> QED BY <3>2, <3>3
  <2>3. ASSUME \A i \in Added : ~At(i, "CLOSED", id)' PROVE Alternates(id)'
    BY <2>1, <2>3
  <2>4. CASE Refused
    <3>1. CASE busy.op = "TCP" /\ busy.id = id /\ id \notin links
      <4>1. busy.id = sock /\ pc \in {"connect", "send"} /\ (call.op = "TCP" => call.awaits = "OK")
        BY <3>1 DEF SlowInv
      <4>2. \A i \in 1..Len(rx) : rx[i].kind # ">"
        BY <2>4 DEF StreamInv, SendInv, Refused
      <4>3. \A i \in 1..Len(rx') : rx'[i].kind # ">"
        BY <1>1, <2>4, <4>2 DEF Refused, Adds, AddsTwo, Grows
      <4>4. call.awaits # "SENDOK"
        BY <3>1 DEF StreamInv, SendInv
      <4>5. pc = "send" /\ call = NoCall => ret # "true"
        BY <2>4 DEF PointInv, Quiet, Refused
      <4>6. busy' = Idle /\ links' = links
        BY <2>4 DEF Refused
      <4>7. Doomed'
        BY <1>0, <3>1, <4>1, <4>3, <4>4, <4>5, <4>6, IdleFacts DEF Doomed
      <4> QED BY <3>1, <4>1, <4>7
    <3>2. CASE ~(busy.op = "TCP" /\ busy.id = id /\ id \notin links)
      <4>1. \A i \in Added : ~At(i, "CLOSED", id)'
        BY <1>1, <2>4, <3>2 DEF Refused, Adds, AddsTwo, Added, At
      <4> QED BY <2>3, <4>1
    <3> QED BY <3>1, <3>2
  <2>5. CASE Opened \/ Prompted \/ Taken
    <3>1. \A i \in Added : ~At(i, "CLOSED", id)'
      BY <1>1, <2>5 DEF Opened, Prompted, Taken, Adds, AddsTwo, Added, At
    <3> QED BY <2>3, <3>1
  <2>6. CASE Disconnected
    BY <2>2, <2>6 DEF Disconnected
  <2>7. ASSUME NEW p \in Id, PeerLeft(p) PROVE Alternates(id)'
    BY <2>2, <2>7 DEF PeerLeft
  <2>8. ASSUME NEW p \in Id, NEW kind \in {"IPD", "LAST"}, PeerSaid(p, kind) PROVE Alternates(id)'
    <3>1. \A i \in Added : ~At(i, "CLOSED", id)'
      BY <1>1, <2>8 DEF PeerSaid, Adds, Added, At
    <3> QED BY <2>3, <3>1
  <2> QED BY <1>0, <2>4, <2>5, <2>6, <2>7, <2>8 DEF ModuleDoes
<1> QED BY <1>2, <1>3 DEF AlternateInv

LEMMA CallingAlternates ==
  ASSUME Types, AlternateInv, Calling PROVE AlternateInv'
PROOF
<1>0. /\ ModuleTypes /\ CallInv /\ rx \in Seq(Lines) /\ rx' \in Seq(Lines) /\ (DriverDoes \/ DOpenEnter)
      /\ UNCHANGED <<pc, sock, lost>>
  BY DriverStep, CallingLeaves DEF Types, ModuleTypes
<1>1. UNCHANGED links /\ ((Reads /\ BitsAfter) \/ UNCHANGED <<rx, id_bits>>)
  BY <1>0, DriverReads
<1>2. ASSUME NEW id \in Id, Alternates(id) PROVE Alternates(id)'
  <2>1. CASE UNCHANGED <<rx, id_bits>>
    BY <1>2, <2>1 DEF Alternates, At
  <2>2. CASE Reads /\ BitsAfter
    BY <1>0, <1>2, <2>2, ReadAlternates
  <2> QED BY <1>1, <2>1, <2>2
<1>3. ASSUME Doomed PROVE Doomed'
  <2>1. \A i \in 1..Len(rx') : rx'[i].kind # ">"
    BY <1>0, <1>1, <1>3 DEF Doomed, Reads
  <2>2. call # NoCall /\ call.op \in {"TCP", "send"} /\ (call.op = "TCP" => pc = "connect" /\ call.awaits = "OK")
    <3>1. call # NoCall
      BY <1>0, NoCallFacts DEF DriverDoes, DParse, DOpenEnter, DOpenMatched, DOpenTimedOut, DOpenReturn,
            DSendEnter, DSendPrompted, DSendMatched, DSendTimedOut, DCloseEnter, DCloseMatched,
            DCloseTimedOut, DRecvEnter, DRecvPolled
    <3> QED BY <1>0, <1>3, <3>1 DEF CallInv, Doomed
  <2>3. ASSUME busy' = busy, call' = call, ret' = ret PROVE Doomed'
    BY <1>0, <1>1, <1>3, <2>1, <2>3 DEF Doomed
  <2>4. CASE DParse
    BY <2>3, <2>4 DEF DParse
  <2>5. CASE DOpenMatched \/ DOpenTimedOut
    BY <1>0, <1>1, <1>3, <2>1, <2>2, <2>5, NoCallFacts
       DEF DOpenMatched, DOpenTimedOut, DOpenReturn, Doomed, CallInv
  <2>6. CASE DSendEnter
    <3>1. busy'.op \notin {"TCP", "UDP"}
      BY <1>3, <2>6 DEF DSendEnter, Orders, Doomed
    <3> QED BY <1>0, <1>1, <1>3, <2>1, <2>6, <3>1, NoCallFacts DEF DSendEnter, GoesOn, Doomed
  <2>7. CASE DSendTimedOut
    BY <1>0, <1>1, <1>3, <2>1, <2>7, NoCallFacts DEF DSendTimedOut, GoesOn, Doomed
  <2>8. CASE DSendPrompted \/ DSendMatched
    BY <1>3, <2>8 DEF DSendPrompted, DSendMatched, Reads, Doomed
  <2> QED BY <1>0, <2>2, <2>4, <2>5, <2>6, <2>7, <2>8 DEF DriverDoes, DOpenEnter, DCloseEnter,
        DCloseMatched, DCloseTimedOut, DRecvEnter, DRecvPolled
<1> QED BY <1>0, <1>2, <1>3 DEF AlternateInv

\* The steps that are possible while a request connects and sends.
LEMMA ClientConnects ==
  ASSUME Client, pc \in {"connect", "send"} PROVE Connected \/ RequestFails \/ Sent
BY DEF Client, OpenRefused, Open, LookupCached, LookupRefused, Lookup, QueryAnotherRound,
       QueryGivesUp, Query, QueryDisconnected, QueryConnected, QueryNotSent, QuerySent,
       QueryReplied, QueryClosed, QueryWaits, QueryTimedOut, LookupDone, Received, Waits,
       RequestSucceeds, Returned

\* Sockets that are lost stay so.
LEMMA ClientLoses ==
  ASSUME Client PROVE lost \subseteq lost'
PROOF
<1>1. CASE LookupRefused \/ LookupDone \/ RequestFails \/ Received
  BY <1>1 DEF LookupRefused, LookupDone, RequestFails, Received, Fail
<1>2. CASE OpenRefused \/ Open \/ LookupCached \/ Lookup \/ QueryAnotherRound \/ QueryGivesUp
  BY <1>2 DEF OpenRefused, Open, LookupCached, Lookup, QueryAnotherRound, QueryGivesUp
<1>3. CASE Query \/ QueryDisconnected \/ QueryConnected \/ QueryNotSent \/ QuerySent
  BY <1>3 DEF Query, QueryDisconnected, QueryConnected, QueryNotSent, QuerySent
<1>4. CASE QueryReplied \/ QueryClosed \/ QueryWaits \/ QueryTimedOut
  BY <1>4 DEF QueryReplied, QueryClosed, QueryWaits, QueryTimedOut
<1>5. CASE Connected \/ Sent \/ Waits \/ RequestSucceeds
  BY <1>5 DEF Connected, Sent, Waits, RequestSucceeds
<1> QED BY <1>1, <1>2, <1>3, <1>4, <1>5 DEF Client

LEMMA ClientAlternates ==
  ASSUME Types, AlternateInv, Client PROVE AlternateInv'
PROOF
<1>0. call = NoCall /\ UNCHANGED <<rx, id_bits, links, busy>>
  BY ClientCalls, ClientLeaves DEF Types, DriverAndModule
<1>1. \A id \in Id : Alternates(id) => Alternates(id)'
  BY <1>0 DEF Alternates, At
<1>2. lost \subseteq lost'
  BY ClientLoses
<1>3. ASSUME Doomed PROVE sock \in lost' \/ (sock' = sock /\ Doomed')
  <2>0. pc \in {"connect", "send"}
    BY <1>3 DEF Doomed
  <2>1. CASE Connected
    BY <1>0, <1>3, <2>1, NoCallFacts DEF Connected, Calls, Start, Doomed
  <2>2. CASE RequestFails
    BY <2>2 DEF RequestFails, Fail
  <2>3. CASE Sent
    BY <1>0, <1>3, <2>3 DEF Sent, Returned, Doomed
  <2>4. Connected \/ RequestFails \/ Sent
    BY <2>0, ClientConnects
  <2> QED BY <2>1, <2>2, <2>3, <2>4
<1> QED BY <1>1, <1>2, <1>3 DEF AlternateInv

-----------------------------------------------------------------------------
\* A slow connection.

\* A lookup under way goes on with the same socket, or has just begun.
LEMMA ClientLooksUp ==
  ASSUME Client, LookingUp' PROVE Lookup \/ (LookingUp /\ udp' = udp /\ sock' = sock /\ lost' = lost)
PROOF
<1> USE DEF LookingUp, Calls, Start, callVars, dnsVars, requestVars, Fail, Returned
<1>1. CASE OpenRefused \/ Open \/ LookupCached \/ LookupRefused \/ QueryAnotherRound
  BY <1>1 DEF OpenRefused, Open, LookupCached, LookupRefused, QueryAnotherRound
<1>2. CASE QueryGivesUp \/ Query \/ QueryDisconnected \/ QueryConnected \/ QueryNotSent \/ QuerySent
  BY <1>2 DEF QueryGivesUp, Query, QueryDisconnected, QueryConnected, QueryNotSent, QuerySent
<1>3. CASE QueryReplied \/ QueryClosed \/ QueryWaits \/ QueryTimedOut \/ LookupDone \/ Connected
  BY <1>3 DEF QueryReplied, QueryClosed, QueryWaits, QueryTimedOut, LookupDone, Connected
<1>4. CASE Sent \/ Received \/ Waits \/ RequestFails \/ RequestSucceeds
  BY <1>4 DEF Sent, Received, Waits, RequestFails, RequestSucceeds
<1> QED BY <1>1, <1>2, <1>3, <1>4 DEF Client

\* The socket a lookup gets has no past.
LEMMA LookupUntouched ==
  ASSUME Types, OwnerInv, SpareInv, Lookup
  PROVE  /\ udp' \in Id \ (lost \cup {sock}) /\ Untouched(udp') /\ sock \in Id
         /\ \A j \in Id \ (lost \cup {sock}) : udp' <= j
PROOF
<1>0. /\ pc = "lookup" /\ get_free_id # {} /\ udp' = Lowest(get_free_id) /\ udp = None /\ None \notin Id
      /\ sock \in Id /\ lost \subseteq ids /\ sock \in ids /\ ids \subseteq lost \cup {sock, udp}
  BY NoneIsNoId DEF Lookup, Types, RequestTypes, LookingUp, OwnerInv, OwnersDistinct
<1>1. udp' \in get_free_id /\ \A j \in get_free_id : udp' <= j
  BY <1>0, LowestIsLeast, FreeIds
<1>2. ASSUME NEW j \in Id \ (lost \cup {sock}) PROVE Untouched(j)
  BY <1>0, <1>2 DEF SpareInv, Heir
<1>3. ASSUME NEW j \in Id \ (lost \cup {sock}) PROVE j \in get_free_id
  BY <1>0, <1>2, <1>3 DEF get_free_id, Untouched, Forgotten
<1>4. udp' \in Id \ (lost \cup {sock})
  BY <1>0, <1>1 DEF get_free_id
<1> QED BY <1>0, <1>1, <1>2, <1>3, <1>4

LEMMA ModuleSlow ==
  ASSUME Types, SlowInv, Module \/ PeerAnswers \/ PeerHangsUp PROVE SlowInv'
PROOF
<1>0. /\ ModuleTypes /\ ModuleDoes /\ rx' \in Seq(Lines)
      /\ UNCHANGED <<id_bits, pc, sock, udp, call, lost>>
  BY ModuleStep, ModuleLeaves DEF Types
<1>1. Grows /\ Len(rx) \in Nat
  BY <1>0, ModuleAdds
<1> SUFFICES ASSUME busy'.op = "TCP"
             PROVE  /\ busy' = busy /\ \A i \in 1..Len(rx') : rx'[i].kind = "CONNECT" => i \in 1..Len(rx)
  BY <1>0, <1>1 DEF SlowInv, LookingUp, Pending, At, Grows
<1>2. \E p \in Id : PeerLeft(p) \/ \E kind \in {"IPD", "LAST"} : PeerSaid(p, kind)
  BY <1>0, IdleFacts DEF ModuleDoes, Refused, Opened, Prompted, Taken, Disconnected
<1> QED BY <1>1, <1>2 DEF PeerLeft, PeerSaid, Adds

LEMMA CallingSlow ==
  ASSUME Types, SlowInv, Calling PROVE SlowInv'
PROOF
<1>0. /\ ModuleTypes /\ CallInv /\ rx \in Seq(Lines) /\ rx' \in Seq(Lines) /\ (DriverDoes \/ DOpenEnter)
      /\ UNCHANGED <<pc, sock, udp, lost>>
  BY DriverStep, CallingLeaves DEF Types, ModuleTypes
<1>1. (Reads /\ BitsAfter) \/ UNCHANGED <<rx, id_bits>>
  BY <1>0, DriverReads
<1>2. udp \notin id_bits /\ ~Pending("CONNECT", udp) => udp \notin id_bits' /\ ~Pending("CONNECT", udp)'
  BY <1>0, <1>1 DEF Reads, BitsAfter, Pending, At
<1> SUFFICES ASSUME busy'.op = "TCP" PROVE SlowInv'
  BY DEF SlowInv
<1>3. ASSUME busy' = busy, call'.op = "TCP" => call.op = "TCP" /\ call'.awaits \in {call.awaits, "OK"}
      PROVE  SlowInv'
  BY <1>0, <1>2, <1>3 DEF SlowInv, LookingUp
<1>4. CASE DOpenEnter
  <2>1. CASE busy = Idle
    <3>1. /\ busy'.id = call.id /\ call.op = "TCP" /\ call'.awaits = "OK"
      BY <1>4, <2>1 DEF DOpenEnter, Orders, GoesOn
    <3>2. pc = "connect" /\ call.id = sock
      BY <1>0, <3>1, NoCallFacts DEF CallInv
    <3> QED BY <1>0, <3>1, <3>2 DEF SlowInv, LookingUp
  <2>2. CASE busy # Idle
    BY <1>3, <1>4, <2>2 DEF DOpenEnter, Orders, GoesOn
  <2> QED BY <2>1, <2>2
<1>5. CASE DParse \/ DOpenMatched \/ DOpenTimedOut
  BY <1>3, <1>5, NoCallFacts DEF DParse, DOpenMatched, DOpenTimedOut, DOpenReturn
<1>6. CASE DSendEnter \/ DSendPrompted \/ DSendMatched \/ DSendTimedOut
  BY <1>3, <1>6, NoCallFacts DEF DSendEnter, DSendPrompted, DSendMatched, DSendTimedOut, GoesOn, Orders
<1>7. CASE DCloseEnter \/ DCloseMatched \/ DCloseTimedOut
  BY <1>3, <1>7, NoCallFacts DEF DCloseEnter, DCloseMatched, DCloseTimedOut, DRelease, GoesOn, Orders
<1>8. CASE DRecvEnter \/ DRecvPolled
  BY <1>3, <1>8, NoCallFacts DEF DRecvEnter, DRecvPolled, GoesOn
<1> QED BY <1>0, <1>4, <1>5, <1>6, <1>7, <1>8 DEF DriverDoes

LEMMA ClientSlow ==
  ASSUME Types, OwnerInv, SlowInv, PointInv, SpareInv, Client PROVE SlowInv'
PROOF
<1>0. call = NoCall /\ UNCHANGED <<rx, id_bits, busy>>
  BY ClientCalls, ClientLeaves DEF Types, DriverAndModule
<1> SUFFICES ASSUME busy.op = "TCP" PROVE SlowInv'
  BY <1>0 DEF SlowInv
<1>1. CASE busy.id \in lost
  <2>1. busy'.id \in lost'
    BY <1>0, <1>1, ClientLoses
  <2>2. LookingUp' => udp' \notin id_bits' /\ ~Pending("CONNECT", udp)'
    <3> SUFFICES ASSUME LookingUp' PROVE udp' \notin id_bits /\ \A i \in 1..Len(rx) : ~At(i, "CONNECT", udp')
      BY <1>0 DEF Pending, At
    <3>1. CASE Lookup
      BY <3>1, LookupUntouched DEF Untouched, Forgotten, At
    <3>2. CASE LookingUp /\ udp' = udp
      BY <3>2 DEF SlowInv, Pending
    <3> QED BY <3>1, <3>2, ClientLooksUp
  <2> QED BY <2>1, <2>2 DEF SlowInv, Pending, At
<1>2. CASE busy.id = sock /\ pc \in {"connect", "send"}
  <2>1. CASE Connected
    BY <1>0, <1>2, <2>1 DEF Connected, Calls, Start, SlowInv, LookingUp
  <2>2. CASE RequestFails
    BY <1>0, <1>2, <2>2 DEF RequestFails, Fail, SlowInv, LookingUp
  <2>3. CASE Sent
    BY <1>0, <2>3, IdleFacts DEF Sent, Returned, PointInv, Quiet
  <2> QED BY <1>2, <2>1, <2>2, <2>3, ClientConnects
<1> QED BY <1>1, <1>2 DEF SlowInv

-----------------------------------------------------------------------------
\* What the request may rely on.

LEMMA ModulePoints ==
  ASSUME Types, PointInv, Module \/ PeerAnswers \/ PeerHangsUp PROVE PointInv'
PROOF
<1>0. /\ ModuleTypes /\ ModuleDoes /\ rx' \in Seq(Lines) /\ rx \in Seq(Lines)
      /\ UNCHANGED <<id_bits, id_close, packets, call, ret, pc, sock, udp, udpAddr, resolved>>
  BY ModuleStep, ModuleLeaves DEF Types, ModuleTypes
<1>1. Quiet => Quiet'
  BY <1>0, ModuleQuiet
<1>2. rx # <<>> => rx' # <<>> /\ rx'[1] = rx[1]
  <2>1. Grows /\ Len(rx) \in Nat
    BY <1>0, ModuleAdds
  <2> QED BY <1>0, <2>1 DEF Grows
<1>3. busy.op # "TCP" => busy'.op # "TCP"
  BY <1>0, IdleFacts DEF ModuleDoes, Refused, Opened, Prompted, Taken, Disconnected, PeerSaid, PeerLeft
<1>4. \A id \in {sock, udp} : Forgotten(id) => Forgotten(id)'
  BY <1>0 DEF Forgotten
<1> QED BY <1>0, <1>1, <1>2, <1>3, <1>4 DEF PointInv

\* close() has taken the end of the link from the module.
LEMMA CloseMatchedQuiet ==
  ASSUME Types, StreamInv, DCloseMatched, rx' \in Seq(Lines)
  PROVE  Quiet' /\ call.id \notin id_bits /\ call.id \notin links
PROOF
<1>0. rx \in Seq(Lines) /\ Len(rx) \in Nat /\ rx[1].kind = "OK" /\ 1 \in 1..Len(rx) /\ call.id \in Id
  BY NoCallFacts DEF Types, ModuleTypes, CallInv, RequestTypes, LookingUp, DCloseMatched, Reads
<1>1. call.op = "close" /\ call.awaits = "OK"
  BY DEF DCloseMatched
<1>2. busy = Idle /\ call.id \notin links
  BY <1>0, <1>1 DEF StreamInv, CloseInv, Kinds, Unasked
<1>3. \A j \in 1..Len(rx) : 1 < j => rx[j].kind \in Unasked /\ rx[j].id # call.id
  BY <1>0, <1>1 DEF StreamInv, CloseInv
<1>4. Quiet'
  BY <1>0, <1>2, <1>3 DEF DCloseMatched, Reads, Quiet, Kinds
<1>5. EndsClosed(call.id)
  BY <1>0, <1>2 DEF StreamInv, LinkInv
<1>6. \A i \in 1..Len(rx) : ~At(i, "CLOSED", call.id)
  BY <1>0, <1>3 DEF At
<1>7. call.id \notin id_bits
  BY <1>5, <1>6 DEF EndsClosed
<1> QED BY <1>2, <1>4, <1>7

\* The module has nothing more to say about the question or the request.
LEMMA SendMatchedQuiet ==
  ASSUME Types, StreamInv, DSendMatched, rx' \in Seq(Lines) PROVE Quiet'
PROOF
<1>0. rx \in Seq(Lines) /\ Len(rx) \in Nat /\ rx[1].kind = "SENDOK" /\ 1 \in 1..Len(rx)
  BY DEF Types, ModuleTypes, DSendMatched, Reads
<1>1. busy = Idle /\ \A j \in 1..Len(rx) : 1 # j => rx[j].kind \in Unasked
  BY <1>0 DEF StreamInv, SendInv
<1> QED BY <1>0, <1>1 DEF DSendMatched, Reads, Quiet, Kinds

LEMMA ReconnectPoints ==
  ASSUME Types, OwnerInv, StreamInv, AlternateInv, PointInv, Calling, pc = "reconnect"
  PROVE  PointInv'
PROOF
<1>0. /\ rx \in Seq(Lines) /\ rx' \in Seq(Lines) /\ (DriverDoes \/ DOpenEnter) /\ Len(rx) \in Nat
      /\ UNCHANGED <<pc, sock, udp, udpAddr, resolved, lost>> /\ CallInv
  BY DriverStep, CallingLeaves DEF Types, ModuleTypes
<1>1. /\ call.op = "UDP" /\ call.id = udp /\ call.awaits \in {"none", "OK"} /\ call # NoCall
      /\ udp \in Id /\ udp \notin lost /\ udp # sock /\ ~resolved
  <2>1. call # NoCall
      BY <1>0, NoCallFacts DEF DriverDoes, DParse, DOpenEnter, DOpenMatched, DOpenTimedOut, DOpenReturn,
            DSendEnter, DSendPrompted, DSendMatched, DSendTimedOut, DCloseEnter, DCloseMatched,
            DCloseTimedOut, DRecvEnter, DRecvPolled
  <2> QED BY <1>0, <2>1, NoneIsNoId DEF CallInv, Types, RequestTypes, LookingUp, OwnerInv, OwnersDistinct, PointInv
<1>2. udp \notin id_close
  BY DEF PointInv
<1>3. CASE DParse
  <2>1. call.awaits = "OK" /\ rx[1].kind # "OK" /\ call' = call /\ Reads /\ 1 \in 1..Len(rx)
    BY <1>0, <1>1, <1>3 DEF DParse, Reads
  <2>2. udp \notin id_bits
    BY <2>1 DEF PointInv
  <2>3. Alternates(udp)
    BY <1>1 DEF AlternateInv
  <2>4. ~At(1, "CLOSED", udp)
    <3>1. 1..1-1 = {}
      OBVIOUS
    <3> QED BY <2>1, <2>2, <2>3, <3>1 DEF Alternates
  <2>5. udp \notin id_close'
    BY <1>2, <1>3, <2>4 DEF DParse, At
  <2>6. udp \in id_bits' => rx' # <<>> /\ rx'[1].kind = "OK"
    <3> SUFFICES ASSUME udp \in id_bits' PROVE rx' # <<>> /\ rx'[1].kind = "OK"
      OBVIOUS
    <3>1. rx[1].kind = "CONNECT"
      BY <1>3, <2>2 DEF DParse
    <3>2. 1 < Len(rx) /\ rx[1 + 1].kind = "OK"
      BY <2>1, <3>1 DEF StreamInv, ConnectThenOK
    <3> QED BY <1>0, <2>1, <3>2 DEF Reads
  <2> QED BY <1>0, <1>1, <2>1, <2>5, <2>6 DEF PointInv
<1>4. CASE DOpenEnter
  <2>1. udp \notin id_bits /\ UNCHANGED <<id_bits, id_close>> /\ call'.awaits = "OK" /\ call' # NoCall
    BY <1>1, <1>4 DEF DOpenEnter, GoesOn, PointInv
  <2> QED BY <1>0, <1>1, <1>2, <2>1 DEF PointInv
<1>5. CASE DOpenMatched
  <2>1. call' = NoCall /\ ret' = "true" /\ UNCHANGED id_close
    BY <1>5 DEF DOpenMatched, DOpenReturn
  <2> QED BY <1>0, <1>1, <1>2, <2>1, NoCallFacts DEF PointInv
<1>6. CASE DOpenTimedOut
  <2>1. /\ rx = <<>> /\ call.awaits = "OK" /\ call' = NoCall /\ UNCHANGED <<id_bits, id_close>>
        /\ packets' = clear_socket_packets(udp)
    BY <1>1, <1>6 DEF DOpenTimedOut, DOpenReturn
  <2>2. udp \notin id_bits
    BY <2>1 DEF PointInv
  <2>3. Forgotten(udp)'
    BY <1>0, <1>2, <2>1, <2>2 DEF Forgotten, clear_socket_packets
  <2> QED BY <1>0, <1>1, <1>2, <2>1, <2>3, NoCallFacts DEF PointInv
<1> QED BY <1>0, <1>1, <1>3, <1>4, <1>5, <1>6 DEF DriverDoes, DSendEnter, DSendPrompted, DSendMatched,
        DSendTimedOut, DCloseEnter, DCloseMatched, DCloseTimedOut, DRecvEnter, DRecvPolled

LEMMA ClosePoints ==
  ASSUME Types, StreamInv, PointInv, Calling, call.op = "close"
  PROVE  PointInv'
PROOF
<1>0. /\ rx \in Seq(Lines) /\ rx' \in Seq(Lines) /\ (DriverDoes \/ DOpenEnter) /\ Len(rx) \in Nat
      /\ UNCHANGED <<pc, sock, udp, udpAddr, resolved>>
  BY DriverStep, CallingLeaves DEF Types, ModuleTypes
<1>1. /\ \/ pc \in {"disconnect", "unlook"} /\ call.id = udp
         \/ pc = "close" /\ call.id = sock
      /\ call.awaits \in {"none", "OK"} /\ call.id \in Id
  BY NoCallFacts DEF Types, CallInv, RequestTypes, LookingUp
<1>2. resolved => pc = "unlook"
  BY DEF PointInv
<1>3. ASSUME call'.awaits # "none" PROVE PointInv'
  BY <1>0, <1>1, <1>2, <1>3, NoCallFacts DEF PointInv
<1>4. ASSUME call' # NoCall, Quiet' PROVE PointInv'
  BY <1>0, <1>1, <1>2, <1>4 DEF PointInv
<1>5. ASSUME call' = NoCall, Forgotten(udp)' \/ call.id # udp, Forgotten(sock)' \/ call.id # sock,
             pc = "close" \/ resolved => Quiet'
      PROVE  PointInv'
  BY <1>0, <1>1, <1>2, <1>5, NoCallFacts DEF PointInv
<1>6. CASE DParse
  BY <1>3, <1>6 DEF DParse
<1>7. CASE DCloseEnter
  <2>1. CASE call.id \in id_bits
    BY <1>3, <1>7, <2>1 DEF DCloseEnter, GoesOn
  <2>2. CASE call.id \notin id_bits
    <3>1. /\ id_bits' = id_bits /\ id_close' = id_close \ {call.id} /\ rx' = rx /\ busy' = busy
          /\ packets' = clear_socket_packets(call.id) /\ call' = NoCall /\ call.awaits = "none"
      BY <1>7, <2>2 DEF DCloseEnter, DRelease
    <3>2. pc = "close" \/ resolved => Quiet'
      BY <3>1 DEF PointInv, Quiet, Kinds
    <3>3. (Forgotten(udp)' \/ call.id # udp) /\ (Forgotten(sock)' \/ call.id # sock)
      BY <1>0, <2>2, <3>1 DEF Forgotten, clear_socket_packets
    <3> QED BY <1>5, <3>1, <3>2, <3>3
  <2> QED BY <2>1, <2>2
<1>8. CASE DCloseMatched
  <2>1. Quiet' /\ call.id \notin id_bits
    BY <1>0, <1>8, CloseMatchedQuiet
  <2>2. /\ id_bits' = id_bits /\ id_close' = id_close \ {call.id}
        /\ packets' = clear_socket_packets(call.id) /\ call' = NoCall
    BY <1>8 DEF DCloseMatched, DRelease
  <2>3. (Forgotten(udp)' \/ call.id # udp) /\ (Forgotten(sock)' \/ call.id # sock)
    BY <1>0, <2>1, <2>2 DEF Forgotten, clear_socket_packets
  <2> QED BY <1>5, <2>1, <2>2, <2>3
<1>9. CASE DCloseTimedOut
  <2>1. busy = Idle /\ rx = <<>> /\ call.try = 0
    BY <1>9 DEF DCloseTimedOut, StreamInv, CloseInv
  <2>2. call' # NoCall /\ UNCHANGED <<rx, busy>>
    BY <1>9, <2>1 DEF DCloseTimedOut, GoesOn
  <2>3. Quiet'
    BY <2>1, <2>2 DEF Quiet, Kinds
  <2> QED BY <1>4, <2>2, <2>3
<1> QED BY <1>0, <1>6, <1>7, <1>8, <1>9 DEF DriverDoes, DOpenEnter, DOpenMatched, DOpenTimedOut,
        DOpenReturn, DSendEnter, DSendPrompted, DSendMatched, DSendTimedOut, DRecvEnter, DRecvPolled

LEMMA SendPoints ==
  ASSUME Types, StreamInv, SlowInv, PointInv, Calling, call.op = "send"
  PROVE  PointInv'
PROOF
<1>0. /\ rx \in Seq(Lines) /\ rx' \in Seq(Lines) /\ (DriverDoes \/ DOpenEnter) /\ Len(rx) \in Nat
      /\ UNCHANGED <<pc, sock, udp, udpAddr, resolved>>
  BY DriverStep, CallingLeaves DEF Types, ModuleTypes
<1>1. /\ \/ pc = "question" /\ call.id = udp /\ LookingUp
         \/ pc = "send"
      /\ call.awaits \in {"none", ">", "SENDOK"} /\ ~resolved
  BY NoCallFacts DEF Types, CallInv, LookingUp, PointInv
<1>2. ASSUME call' # NoCall, call'.op = "send", call'.awaits # "none", pc = "question" => busy'.op # "TCP"
      PROVE  PointInv'
  BY <1>0, <1>1, <1>2, NoCallFacts DEF PointInv
<1>3. ASSUME Quiet', call'.awaits = "none" PROVE PointInv'
  BY <1>0, <1>1, <1>3 DEF PointInv
<1>4. CASE DParse
  BY <1>1, <1>2, <1>4, NoCallFacts DEF DParse, PointInv
<1>5. CASE DSendEnter
  <2>1. CASE IsOpen(call.id)
    <3>1. pc = "question" => busy.op # "TCP"
      BY <1>1, <2>1 DEF SlowInv, IsOpen
    <3>2. busy.op # "TCP" => busy'.op # "TCP"
      BY <1>5, <2>1 DEF DSendEnter, Orders
    <3> QED BY <1>2, <1>5, <2>1, <3>1, <3>2 DEF DSendEnter, GoesOn
  <2>2. CASE ~IsOpen(call.id)
    <3>1. call' = NoCall /\ ret' = "false" /\ UNCHANGED <<busy, rx, id_bits, id_close>> /\ call.awaits = "none"
      BY <1>5, <2>2 DEF DSendEnter
    <3>2. pc = "question" /\ udp \in id_bits => Quiet'
      BY <1>1, <2>2, <3>1 DEF PointInv, IsOpen, Quiet, Kinds
    <3> QED BY <1>0, <1>1, <3>1, <3>2, NoCallFacts DEF PointInv
  <2> QED BY <2>1, <2>2
<1>6. CASE DSendPrompted
  <2>1. busy = Idle
    BY <1>0, <1>6 DEF DSendPrompted, Reads, StreamInv, SendInv
  <2> QED BY <1>2, <1>6, <2>1 DEF DSendPrompted, GoesOn, Orders
<1>7. CASE DSendMatched
  BY <1>0, <1>3, <1>7, SendMatchedQuiet, NoCallFacts DEF DSendMatched
<1>8. CASE DSendTimedOut
  <2>1. CASE pc = "question"
    <3>1. Quiet'
      BY <1>8, <2>1 DEF DSendTimedOut, PointInv, Quiet, Kinds
    <3> QED BY <1>3, <1>8, <3>1, NoCallFacts DEF DSendTimedOut, GoesOn
  <2>2. CASE pc = "send"
    BY <1>0, <1>1, <1>8, <2>2 DEF DSendTimedOut, GoesOn, PointInv
  <2> QED BY <1>1, <2>1, <2>2
<1> QED BY <1>0, <1>4, <1>5, <1>6, <1>7, <1>8 DEF DriverDoes, DOpenEnter, DOpenMatched, DOpenTimedOut,
        DOpenReturn, DCloseEnter, DCloseMatched, DCloseTimedOut, DRecvEnter, DRecvPolled

LEMMA CallingPoints ==
  ASSUME Types, OwnerInv, StreamInv, AlternateInv, SlowInv, PointInv, Calling PROVE PointInv'
PROOF
<1>0. /\ rx \in Seq(Lines) /\ rx' \in Seq(Lines) /\ (DriverDoes \/ DOpenEnter) /\ Len(rx) \in Nat
      /\ UNCHANGED <<pc, sock, udp, udpAddr, resolved>> /\ CallInv
  BY DriverStep, CallingLeaves DEF Types, ModuleTypes
<1>1. call # NoCall
  BY <1>0, NoCallFacts DEF DriverDoes, DParse, DOpenEnter, DOpenMatched, DOpenTimedOut, DOpenReturn,
        DSendEnter, DSendPrompted, DSendMatched, DSendTimedOut, DCloseEnter, DCloseMatched,
        DCloseTimedOut, DRecvEnter, DRecvPolled
<1>2. CASE pc = "connect"
  BY <1>0, <1>2 DEF PointInv
<1>3. CASE pc \in {"answer", "recv"}
  <2>1. Quiet /\ call.op = "recv"
    BY <1>0, <1>1, <1>3 DEF PointInv, CallInv
  <2>2. CASE DParse
    <3>1. Quiet'
      BY <1>0, <2>1, <2>2 DEF DParse, Reads, Quiet, Kinds
    <3> QED BY <1>0, <1>3, <3>1 DEF PointInv
  <2>3. CASE DRecvEnter \/ DRecvPolled
    <3>1. Quiet'
      BY <2>1, <2>3 DEF DRecvEnter, DRecvPolled, Quiet, Kinds
    <3> QED BY <1>0, <1>3, <3>1 DEF PointInv
  <2> QED BY <1>0, <2>1, <2>2, <2>3 DEF DriverDoes, DOpenEnter, DOpenMatched, DOpenTimedOut, DOpenReturn,
        DSendEnter, DSendPrompted, DSendMatched, DSendTimedOut, DCloseEnter, DCloseMatched, DCloseTimedOut
<1>4. pc \in {"connect", "answer", "recv", "reconnect"} \/ call.op \in {"close", "send"}
  BY <1>0, <1>1 DEF CallInv
<1> QED BY <1>2, <1>3, <1>4, ReconnectPoints, ClosePoints, SendPoints

LEMMA ClientPoints ==
  ASSUME Types, OwnerInv, PointInv, SpareInv, Client PROVE PointInv'
PROOF
<1>0. /\ call = NoCall /\ call.awaits = "none" /\ UNCHANGED <<rx, busy, id_bits, id_close, packets>>
      /\ LookupTypes
  BY ClientCalls, ClientLeaves, NoCallFacts DEF Types, DriverAndModule
<1>1. Quiet' <=> Quiet
  BY <1>0 DEF Quiet, Kinds
<1>2. (udp' = udp => (Forgotten(udp)' <=> Forgotten(udp))) /\ (sock' = sock => (Forgotten(sock)' <=> Forgotten(sock)))
  BY <1>0 DEF Forgotten
<1>3. pc \in {"question", "answer"} => udpAddr # 0
  BY <1>0 DEF LookupTypes
<1>4. resolved => pc = "unlook"
  BY DEF PointInv
<1>5. Forgotten(udp) => udp \notin id_bits /\ udp \notin id_close
  BY DEF Forgotten
<1>6. CASE Lookup
  <2>1. Forgotten(udp')
    BY <1>6, LookupUntouched DEF Untouched
  <2>2. Forgotten(udp)' /\ udp' \notin id_bits'
    BY <1>0, <2>1 DEF Forgotten
  <2> QED BY <1>6, <2>2 DEF Lookup, PointInv
<1> USE <1>0, <1>1, <1>2, <1>3, <1>4, <1>5, NoCallFacts DEF Calls, Start, callVars, dnsVars, requestVars, Fail, Returned
<1>7. CASE OpenRefused \/ Open \/ LookupCached \/ LookupRefused
  BY <1>7 DEF OpenRefused, Open, LookupCached, LookupRefused, PointInv
<1>8. CASE QueryAnotherRound \/ QueryGivesUp
  BY <1>8 DEF QueryAnotherRound, QueryGivesUp, PointInv
<1>9. CASE Query
  BY <1>9 DEF Query, PointInv
<1>10. CASE QueryDisconnected \/ QueryConnected
  BY <1>10 DEF QueryDisconnected, QueryConnected, PointInv
<1>11. CASE QueryNotSent
  BY <1>11 DEF QueryNotSent, PointInv
<1>12. CASE QuerySent
  BY <1>12 DEF QuerySent, PointInv
<1>13. CASE QueryReplied
  BY <1>13 DEF QueryReplied, PointInv
<1>14. CASE QueryClosed \/ QueryWaits \/ QueryTimedOut
  BY <1>14 DEF QueryClosed, QueryWaits, QueryTimedOut, PointInv
<1>15. CASE LookupDone
  BY <1>15 DEF LookupDone, PointInv
<1>16. CASE Connected \/ Sent \/ Received \/ Waits
  BY <1>16 DEF Connected, Sent, Received, Waits, PointInv
<1>17. CASE RequestFails \/ RequestSucceeds
  BY <1>17 DEF RequestFails, RequestSucceeds, PointInv
<1> QED BY <1>6, <1>7, <1>8, <1>9, <1>10, <1>11, <1>12, <1>13, <1>14, <1>15, <1>16, <1>17 DEF Client

-----------------------------------------------------------------------------
\* The sockets nobody owns.

\* A socket that the driver has forgotten, and of which the module will not
\* say that it is connected, has no past.
LEMMA ForgottenUntouched ==
  ASSUME Types, StreamInv, NEW id \in Id, Forgotten(id), busy.id # id, ~Pending("CONNECT", id),
         Alternates(id)
  PROVE  Untouched(id)
PROOF
<1>0. rx \in Seq(Lines) /\ Len(rx) \in Nat /\ \A i \in 1..Len(rx) : rx[i].id \in Id <=> rx[i].kind \in OobKinds
  BY DEF Types, ModuleTypes
<1>1. id \notin id_bits /\ \A i \in 1..Len(rx) : ~At(i, "CONNECT", id)
  BY DEF Forgotten, Pending
<1>2. id \notin links
  BY <1>1 DEF StreamInv, LinkInv, EndsOpen
<1>3. ASSUME NEW i \in 1..Len(rx), rx[i].id = id PROVE FALSE
  <2>1. rx[i].kind \in OobKinds
    BY <1>0, <1>3
  <2>2. rx[i].kind # "CONNECT"
    BY <1>1, <1>3 DEF At
  <2>3. rx[i].kind \notin {"IPD", "LAST"}
    BY <1>1, <1>3 DEF StreamInv, PacketInv
  <2>4. rx[i].kind # "CLOSED"
    <3>1. \A j \in 1..i-1 : j \in 1..Len(rx)
      BY <1>0
    <3> QED BY <1>1, <1>3, <3>1 DEF Alternates, At
  <2> QED BY <2>1, <2>2, <2>3, <2>4 DEF OobKinds
<1> QED BY <1>2, <1>3 DEF Untouched

\* The socket of a request that has closed it.
LEMMA ClosedUntouched ==
  ASSUME Types, OwnerInv, StreamInv, AlternateInv, PointInv, pc = "close", call = NoCall
  PROVE  Untouched(sock) /\ sock \in Id
PROOF
<1>1. sock \in Id /\ sock \notin lost /\ None \notin Id
  BY NoneIsNoId DEF Types, RequestTypes, OwnerInv, OwnersDistinct
<1>2. Forgotten(sock) /\ Quiet
  BY NoCallFacts DEF PointInv
<1>3. Alternates(sock)
  BY <1>1 DEF AlternateInv, Doomed
<1>4. busy.id # sock /\ ~Pending("CONNECT", sock)
  BY <1>1, <1>2, IdleFacts DEF Quiet, Kinds, Unasked, Pending, At
<1> QED BY <1>1, <1>2, <1>3, <1>4, ForgottenUntouched

LEMMA ModuleSpare ==
  ASSUME Types, SpareInv, Module \/ PeerAnswers \/ PeerHangsUp PROVE SpareInv'
PROOF
<1>0. /\ ModuleTypes /\ ModuleDoes /\ rx' \in Seq(Lines) /\ links \subseteq Id
      /\ UNCHANGED <<id_bits, id_close, packets, pc, sock, udp, lost, owing>>
  BY ModuleStep, ModuleLeaves DEF Types, ModuleTypes
<1>1. Grows /\ Len(rx) \in Nat
  BY <1>0, ModuleAdds
<1>2. ASSUME NEW id \in Id, Untouched(id) PROVE Untouched(id)'
  <2>1. Forgotten(id)'
    BY <1>0, <1>2 DEF Untouched, Forgotten
  <2>2. id \notin links /\ busy.id # id /\ id # None /\ \A i \in 1..Len(rx) : rx[i].id # id
    BY <1>2, NoneIsNoId DEF Untouched
  <2> USE <1>1, <2>2, IdleFacts DEF Grows, Adds, AddsTwo
  <2>3. CASE Refused
    BY <2>1, <2>3 DEF Refused, Untouched
  <2>4. CASE Opened
    <3>1. id \notin links' /\ busy'.id # id
      BY <2>4 DEF Opened
    <3>2. \A i \in 1..Len(rx') : rx'[i].id # id
      BY <2>4 DEF Opened
    <3> QED BY <2>1, <3>1, <3>2 DEF Untouched
  <2>5. CASE Prompted \/ Taken
    BY <2>1, <2>5 DEF Prompted, Taken, Untouched
  <2>6. CASE Disconnected
    <3>1. id \notin links' /\ busy'.id # id
      BY <2>6 DEF Disconnected
    <3>2. \A i \in 1..Len(rx') : rx'[i].id # id
      BY <2>6 DEF Disconnected
    <3> QED BY <2>1, <3>1, <3>2 DEF Untouched
  <2>7. ASSUME NEW p \in Id, PeerLeft(p) PROVE Untouched(id)'
    BY <2>1, <2>7 DEF PeerLeft, Untouched
  <2>8. ASSUME NEW p \in Id, NEW kind \in {"IPD", "LAST"}, PeerSaid(p, kind) PROVE Untouched(id)'
    BY <2>1, <2>8 DEF PeerSaid, Untouched
  <2> QED BY <1>0, <2>3, <2>4, <2>5, <2>6, <2>7, <2>8 DEF ModuleDoes
<1> QED BY <1>0, <1>2 DEF SpareInv, Heir, LookingUp

\* A driver step serves a call.
LEMMA CallingCalls ==
  ASSUME Types, Calling
  PROVE  call # NoCall /\ call.id \in {sock, udp} /\ call.id \in Id /\ pc \notin {"idle", "lookup", "query"}
PROOF
<1>0. DriverDoes \/ DOpenEnter
  BY DriverStep
<1>1. call # NoCall
  BY <1>0, NoCallFacts DEF DriverDoes, DParse, DOpenEnter, DOpenMatched, DOpenTimedOut, DOpenReturn,
        DSendEnter, DSendPrompted, DSendMatched, DSendTimedOut, DCloseEnter, DCloseMatched,
        DCloseTimedOut, DRecvEnter, DRecvPolled
<1> QED BY <1>1 DEF Types, CallInv, RequestTypes, LookingUp

LEMMA CallingSpare ==
  ASSUME Types, SpareInv, Calling PROVE SpareInv'
PROOF
<1>0. /\ rx \in Seq(Lines) /\ rx' \in Seq(Lines) /\ (DriverDoes \/ DOpenEnter) /\ Len(rx) \in Nat
      /\ UNCHANGED <<pc, sock, udp, lost>> /\ call.id \in {sock, udp} /\ pc # "idle"
  BY DriverStep, CallingLeaves, CallingCalls DEF Types, ModuleTypes
<1>1. UNCHANGED links /\ ((Reads /\ BitsAfter) \/ UNCHANGED <<rx, id_bits>>)
  BY <1>0, DriverReads
<1>2. ASSUME NEW id \in Id, id \notin {sock, udp}, Untouched(id) PROVE Untouched(id)'
  <2>0. call.id # id
    BY <1>0, <1>2
  <2>1. Reads => 1 \in 1..Len(rx)
    BY <1>0 DEF Reads
  <2>2. id \notin id_bits' /\ \A i \in 1..Len(rx') : rx'[i].id # id
    BY <1>0, <1>1, <1>2, <2>1 DEF Untouched, Forgotten, Reads, BitsAfter
  <2>3. id \notin id_close' /\ (\A p \in packets' : p.id # id) /\ busy'.id # id
    <3> USE <1>2, <2>0, <2>1 DEF Untouched, Forgotten, clear_socket_packets, Orders
    <3>1. CASE DParse
      BY <3>1 DEF DParse
    <3>2. CASE DOpenEnter \/ DOpenMatched \/ DOpenTimedOut
      BY <3>2 DEF DOpenEnter, DOpenMatched, DOpenTimedOut, DOpenReturn
    <3>3. CASE DSendEnter \/ DSendPrompted \/ DSendMatched \/ DSendTimedOut
      BY <3>3 DEF DSendEnter, DSendPrompted, DSendMatched, DSendTimedOut
    <3>4. CASE DCloseEnter \/ DCloseMatched \/ DCloseTimedOut
      BY <3>4 DEF DCloseEnter, DCloseMatched, DCloseTimedOut, DRelease
    <3>5. CASE DRecvEnter \/ DRecvPolled
      BY <3>5 DEF DRecvEnter, DRecvPolled
    <3> QED BY <1>0, <3>1, <3>2, <3>3, <3>4, <3>5 DEF DriverDoes
  <2> QED BY <1>1, <1>2, <2>2, <2>3 DEF Untouched, Forgotten
<1> QED BY <1>0, <1>2 DEF SpareInv, Heir, LookingUp

\* What becomes of the sockets in a step of the request.
LEMMA ClientSockets ==
  ASSUME Types, Client
  PROVE  \/ Open \/ Lookup \/ LookupDone \/ RequestSucceeds
         \/ UNCHANGED <<pc, sock, udp, lost>>
         \/ pc # "idle" /\ pc' # "idle" /\ UNCHANGED <<sock, udp, lost>> /\ (LookingUp' => LookingUp)
         \/ pc # "idle" /\ ~LookingUp /\ pc' = "idle" /\ udp' = udp /\ Fail
PROOF
<1> USE DEF LookingUp, Calls, Start, callVars, dnsVars, requestVars, Returned
<1>1. CASE OpenRefused \/ LookupCached \/ LookupRefused \/ QueryAnotherRound
  BY <1>1 DEF OpenRefused, LookupCached, LookupRefused, QueryAnotherRound, Fail
<1>2. CASE QueryGivesUp \/ Query \/ QueryDisconnected \/ QueryConnected \/ QueryNotSent \/ QuerySent
  BY <1>2 DEF QueryGivesUp, Query, QueryDisconnected, QueryConnected, QueryNotSent, QuerySent
<1>3. CASE QueryReplied \/ QueryClosed \/ QueryWaits \/ QueryTimedOut \/ Connected
  BY <1>3 DEF QueryReplied, QueryClosed, QueryWaits, QueryTimedOut, Connected
<1>4. CASE Sent \/ Received \/ Waits \/ RequestFails
  BY <1>4 DEF Sent, Received, Waits, RequestFails, Fail
<1> QED BY <1>1, <1>2, <1>3, <1>4 DEF Client

\* At rest every socket that is not lost is free.
LEMMA IdleFree ==
  ASSUME Types, OwnerInv, SpareInv, pc = "idle" PROVE get_free_id = Id \ lost
PROOF
<1>1. sock = None /\ udp = None /\ None \notin Id /\ ids \subseteq Id /\ lost \subseteq ids
      /\ ids \subseteq lost \cup {sock, udp}
  BY NoneIsNoId DEF Types, RequestTypes, LookingUp, DriverTypes, OwnerInv, OwnersDistinct
<1>2. \A id \in Id \ lost : id \notin id_bits
  BY <1>1 DEF SpareInv, Untouched, Forgotten, Heir
<1> QED BY <1>1, <1>2 DEF get_free_id

LEMMA ClientSpare ==
  ASSUME Types, OwnerInv, StreamInv, AlternateInv, PointInv, SpareInv, OwingInv, Client PROVE SpareInv'
PROOF
<1>0. /\ call = NoCall /\ call.awaits = "none" /\ None \notin Id /\ RequestTypes
      /\ UNCHANGED <<rx, links, busy, id_bits, id_close, packets, owing>>
  BY ClientCalls, ClientLeaves, NoCallFacts, NoneIsNoId DEF Types, DriverAndModule
<1>1. \A id : Untouched(id) => Untouched(id)'
  BY <1>0 DEF Untouched, Forgotten
<1>2. pc # "idle" => \A id \in Id \ (lost \cup {sock, udp}) : Untouched(id)
  BY DEF SpareInv, Heir
<1>3. CASE Open
  <2>1. /\ pc = "idle" /\ pc' = "lookup" /\ lost' = lost /\ udp' = udp /\ get_free_id # {}
        /\ sock' = Lowest(get_free_id)
    BY <1>3 DEF Open, dnsVars
  <2>2. get_free_id = Id \ lost
    BY <2>1, IdleFree
  <2>3. sock' \in Id \ lost /\ \A j \in Id \ lost : sock' <= j
    BY <2>1, <2>2, LowestIsLeast, FreeIds
  <2>4. ASSUME NEW id \in Id \ (lost' \cup {sock', udp'}) PROVE Untouched(id)
    <3>1. Untouched(id) \/ Heir(id)
      BY <1>0, <2>1, <2>4 DEF SpareInv, RequestTypes, LookingUp
    <3>2. CASE Heir(id)
      <4>1. id <= sock' /\ sock' <= id /\ id \in Int /\ sock' \in Int
        BY <2>1, <2>3, <2>4, <3>2, Esp32Assumption DEF Heir, Id
      <4> QED BY <2>4, <4>1
    <3> QED BY <3>1, <3>2
  <2>5. ~LookingUp'
    BY <2>1 DEF LookingUp
  <2> QED BY <1>1, <2>1, <2>3, <2>4, <2>5 DEF SpareInv
<1>4. CASE Lookup
  <2>1. pc = "lookup" /\ pc' = "query" /\ lost' = lost /\ sock' = sock
    BY <1>4 DEF Lookup
  <2>2. \A j \in Id \ (lost \cup {sock}) : udp' <= j
    BY <1>4, LookupUntouched
  <2>3. \A id \in Id \ (lost \cup {sock, udp'}) : Untouched(id)
    BY <1>0, <1>2, <2>1 DEF RequestTypes, LookingUp
  <2> QED BY <1>1, <2>1, <2>2, <2>3 DEF SpareInv
<1>5. CASE LookupDone
  <2>1. pc = "unlook" /\ udp' = None /\ udp \in Id /\ LookingUp /\ Forgotten(udp)
    BY <1>0, <1>5 DEF LookupDone, Returned, RequestTypes, LookingUp, PointInv
  <2>2. Alternates(udp)
    BY <2>1 DEF AlternateInv, OwnerInv, OwnersDistinct, Doomed
  <2>3. CASE resolved /\ ret = "true"
    <3>1. Quiet
      BY <1>0, <2>3 DEF PointInv
    <3>2. busy.id # udp /\ ~Pending("CONNECT", udp)
      BY <1>0, <2>1, <3>1, IdleFacts DEF Quiet, Kinds, Unasked, Pending, At
    <3>3. Untouched(udp)
      BY <2>1, <2>2, <3>2, ForgottenUntouched
    <3>4. pc' = "connect" /\ sock' = sock /\ lost' = lost
      BY <1>5, <2>3 DEF LookupDone, Calls
    <3>5. \A id \in Id \ (lost' \cup {sock', udp'}) : Untouched(id)
      BY <1>2, <2>1, <3>3, <3>4
    <3> QED BY <1>1, <2>1, <3>4, <3>5 DEF SpareInv, LookingUp
  <2>4. CASE ~(resolved /\ ret = "true")
    <3>1. pc' = "idle" /\ sock' = None /\ lost' = lost \cup {sock}
      BY <1>5, <2>4 DEF LookupDone, Fail
    <3>2. CASE owing
      <4>1. \A j \in Id \ lost' : udp <= j
        BY <2>1, <3>1 DEF SpareInv
      <4>2. \A id \in Id \ (lost' \cup {sock', udp'}) : id = udp \/ Untouched(id)
        BY <1>2, <2>1, <3>1
      <4>3. \A id \in Id \ (lost' \cup {sock', udp'}) : Untouched(id)' \/ Heir(id)'
        <5>1. owing' /\ udp \notin id_bits' \cup id_close'
          BY <1>0, <2>1, <3>2 DEF Forgotten
        <5> QED BY <1>1, <3>1, <4>1, <4>2, <5>1 DEF Heir
      <4> QED BY <3>1, <4>3 DEF SpareInv, LookingUp
    <3>3. CASE ~owing
      <4>1. busy.id # udp /\ ~Pending("CONNECT", udp)
        BY <1>0, <2>1, <3>3 DEF OwingInv, NothingOwed, Forgotten
      <4>2. Untouched(udp)
        BY <2>1, <2>2, <4>1, ForgottenUntouched
      <4>3. \A id \in Id \ (lost' \cup {sock', udp'}) : Untouched(id)
        BY <1>2, <2>1, <3>1, <4>2
      <4> QED BY <1>1, <3>1, <4>3 DEF SpareInv, LookingUp
    <3> QED BY <3>2, <3>3
  <2> QED BY <2>3, <2>4
<1>6. CASE RequestSucceeds
  <2>1. pc = "close" /\ pc' = "idle" /\ sock' = None /\ lost' = lost /\ udp' = udp /\ ~LookingUp
    BY <1>6 DEF RequestSucceeds, Returned, dnsVars, LookingUp
  <2>2. Untouched(sock)
    BY <1>0, <2>1, ClosedUntouched
  <2>3. \A id \in Id \ (lost' \cup {sock', udp'}) : Untouched(id)
    BY <1>2, <2>1, <2>2
  <2> QED BY <1>1, <2>1, <2>3 DEF SpareInv, LookingUp
<1>7. CASE UNCHANGED <<pc, sock, udp, lost>>
  <2>1. \A id : Heir(id) => Heir(id)'
    BY <1>0, <1>7 DEF Heir
  <2> QED BY <1>1, <1>7, <2>1 DEF SpareInv, LookingUp
<1>8. CASE pc # "idle" /\ pc' # "idle" /\ UNCHANGED <<sock, udp, lost>> /\ (LookingUp' => LookingUp)
  BY <1>1, <1>2, <1>8 DEF SpareInv
<1>9. CASE pc # "idle" /\ ~LookingUp /\ pc' = "idle" /\ udp' = udp /\ Fail
  <2>1. lost' = lost \cup {sock} /\ sock' = None
    BY <1>9 DEF Fail
  <2>2. \A id \in Id \ (lost' \cup {sock', udp'}) : Untouched(id)
    BY <1>2, <1>9, <2>1
  <2> QED BY <1>1, <1>9, <2>2 DEF SpareInv, LookingUp
<1> QED BY <1>3, <1>4, <1>5, <1>6, <1>7, <1>8, <1>9, ClientSockets

-----------------------------------------------------------------------------
\* Answers that nobody owes.

LEMMA ModuleOwing ==
  ASSUME Types, OwingInv, Module \/ PeerAnswers \/ PeerHangsUp PROVE OwingInv'
PROOF
<1>0. /\ ModuleTypes /\ ModuleDoes /\ rx' \in Seq(Lines)
      /\ UNCHANGED <<id_bits, id_close, call, ret, pc, sock, udp, owing>>
  BY ModuleStep, ModuleLeaves DEF Types
<1>1. Grows /\ Len(rx) \in Nat
  BY <1>0, ModuleAdds
<1>2. OpenMeansOpen'
  BY <1>0 DEF OwingInv, OpenMeansOpen, TrueOnlyIfOpened, Returned
<1>3. NothingOwed'
  <2> SUFFICES ASSUME LookingUp, call.awaits = "none", ~owing, udp \notin id_bits
               PROVE  busy'.id # udp /\ \A i \in 1..Len(rx') : ~At(i, "CONNECT", udp)'
    BY <1>0 DEF NothingOwed, LookingUp, Pending, At
  <2>1. busy.id # udp /\ (\A i \in 1..Len(rx) : ~At(i, "CONNECT", udp)) /\ udp # None
    BY NoneIsNoId DEF OwingInv, NothingOwed, Pending, Types, RequestTypes
  <2> USE <1>0, <1>1, <2>1, IdleFacts DEF Grows, Adds, AddsTwo, At
  <2>2. CASE Refused
    BY <2>2 DEF Refused
  <2>3. CASE Opened
    BY <2>3 DEF Opened
  <2>4. CASE Prompted \/ Taken \/ Disconnected
    BY <2>4 DEF Prompted, Taken, Disconnected
  <2>5. ASSUME NEW p \in Id, PeerLeft(p) PROVE busy'.id # udp /\ \A i \in 1..Len(rx') : ~At(i, "CONNECT", udp)'
    BY <2>5 DEF PeerLeft
  <2>6. ASSUME NEW p \in Id, NEW kind \in {"IPD", "LAST"}, PeerSaid(p, kind)
        PROVE  busy'.id # udp /\ \A i \in 1..Len(rx') : ~At(i, "CONNECT", udp)'
    BY <2>6 DEF PeerSaid
  <2> QED BY <2>2, <2>3, <2>4, <2>5, <2>6 DEF ModuleDoes
<1>4. OwnOK'
  <2> SUFFICES ASSUME call.op \in {"TCP", "UDP"}, call.awaits = "OK", ~owing
               PROVE  /\ IF busy' = Idle
                         THEN \A i \in 1..Len(rx') : rx'[i].kind = "OK" =>
                                \/ i = 1 /\ call.id \in id_bits
                                \/ i > 1 /\ rx'[i - 1].kind = "CONNECT" /\ rx'[i - 1].id = call.id
                         ELSE /\ busy'.op = call.op /\ busy'.id = call.id
                              /\ \A i \in 1..Len(rx') : rx'[i].kind # "OK"
                      /\ \A i, j \in 1..Len(rx') : rx'[i].kind = "OK" /\ rx'[j].kind = "OK" => i = j
    BY <1>0 DEF OwnOK, At
  <2>1. /\ IF busy = Idle
           THEN \A i \in 1..Len(rx) : rx[i].kind = "OK" =>
                  \/ i = 1 /\ call.id \in id_bits
                  \/ i > 1 /\ rx[i - 1].kind = "CONNECT" /\ rx[i - 1].id = call.id
           ELSE /\ busy.op = call.op /\ busy.id = call.id
                /\ \A i \in 1..Len(rx) : rx[i].kind # "OK"
        /\ \A i, j \in 1..Len(rx) : rx[i].kind = "OK" /\ rx[j].kind = "OK" => i = j
    BY DEF OwingInv, OwnOK, At
  <2>2. CASE busy' = busy /\ \A i \in Added : rx'[i].kind # "OK"
    <3>1. \A i \in 1..Len(rx') : rx'[i].kind = "OK" => i \in 1..Len(rx) /\ rx[i].kind = "OK"
      BY <1>0, <1>1, <2>2 DEF Grows, Added
    <3>2. \A i \in 1..Len(rx) : i > 1 => rx'[i - 1] = rx[i - 1]
      BY <1>1 DEF Grows
    <3> QED BY <1>0, <1>1, <2>1, <2>2, <3>1, <3>2
  <2>3. CASE Refused
    <3>1. \A i \in 1..Len(rx') : rx'[i].kind # "OK"
      BY <1>1, <2>1, <2>3 DEF Refused, Grows, Adds, AddsTwo
    <3> QED BY <2>3, <3>1 DEF Refused
  <2>4. CASE Opened
    <3>1. \A i \in 1..Len(rx') : rx'[i].kind = "OK" => i = Len(rx) + 2
      BY <1>1, <2>1, <2>4 DEF Opened, Grows, AddsTwo
    <3>2. rx'[(Len(rx) + 2) - 1].kind = "CONNECT" /\ rx'[(Len(rx) + 2) - 1].id = call.id
      BY <1>1, <2>1, <2>4 DEF Opened, AddsTwo
    <3>3. busy' = Idle
      BY <2>4 DEF Opened
    <3> QED BY <1>1, <3>1, <3>2, <3>3
  <2>5. CASE Prompted \/ Taken \/ Disconnected
    BY <2>1, <2>5 DEF Prompted, Taken, Disconnected
  <2>6. ASSUME NEW p \in Id, PeerLeft(p) PROVE busy' = busy /\ \A i \in Added : rx'[i].kind # "OK"
    BY <1>1, <2>6 DEF PeerLeft, Adds, Added
  <2>7. ASSUME NEW p \in Id, NEW kind \in {"IPD", "LAST"}, PeerSaid(p, kind)
        PROVE  busy' = busy /\ \A i \in Added : rx'[i].kind # "OK"
    BY <1>1, <2>7 DEF PeerSaid, Adds, Added
  <2> QED BY <1>0, <2>2, <2>3, <2>4, <2>5, <2>6, <2>7 DEF ModuleDoes
<1> QED BY <1>2, <1>3, <1>4 DEF OwingInv

\* The OK that open() takes when nothing was owed follows the connection.
LEMMA OpenMatchedOpens ==
  ASSUME Types, OwingInv, DOpenMatched, ~owing PROVE call.id \in id_bits
PROOF
<1>1. rx[1].kind = "OK" /\ 1 \in 1..Len(rx) /\ call.op \in {"TCP", "UDP"} /\ call.awaits = "OK"
  BY DEF DOpenMatched, DOpenReturn, Reads, Types, ModuleTypes
<1> QED BY <1>1 DEF OwingInv, OwnOK

LEMMA CallingOwnOK ==
  ASSUME Types, OwingInv, Calling PROVE OwnOK'
PROOF
<1>0. /\ rx \in Seq(Lines) /\ rx' \in Seq(Lines) /\ Len(rx) \in Nat
      /\ \/ DriverDoes /\ owing' = owing
         \/ DOpenEnter /\ (owing' <=> (busy # Idle \/ Line("OK", None) \in Range(rx)))
  BY DriverStep DEF Types, ModuleTypes
<1>1. CASE DOpenEnter /\ (owing' <=> (busy # Idle \/ Line("OK", None) \in Range(rx)))
  <2> SUFFICES ASSUME ~owing' PROVE OwnOK'
    BY DEF OwnOK
  <2>1. busy = Idle /\ Line("OK", None) \notin Range(rx)
    BY <1>1
  <2>2. ASSUME NEW i \in 1..Len(rx) PROVE rx[i].kind # "OK"
    <3>1. rx[i] \in Lines /\ rx[i] \in Range(rx)
      BY <1>0 DEF Range
    <3>2. rx[i].kind = "OK" => rx[i].id = None
      BY <2>2, <3>1 DEF Types, ModuleTypes, OobKinds, Lines
    <3>3. rx[i].kind = "OK" => rx[i] = Line("OK", None)
      BY <3>1, <3>2 DEF Lines, Line
    <3> QED BY <2>1, <3>1, <3>3
  <2>3. /\ busy' # Idle /\ busy'.op = call.op /\ busy'.id = call.id /\ rx' = rx
        /\ call'.op = call.op /\ call'.id = call.id
    BY <1>1, <2>1 DEF DOpenEnter, Orders, GoesOn
  <2> QED BY <2>2, <2>3 DEF OwnOK
<1>2. CASE DParse /\ owing' = owing
  <2> SUFFICES ASSUME call.op \in {"TCP", "UDP"}, call.awaits = "OK", ~owing
               PROVE  /\ IF busy = Idle
                         THEN \A i \in 1..Len(rx') : rx'[i].kind = "OK" =>
                                \/ i = 1 /\ call.id \in id_bits'
                                \/ i > 1 /\ rx'[i - 1].kind = "CONNECT" /\ rx'[i - 1].id = call.id
                         ELSE /\ busy.op = call.op /\ busy.id = call.id
                              /\ \A i \in 1..Len(rx') : rx'[i].kind # "OK"
                      /\ \A i, j \in 1..Len(rx') : rx'[i].kind = "OK" /\ rx'[j].kind = "OK" => i = j
    BY <1>2 DEF OwnOK, At, DParse
  <2>1. /\ IF busy = Idle
           THEN \A i \in 1..Len(rx) : rx[i].kind = "OK" =>
                  \/ i = 1 /\ call.id \in id_bits
                  \/ i > 1 /\ rx[i - 1].kind = "CONNECT" /\ rx[i - 1].id = call.id
           ELSE /\ busy.op = call.op /\ busy.id = call.id
                /\ \A i \in 1..Len(rx) : rx[i].kind # "OK"
        /\ \A i, j \in 1..Len(rx) : rx[i].kind = "OK" /\ rx[j].kind = "OK" => i = j
    BY DEF OwingInv, OwnOK, At
  <2>2. /\ Len(rx') = Len(rx) - 1
        /\ \A i \in 1..Len(rx') : i + 1 \in 1..Len(rx) /\ rx'[i] = rx[i + 1] /\ (i + 1) - 1 = i /\ i + 1 > 1
    BY <1>0, <1>2 DEF DParse, Reads
  <2>3. \A i \in 1..Len(rx') : i > 1 => i - 1 \in 1..Len(rx') /\ rx'[i - 1] = rx[i]
    BY <1>0, <2>2
  <2>4. CASE busy = Idle
    <3>1. ASSUME NEW i \in 1..Len(rx'), rx'[i].kind = "OK"
          PROVE  \/ i = 1 /\ call.id \in id_bits'
                 \/ i > 1 /\ rx'[i - 1].kind = "CONNECT" /\ rx'[i - 1].id = call.id
      <4>1. rx[i].kind = "CONNECT" /\ rx[i].id = call.id
        BY <2>1, <2>2, <2>4, <3>1
      <4>2. CASE i = 1
        BY <1>2, <4>1, <4>2 DEF DParse
      <4>3. CASE i > 1
        BY <2>3, <4>1, <4>3
      <4> QED BY <4>2, <4>3
    <3>2. \A i, j \in 1..Len(rx') : rx'[i].kind = "OK" /\ rx'[j].kind = "OK" => i = j
      BY <2>1, <2>2
    <3> QED BY <2>4, <3>1, <3>2
  <2>5. CASE busy # Idle
    BY <2>1, <2>2, <2>5
  <2> QED BY <2>4, <2>5
<1>3. CASE DOpenMatched \/ DOpenTimedOut \/ DSendEnter \/ DSendPrompted \/ DSendMatched \/ DSendTimedOut
  BY <1>3, NoCallFacts DEF DOpenMatched, DOpenTimedOut, DOpenReturn, DSendEnter, DSendPrompted,
                           DSendMatched, DSendTimedOut, GoesOn, OwnOK
<1>4. CASE DCloseEnter \/ DCloseMatched \/ DCloseTimedOut \/ DRecvEnter \/ DRecvPolled
  BY <1>4, NoCallFacts DEF DCloseEnter, DCloseMatched, DCloseTimedOut, DRelease, DRecvEnter,
                           DRecvPolled, GoesOn, OwnOK
<1> QED BY <1>0, <1>1, <1>2, <1>3, <1>4 DEF DriverDoes

LEMMA CallingOwes ==
  ASSUME Types, StreamInv, PointInv, OwingInv, Calling PROVE NothingOwed'
PROOF
<1>0. /\ rx' \in Seq(Lines) /\ ((DriverDoes /\ owing' = owing) \/ DOpenEnter)
      /\ UNCHANGED <<pc, sock, udp>> /\ call # NoCall /\ CallInv
  BY DriverStep, CallingLeaves, CallingCalls DEF Types
<1> SUFFICES ASSUME LookingUp, call'.awaits = "none", udp \notin id_bits', ~owing' PROVE NothingOwed'
  BY <1>0 DEF NothingOwed, LookingUp
<1>1. udp \in Id /\ udp # None
  BY NoneIsNoId DEF Types, RequestTypes
<1>2. ASSUME Quiet' PROVE NothingOwed'
  BY <1>0, <1>1, <1>2, IdleFacts DEF Quiet, NothingOwed, Kinds, Unasked, Pending, At
<1>3. ASSUME UNCHANGED <<rx, busy, id_bits, owing>>, call.awaits = "none" PROVE NothingOwed'
  BY <1>0, <1>3 DEF OwingInv, NothingOwed, LookingUp, Pending, At
<1>4. ASSUME busy' = Idle, rx' = <<>> PROVE Quiet'
  BY <1>4 DEF Quiet, Kinds
<1>5. CASE DParse \/ DOpenEnter \/ DSendPrompted \/ DRecvEnter
  BY <1>5 DEF DParse, DOpenEnter, DSendPrompted, DRecvEnter, GoesOn
<1>6. CASE (DOpenMatched \/ DOpenTimedOut) /\ owing' = owing
  <2>1. call.op = "UDP" /\ call.id = udp /\ call.awaits = "OK"
    BY <1>0, <1>6 DEF CallInv, LookingUp, DOpenMatched, DOpenTimedOut, DOpenReturn
  <2>2. CASE DOpenMatched
    BY <1>6, <2>1, <2>2, OpenMatchedOpens DEF DOpenMatched, DOpenReturn
  <2>3. CASE DOpenTimedOut
    <3>1. busy = Idle
      BY <1>6, <2>1, <2>3 DEF DOpenTimedOut, OwingInv, OwnOK
    <3> QED BY <1>2, <1>4, <2>3, <3>1 DEF DOpenTimedOut, DOpenReturn
  <2> QED BY <1>6, <2>2, <2>3
<1>7. CASE DSendEnter /\ owing' = owing
  BY <1>3, <1>7 DEF DSendEnter, GoesOn
<1>8. CASE DSendMatched
  BY <1>0, <1>2, <1>8, SendMatchedQuiet
<1>9. CASE DSendTimedOut
  <2>1. pc = "question"
    BY <1>0, <1>9 DEF CallInv, LookingUp, DSendTimedOut
  <2>2. busy = Idle
    BY <1>9, <2>1 DEF DSendTimedOut, PointInv
  <2> QED BY <1>2, <1>4, <1>9, <2>2 DEF DSendTimedOut
<1>10. CASE DCloseEnter /\ owing' = owing
  BY <1>3, <1>10 DEF DCloseEnter, GoesOn
<1>11. CASE DCloseMatched
  BY <1>0, <1>2, <1>11, CloseMatchedQuiet
<1>12. CASE DCloseTimedOut
  <2>1. busy = Idle
    BY <1>12 DEF DCloseTimedOut, StreamInv, CloseInv
  <2> QED BY <1>2, <1>4, <1>12, <2>1 DEF DCloseTimedOut
<1>13. CASE DRecvPolled
  <2>1. Quiet
    BY <1>0, <1>13 DEF CallInv, DRecvPolled, PointInv
  <2> QED BY <1>2, <1>4, <1>13, <2>1 DEF DRecvPolled, Quiet
<1> QED BY <1>0, <1>5, <1>6, <1>7, <1>8, <1>9, <1>10, <1>11, <1>12, <1>13 DEF DriverDoes

LEMMA CallingOwing ==
  ASSUME Types, StreamInv, PointInv, OwingInv, Calling PROVE OwingInv'
PROOF
<1>0. /\ ((DriverDoes /\ owing' = owing) \/ DOpenEnter)
      /\ UNCHANGED <<pc, sock, udp>> /\ call # NoCall /\ CallInv
  BY DriverStep, CallingLeaves, CallingCalls DEF Types
<1>1. OpenMeansOpen'
  <2> SUFFICES ASSUME ~owing', pc \in {"connect", "reconnect"}, call' = NoCall, ret' = "true"
               PROVE  call.id \in id_bits' /\ call.id = IF pc = "connect" THEN sock ELSE udp
    BY <1>0 DEF OpenMeansOpen, TrueOnlyIfOpened, Returned
  <2>1. call.op \in {"TCP", "UDP"} /\ call.id = IF pc = "connect" THEN sock ELSE udp
    BY <1>0 DEF CallInv
  <2>2. DOpenMatched /\ owing' = owing
    BY <1>0, <2>1 DEF DriverDoes, DParse, DOpenEnter, DOpenTimedOut, DOpenReturn, DSendEnter,
        DSendPrompted, DSendMatched, DSendTimedOut, DCloseEnter, DCloseMatched,
        DCloseTimedOut, DRecvEnter, DRecvPolled, GoesOn
  <2> QED BY <2>1, <2>2, OpenMatchedOpens DEF DOpenMatched, DOpenReturn
<1> QED BY <1>1, CallingOwnOK, CallingOwes DEF OwingInv

LEMMA ClientOwing ==
  ASSUME Types, OwnerInv, SpareInv, OwingInv, Client PROVE OwingInv'
PROOF
<1>0. call = NoCall /\ call.awaits = "none" /\ UNCHANGED <<rx, busy, id_bits, owing>>
  BY ClientCalls, ClientLeaves, NoCallFacts DEF Types, DriverAndModule
<1>1. Goes
  BY ClientGoes DEF Types
<1>2. OwnOK'
  BY <1>1, NoCallFacts DEF Goes, Begins, OwnOK
<1>3. OpenMeansOpen'
  BY <1>1, NoCallFacts DEF Goes, Begins, OpenMeansOpen, TrueOnlyIfOpened, Returned
<1>4. NothingOwed'
  <2>1. CASE Lookup
    <3>1. busy.id # udp' /\ \A i \in 1..Len(rx) : rx[i].id # udp'
      BY <2>1, LookupUntouched DEF Untouched
    <3> QED BY <1>0, <3>1 DEF NothingOwed, Pending, At
  <2>2. CASE LookingUp /\ udp' = udp
    BY <1>0, <2>2 DEF OwingInv, NothingOwed, Pending, At
  <2>3. CASE ~LookingUp'
    BY <2>3 DEF NothingOwed
  <2> QED BY <2>1, <2>2, <2>3, ClientLooksUp
<1> QED BY <1>2, <1>3, <1>4 DEF OwingInv

-----------------------------------------------------------------------------
\* The inductive invariant, and what follows from it.

LEMMA InitNotifierInv == Init => NotifierInv
PROOF
<1> SUFFICES ASSUME Init PROVE NotifierInv
  OBVIOUS
<1>1. Types
  BY InitTypes
<1> USE NoCallFacts, IdleFacts, NoneIsNoId DEF Init, DriverInit
<1>2. OwnerInv
  BY DEF OwnerInv, OwnersDistinct, Released
<1>3. rx = <<>> /\ Len(rx) = 0 /\ busy = Idle /\ call = NoCall /\ pc = "idle"
  OBVIOUS
<1>4. StreamInv
  <2>1. ConnectThenOK /\ PeerInv /\ PacketInv
    BY DEF ConnectThenOK, PeerInv, PacketInv
  <2>2. LinkInv
    BY DEF LinkInv, EndsClosed, Pending
  <2>3. BusyInv /\ SendInv /\ CloseInv
    BY DEF BusyInv, SendInv, CloseInv
  <2> QED BY <2>1, <2>2, <2>3 DEF StreamInv
<1>5. AlternateInv
  BY DEF AlternateInv, Alternates
<1>6. SlowInv /\ PointInv
  BY DEF SlowInv, PointInv
<1>7. SpareInv
  <2>1. \A id \in Id : Untouched(id)
    BY DEF Untouched, Forgotten
  <2> QED BY <2>1 DEF SpareInv, LookingUp
<1>8. OwingInv
  BY DEF OwingInv, OwnOK, NothingOwed, LookingUp, OpenMeansOpen, TrueOnlyIfOpened, Returned
<1> QED BY <1>1, <1>2, <1>4, <1>5, <1>6, <1>7, <1>8 DEF NotifierInv

LEMMA NextNotifierInv == NotifierInv /\ [Next]_vars => NotifierInv'
PROOF
<1> SUFFICES ASSUME NotifierInv, [Next]_vars PROVE NotifierInv'
  OBVIOUS
<1>1. Types' /\ OwnerInv'
  BY NextTypes, NextOwners DEF NotifierInv
<1>2. CASE Client
  BY <1>1, <1>2, ClientStream, ClientAlternates, ClientSlow, ClientPoints, ClientSpare, ClientOwing
     DEF NotifierInv
<1>3. CASE Calling
  BY <1>1, <1>3, CallingStream, CallingAlternates, CallingSlow, CallingPoints, CallingSpare,
     CallingOwing DEF NotifierInv
<1>4. CASE Module \/ PeerAnswers \/ PeerHangsUp
  BY <1>1, <1>4, ModuleStream, ModuleAlternates, ModuleSlow, ModulePoints, ModuleSpare, ModuleOwing
     DEF NotifierInv
<1>5. CASE UNCHANGED vars
  <2>0. UNCHANGED <<ids, id_bits, id_close, packets, timeout, rx, links, busy, peer, call, ret, pc,
                    sock, udp, udpAddr, server, attempts, sent, resolved, lost, owing>>
    BY <1>5, UnchangedLeaves DEF DriverAndModule
  <2> USE <2>0 DEF NotifierInv
  <2>1. (Quiet' <=> Quiet) /\ (Doomed' <=> Doomed)
    BY DEF Quiet, Kinds, Doomed
  <2>2. ConnectThenOK' /\ LinkInv' /\ PeerInv' /\ PacketInv'
    BY DEF StreamInv, ConnectThenOK, LinkInv, EndsOpen, EndsClosed, PeerInv, PacketInv, Pending, At
  <2>3. BusyInv' /\ SendInv'
    BY DEF StreamInv, BusyInv, SendInv, Kinds
  <2>4. CloseInv'
    BY <2>1 DEF StreamInv, CloseInv, Kinds
  <2>5. AlternateInv'
    BY <2>1 DEF AlternateInv, Alternates, At
  <2>6. SlowInv'
    BY DEF SlowInv, LookingUp, Pending, At
  <2>7. PointInv'
    BY <2>1 DEF PointInv, Forgotten
  <2>8. SpareInv'
    BY DEF SpareInv, Untouched, Heir, Forgotten, LookingUp
  <2>9. OwingInv'
    BY DEF OwingInv, OwnOK, NothingOwed, LookingUp, Pending, At, OpenMeansOpen, TrueOnlyIfOpened,
           Returned
  <2> QED BY <1>1, <2>2, <2>3, <2>4, <2>5, <2>6, <2>7, <2>8, <2>9 DEF StreamInv
<1> QED BY <1>2, <1>3, <1>4, <1>5 DEF Next

LEMMA NotifierInvAlways == Spec => []NotifierInv
BY InitNotifierInv, NextNotifierInv, PTL DEF Spec

\* The driver's tables, the lines on the UART and the request keep their
\* types (ESP32.cpp, http_request.h, nsapi_dns.cpp), however many sockets,
\* name servers and questions there are.
THEOREM NotifierTypes == Spec => []TypeOK
BY TypesAlways, TypesGiveTypeOK, PTL

\* A socket is handed out by get_free_id() to one owner at a time, a failed
\* request keeps its socket for good, and a request is refused only when
\* every socket has been lost that way.
THEOREM SocketsAccountedFor == Spec => []SocketAccounting
PROOF
<1>1. NotifierInv => SocketAccounting
  <2> SUFFICES ASSUME NotifierInv PROVE SocketAccounting
    OBVIOUS
  <2>1. OwnersDistinct
    BY DEF NotifierInv, OwnerInv
  <2>2. RefusedOnlyWhenLost
    <3>1. pc = "idle" => get_free_id = Id \ lost
      BY IdleFree DEF NotifierInv
    <3>2. lost \subseteq Id
      BY DEF NotifierInv, Types, RequestTypes
    <3> QED BY <3>1, <3>2 DEF RefusedOnlyWhenLost
  <2> QED BY <2>1, <2>2 DEF SocketAccounting
<1> QED BY <1>1, NotifierInvAlways, PTL

\* What socket_handler() has made of the lines it read is what the module
\* knows of its links, and a socket that get_free_id() may hand out has no
\* link, no mark of an old close, and nothing on its way or in the packet
\* list, unless the module owed an answer when open() was called.
THEOREM TablesStayInStep == Spec => []TableInStep
PROOF
<1>1. NotifierInv => TableInStep
  <2> SUFFICES ASSUME NotifierInv PROVE TableInStep
    OBVIOUS
  <2>1. ViewCatchesUp
    <3>1. id_bits \subseteq Id /\ links \subseteq Id
      BY DEF NotifierInv, Types, DriverTypes, ModuleTypes
    <3> QED BY <3>1, NothingOnItsWay DEF NotifierInv, StreamInv, ViewCatchesUp
  <2>2. FreeIsClean
    <3> SUFFICES ASSUME NEW id \in get_free_id \ {udp}, ~owing
                 PROVE  /\ id \notin links \cup id_close
                        /\ \A i \in DOMAIN rx : rx[i].id # id
                        /\ \A p \in packets : p.id # id
      BY DEF FreeIsClean
    <3>1. id \in Id /\ id \notin ids /\ id \notin lost
      BY DEF get_free_id, NotifierInv, OwnerInv, OwnersDistinct
    <3>2. Untouched(id)
      <4>1. CASE id = sock
        <5>1. pc = "close" /\ call = NoCall
          BY <3>1, <4>1, NoneIsNoId DEF NotifierInv, OwnerInv, OwnersDistinct
        <5> QED BY <4>1, <5>1, ClosedUntouched DEF NotifierInv
      <4>2. CASE id # sock
        BY <3>1, <4>2 DEF NotifierInv, SpareInv, Heir
      <4> QED BY <4>1, <4>2
    <3>3. DOMAIN rx = 1..Len(rx)
      BY DEF NotifierInv, Types, ModuleTypes
    <3> QED BY <3>2, <3>3 DEF Untouched, Forgotten
  <2> QED BY <2>1, <2>2 DEF TableInStep
<1> QED BY <1>1, NotifierInvAlways, PTL

\* ESP32::open() returns true only if the module has opened the link, however
\* late, refused or torn down other links were, provided that it owed no
\* answer to an earlier command.
THEOREM OpenAlwaysMeansOpen == Spec => []OpenMeansOpen
PROOF
<1>1. NotifierInv => OpenMeansOpen
  BY DEF NotifierInv, OwingInv
<1> QED BY <1>1, NotifierInvAlways, PTL

-----------------------------------------------------------------------------
\* What a request may rely on as long as nothing outside has disturbed it.

\* The socket in use.
Link == IF LookingUp THEN udp ELSE sock

\* The link is open and everybody knows it.
Standing(id) == id \in links /\ IsOpen(id) /\ ~Pending("CLOSED", id)

\* The other end was asked: the link stands, or the end of the answer has been
\* sent and not been returned yet.
Answering(id) ==
  /\ peer[id] # "silent"
  /\ IF peer[id] = "done" THEN Line("LAST", id) \in packets \/ Pending("LAST", id) ELSE Standing(id)

\* No open() has been tried for the socket in use.
Untried ==
  pc \in {"lookup", "query"} \/ (pc \in {"connect", "reconnect"} /\ call # NoCall /\ call.awaits = "none")

\* The request's own socket has not been used yet.
AheadInv ==
  /\ ~Untried => ~owing
  /\ pc = "lookup" \/ LookingUp \/ (pc = "connect" /\ Untried) => sock \notin id_bits \cup id_close
  /\ LookingUp /\ ~Untried => busy.id # sock /\ ~Pending("CONNECT", sock)

\* The first server is asked once and answers.
LookupInv ==
  /\ pc # "disconnect"
  /\ pc = "query" => server = 1 /\ udpAddr = 0 /\ attempts > 0
  /\ pc = "unlook" => resolved /\ (call = NoCall => ret = "true")

OpeningInv ==
  pc \in {"connect", "reconnect"} =>
    /\ call.awaits = "OK" =>
         /\ Link \notin id_close /\ ~Pending("CLOSED", Link)
         /\ IF busy = Idle THEN Link \in links /\ peer[Link] = "silent" /\ Pending("OK", None)
                           ELSE Link \notin links
    /\ call = NoCall => ret = "true" /\ busy = Idle /\ Standing(Link) /\ peer[Link] = "silent"

SendingInv ==
  pc \in {"question", "send"} =>
    /\ call.op = "send" /\ call.awaits = "none" => busy = Idle /\ Standing(Link) /\ peer[Link] = "silent"
    /\ call.awaits = ">" =>
         /\ Standing(Link) /\ peer[Link] = "silent"
         /\ IF busy = Idle THEN Pending(">", None) ELSE busy.op = "CIPSEND" /\ busy.id = Link
    /\ call.awaits = "SENDOK" =>
         IF busy = Idle THEN Pending("SENDOK", None) /\ Answering(Link)
                        ELSE Standing(Link) /\ peer[Link] = "silent"
    /\ call = NoCall => ret = "true" /\ Answering(Link)

ReceivingInv ==
  pc \in {"answer", "recv"} =>
    IF call = NoCall THEN ret \in {"last", "more", "block"} /\ (ret # "last" => Answering(Link))
                     ELSE Answering(Link)

SmoothInv ==
  ~fault /\ pc # "idle" => AheadInv /\ LookupInv /\ OpeningInv /\ SendingInv /\ ReceivingInv

\* A step of the module or of another end that disturbs nothing.
Undisturbed ==
  \/ Opened \/ Prompted \/ Taken \/ Disconnected
  \/ \E id \in Id : \/ PeerLeft(id) /\ (id \in {sock, udp} => peer[id] = "done")
                    \/ \E kind \in {"IPD", "LAST"} : PeerSaid(id, kind)

LEMMA ModuleSmooth ==
  ASSUME ModuleTypes, Module \/ PeerAnswers \/ PeerHangsUp, ~fault'
  PROVE  ~fault /\ Undisturbed
PROOF
<1>1. ModuleDoes /\ links \subseteq Id
  BY ModuleStep DEF ModuleTypes
<1>2. ~fault
  BY DEF Module, PeerAnswers, PeerHangsUp
<1>3. ASSUME Refused PROVE FALSE
  <2>1. Module
    BY <1>3 DEF PeerAnswers, PeerHangsUp, PeerSends, PeerCloses, Refused
  <2>2. ~Refuse
    BY <2>1 DEF Module
  <2> QED BY <1>3, <2>1, <2>2 DEF Module, Answers, Connect, AskForData, TakeData, Disconnect, Refused
<1>4. ASSUME NEW id \in Id, PeerLeft(id) PROVE id \in {sock, udp} => peer[id] = "done"
  <2>1. ~Module
    BY <1>4, IdleFacts DEF Module, Answers, Refuse, Connect, AskForData, TakeData, Disconnect, PeerLeft, Commands
  <2>2. PeerHangsUp
    BY <1>4, <2>1 DEF PeerAnswers, PeerSends, PeerLeft
  <2>3. PICK other \in Id : PeerCloses(other) /\ fault' = (fault \/ (other \in {sock, udp} /\ peer[other] # "done"))
    BY <2>2 DEF PeerHangsUp
  <2>4. other = id
    BY <1>4, <2>3 DEF PeerCloses, PeerLeft
  <2> QED BY <2>3, <2>4
<1> QED BY <1>1, <1>2, <1>3, <1>4 DEF ModuleDoes, Undisturbed

\* What is in use while a request is under way.
LEMMA LinkFacts ==
  ASSUME Types, pc # "idle"
  PROVE  /\ Link \in Id /\ sock \in Id
         /\ call # NoCall /\ pc # "lookup" => call.id = Link
BY DEF Types, RequestTypes, CallInv, Link, LookingUp

\* The module is not connecting, and nothing is disturbed.
LEMMA StandingKept ==
  ASSUME ModuleTypes, Undisturbed, rx' \in Seq(Lines), UNCHANGED <<id_bits, id_close, packets>>,
         NEW s \in {sock, udp}, s \in Id, Standing(s), peer[s] # "done",
         ~(busy.op = "CIPCLOSE" /\ busy.id = s)
  PROVE  Standing(s)'
PROOF
<1>0. Len(rx) \in Nat /\ \A i \in 1..Len(rx) : ~At(i, "CLOSED", s)
  BY DEF ModuleTypes, Standing, Pending
<1>1. s \in links /\ IsOpen(s)'
  BY DEF Standing, IsOpen
<1>2. ASSUME s \in links', \A i \in 1..Len(rx') : ~At(i, "CLOSED", s)' PROVE Standing(s)'
  BY <1>1, <1>2 DEF Standing, Pending
<1> USE <1>0, <1>1, NoneIsNoId DEF At, Adds, AddsTwo
<1>3. CASE Opened
  BY <1>2, <1>3 DEF Opened
<1>4. CASE Prompted \/ Taken
  BY <1>2, <1>4 DEF Prompted, Taken
<1>5. CASE Disconnected
  BY <1>2, <1>5 DEF Disconnected
<1>6. ASSUME NEW q \in Id, PeerLeft(q), q \in {sock, udp} => peer[q] = "done" PROVE Standing(s)'
  BY <1>2, <1>6 DEF PeerLeft
<1>7. ASSUME NEW q \in Id, NEW kind \in {"IPD", "LAST"}, PeerSaid(q, kind) PROVE Standing(s)'
  BY <1>2, <1>7 DEF PeerSaid
<1> QED BY <1>3, <1>4, <1>5, <1>6, <1>7 DEF Undisturbed

\* A module that is not busy leaves it to the other ends to do something.
LEMMA IdleUndisturbed ==
  ASSUME ModuleTypes, Undisturbed, busy = Idle
  PROVE  /\ busy' = Idle
         /\ \E id \in Id : \/ PeerLeft(id) /\ (id \in {sock, udp} => peer[id] = "done")
                           \/ \E kind \in {"IPD", "LAST"} : PeerSaid(id, kind)
BY DEF Undisturbed, Opened, Prompted, Taken, Disconnected, PeerLeft, PeerSaid

LEMMA SilentKept ==
  ASSUME ModuleTypes, Undisturbed, NEW s \in Id, peer[s] = "silent", ~(busy.op = "data" /\ busy.id = s)
  PROVE  peer'[s] = "silent"
PROOF
<1>0. peer \in [Id -> {"silent", "asked", "half", "done"}]
  BY DEF ModuleTypes
<1>1. CASE Opened
  BY <1>0, <1>1 DEF Opened
<1>2. CASE Taken
  BY <1>0, <1>2 DEF Taken
<1>3. ASSUME NEW q \in Id, NEW kind \in {"IPD", "LAST"}, PeerSaid(q, kind) PROVE peer'[s] = "silent"
  BY <1>0, <1>3 DEF PeerSaid
<1> QED BY <1>1, <1>2, <1>3 DEF Undisturbed, Prompted, Disconnected, PeerLeft

LEMMA AnsweringKept ==
  ASSUME ModuleTypes, Undisturbed, rx' \in Seq(Lines), UNCHANGED <<id_bits, id_close, packets>>,
         NEW s \in {sock, udp}, s \in Id, Answering(s), busy = Idle
  PROVE  Answering(s)'
PROOF
<1>0. /\ Len(rx) \in Nat /\ peer[s] # "silent"
      /\ peer \in [Id -> {"silent", "asked", "half", "done"}] /\ busy.op # "CIPCLOSE"
  BY IdleFacts DEF ModuleTypes, Answering
<1>1. Pending("LAST", s) /\ (\A i \in 1..Len(rx) : rx'[i] = rx[i]) /\ Len(rx') >= Len(rx) => Pending("LAST", s)'
  BY <1>0 DEF Pending, At
<1>2. Standing(s) /\ peer[s] # "done" => Standing(s)'
  BY <1>0, StandingKept
<1>3. ASSUME NEW q \in Id, PeerLeft(q), q \in {sock, udp} => peer[q] = "done" PROVE Answering(s)'
  BY <1>0, <1>1, <1>2, <1>3 DEF PeerLeft, Adds, Answering
<1>4. ASSUME NEW q \in Id, NEW kind \in {"IPD", "LAST"}, PeerSaid(q, kind) PROVE Answering(s)'
  <2>1. CASE q # s
    <3>1. peer'[s] = peer[s]
      BY <1>0, <1>4, <2>1 DEF PeerSaid
    <3> QED BY <1>0, <1>1, <1>2, <1>4, <3>1 DEF PeerSaid, Adds, Answering
  <2>2. CASE q = s /\ kind = "IPD"
    <3>1. peer'[s] = "half" /\ peer[s] # "done"
      BY <1>0, <1>4, <2>2 DEF PeerSaid
    <3> QED BY <1>2, <3>1 DEF Answering
  <2>3. CASE q = s /\ kind = "LAST"
    <3>0. PICK l \in Nat : l = Len(rx) + 1
      BY <1>0
    <3>1. peer'[s] = "done" /\ l \in 1..Len(rx') /\ At(l, "LAST", s)'
      BY <1>0, <1>4, <2>3, <3>0 DEF PeerSaid, Adds, At
    <3> QED BY <3>1 DEF Answering, Pending
  <2> QED BY <2>1, <2>2, <2>3
<1> QED BY <1>3, <1>4, IdleUndisturbed

LEMMA ModuleKeepsSmooth ==
  ASSUME Types, OwnerInv, StreamInv, PointInv, OwingInv, SmoothInv,
         Module \/ PeerAnswers \/ PeerHangsUp
  PROVE  SmoothInv'
PROOF
<1>0. /\ ModuleTypes /\ rx' \in Seq(Lines) /\ CallInv /\ Len(rx) \in Nat
      /\ UNCHANGED <<id_bits, id_close, packets, call, ret, pc, sock, udp, udpAddr, server, attempts,
                     resolved, owing>>
  BY ModuleStep, ModuleLeaves DEF Types, ModuleTypes
<1> SUFFICES ASSUME ~fault', pc # "idle"
             PROVE  AheadInv' /\ LookupInv' /\ OpeningInv' /\ SendingInv' /\ ReceivingInv'
  BY <1>0 DEF SmoothInv
<1>1. Undisturbed /\ AheadInv /\ LookupInv /\ OpeningInv /\ SendingInv /\ ReceivingInv
  BY <1>0, ModuleSmooth DEF SmoothInv
<1>2. /\ Link' = Link /\ Link \in Id /\ Link \in {sock, udp} /\ sock \in Id
      /\ (call # NoCall /\ pc # "lookup" => call.id = Link) /\ (Untried' <=> Untried) /\ (LookingUp' <=> LookingUp)
  BY <1>0, LinkFacts DEF Link, LookingUp, Untried
<1>3. Grows
  BY <1>0, ModuleStep, ModuleAdds
<1>4. \A k, i : Pending(k, i) => Pending(k, i)'
  BY <1>0, <1>3 DEF Grows, Pending, At
<1>5. LookupInv'
  BY <1>0, <1>1 DEF LookupInv
<1>6. AheadInv'
  <2> SUFFICES ASSUME LookingUp, ~Untried
               PROVE  busy'.id # sock /\ \A i \in 1..Len(rx') : ~At(i, "CONNECT", sock)'
    BY <1>0, <1>1, <1>2 DEF AheadInv, Pending, At
  <2>1. busy.id # sock /\ (\A i \in 1..Len(rx) : ~At(i, "CONNECT", sock)) /\ sock # None
    BY <1>1, <1>2, NoneIsNoId DEF AheadInv, Pending
  <2> USE <1>0, <1>3, <2>1, IdleFacts DEF Grows, Adds, AddsTwo, At
  <2>2. CASE Opened
    <3>1. busy'.id # sock
      BY <2>2 DEF Opened
    <3>2. ASSUME NEW i \in 1..Len(rx') PROVE ~At(i, "CONNECT", sock)'
      BY <2>2, <3>2 DEF Opened
    <3> QED BY <3>1, <3>2
  <2>3. CASE Prompted \/ Taken \/ Disconnected
    BY <2>3 DEF Prompted, Taken, Disconnected
  <2>4. ASSUME NEW q \in Id, PeerLeft(q) PROVE busy'.id # sock /\ \A i \in 1..Len(rx') : ~At(i, "CONNECT", sock)'
    BY <2>4 DEF PeerLeft
  <2>5. ASSUME NEW q \in Id, NEW kind \in {"IPD", "LAST"}, PeerSaid(q, kind)
        PROVE  busy'.id # sock /\ \A i \in 1..Len(rx') : ~At(i, "CONNECT", sock)'
    BY <2>5 DEF PeerSaid
  <2> QED BY <1>1, <2>2, <2>3, <2>4, <2>5 DEF Undisturbed
<1>7. ASSUME busy = Idle, Standing(Link), peer[Link] = "silent"
      PROVE  busy' = Idle /\ Standing(Link)' /\ peer'[Link] = "silent"
  BY <1>0, <1>1, <1>2, <1>7, StandingKept, SilentKept, IdleUndisturbed, IdleFacts
<1>8. ASSUME busy = Idle, Answering(Link) PROVE busy' = Idle /\ Answering(Link)'
  BY <1>0, <1>1, <1>2, <1>8, AnsweringKept, IdleUndisturbed
<1>9. OpeningInv'
  <2> SUFFICES ASSUME pc \in {"connect", "reconnect"}
      PROVE /\ call.awaits = "OK" =>
               /\ Link \notin id_close /\ ~Pending("CLOSED", Link)'
               /\ IF busy' = Idle THEN Link \in links' /\ peer'[Link] = "silent" /\ Pending("OK", None)'
                                  ELSE Link \notin links'
            /\ call = NoCall => ret = "true" /\ busy' = Idle /\ Standing(Link)' /\ peer'[Link] = "silent"
    BY <1>0, <1>2 DEF OpeningInv
  <2>1. CASE call.awaits = "OK"
    <3>0. call # NoCall /\ call.op \in {"TCP", "UDP"} /\ ~owing /\ call.id = Link
      BY <1>0, <1>1, <1>2, <2>1, NoCallFacts DEF CallInv, AheadInv, Untried
    <3>1. Link \notin id_close /\ \A i \in 1..Len(rx) : ~At(i, "CLOSED", Link)
      BY <1>1, <2>1 DEF OpeningInv, Pending
    <3>2. CASE busy = Idle
      <4>1. Link \in links /\ peer[Link] = "silent" /\ Pending("OK", None)
        BY <1>1, <2>1, <3>2 DEF OpeningInv
      <4>2. PICK q \in Id : \/ PeerLeft(q) /\ (q \in {sock, udp} => peer[q] = "done")
                            \/ \E kind \in {"IPD", "LAST"} : PeerSaid(q, kind)
        BY <1>0, <1>1, <3>2, IdleUndisturbed
      <4>3. busy' = Idle /\ peer'[Link] = "silent"
        BY <1>0, <1>1, <1>2, <3>2, <4>1, IdleUndisturbed, SilentKept, IdleFacts
      <4>4. Link \in links' /\ \A i \in 1..Len(rx') : ~At(i, "CLOSED", Link)'
        <5>1. CASE PeerLeft(q) /\ (q \in {sock, udp} => peer[q] = "done")
          BY <1>0, <1>2, <3>1, <4>1, <5>1 DEF PeerLeft, Adds, At
        <5>2. ASSUME NEW kind \in {"IPD", "LAST"}, PeerSaid(q, kind)
              PROVE  Link \in links' /\ \A i \in 1..Len(rx') : ~At(i, "CLOSED", Link)'
          BY <1>0, <1>2, <3>1, <4>1, <5>2 DEF PeerSaid, Adds, At
        <5> QED BY <4>2, <5>1, <5>2
      <4>5. ~Pending("CLOSED", Link)'
        BY <1>2, <4>4 DEF Pending
      <4> QED BY <1>2, <1>4, <2>1, <3>0, <3>1, <4>1, <4>3, <4>4, <4>5, NoCallFacts
    <3>3. CASE busy # Idle
      <4>1. busy.op = call.op /\ busy.id = Link /\ Link \notin links
        BY <1>1, <2>1, <3>0, <3>3 DEF OwingInv, OwnOK, OpeningInv
      <4>2. CASE Opened
        <5>1. busy' = Idle /\ Link \in links' /\ peer'[Link] = "silent"
          BY <1>0, <4>1, <4>2 DEF Opened, ModuleTypes
        <5>2. \A i \in 1..Len(rx') : ~At(i, "CLOSED", Link)'
          BY <1>0, <1>2, <3>1, <4>2 DEF Opened, AddsTwo, At
        <5>3. PICK l \in Nat : l = Len(rx) + 2
          BY <1>0
        <5>4. l \in 1..Len(rx') /\ At(l, "OK", None)'
          BY <1>0, <4>2, <5>3 DEF Opened, AddsTwo, At
        <5>5. ~Pending("CLOSED", Link)' /\ Pending("OK", None)'
          BY <1>2, <5>2, <5>4 DEF Pending
        <5> QED BY <2>1, <3>0, <3>1, <5>1, <5>5, NoCallFacts
      <4>3. ~Prompted /\ ~Taken /\ ~Disconnected
        BY <3>0, <4>1 DEF Prompted, Taken, Disconnected
      <4>4. ASSUME NEW q \in Id, PeerLeft(q) \/ \E kind \in {"IPD", "LAST"} : PeerSaid(q, kind)
            PROVE  busy' # Idle /\ Link \notin links' /\ ~Pending("CLOSED", Link)'
        <5>1. CASE PeerLeft(q)
          <6>1. q # Link
            BY <4>1, <5>1 DEF PeerLeft
          <6>2. \A i \in 1..Len(rx') : ~At(i, "CLOSED", Link)'
            BY <1>0, <1>2, <3>1, <5>1, <6>1 DEF PeerLeft, Adds, At
          <6> QED BY <1>2, <3>3, <4>1, <5>1, <6>2 DEF PeerLeft, Pending
        <5>2. ASSUME NEW kind \in {"IPD", "LAST"}, PeerSaid(q, kind)
              PROVE  busy' # Idle /\ Link \notin links' /\ ~Pending("CLOSED", Link)'
          <6>2. \A i \in 1..Len(rx') : ~At(i, "CLOSED", Link)'
            BY <1>0, <1>2, <3>1, <5>2 DEF PeerSaid, Adds, At
          <6> QED BY <1>2, <3>3, <4>1, <5>2, <6>2 DEF PeerSaid, Pending
        <5> QED BY <4>4, <5>1, <5>2
      <4> QED BY <1>1, <2>1, <3>0, <3>1, <4>2, <4>3, <4>4, NoCallFacts DEF Undisturbed
    <3> QED BY <3>2, <3>3
  <2>2. CASE call.awaits # "OK"
    <3>1. call = NoCall => busy = Idle /\ Standing(Link) /\ peer[Link] = "silent" /\ ret = "true"
      BY <1>1 DEF OpeningInv
    <3> QED BY <1>7, <2>2, <3>1
  <2> QED BY <2>1, <2>2
<1>10. SendingInv'
  <2> SUFFICES ASSUME pc \in {"question", "send"}
      PROVE /\ call.op = "send" /\ call.awaits = "none" => busy' = Idle /\ Standing(Link)' /\ peer'[Link] = "silent"
            /\ call.awaits = ">" =>
                 /\ Standing(Link)' /\ peer'[Link] = "silent"
                 /\ IF busy' = Idle THEN Pending(">", None)' ELSE busy'.op = "CIPSEND" /\ busy'.id = Link
            /\ call.awaits = "SENDOK" =>
                 IF busy' = Idle THEN Pending("SENDOK", None)' /\ Answering(Link)'
                                 ELSE Standing(Link)' /\ peer'[Link] = "silent"
            /\ call = NoCall => ret = "true" /\ Answering(Link)'
    BY <1>0, <1>2 DEF SendingInv
  <2>1. CASE call.op = "send" /\ call.awaits = "none"
    <3>1. busy = Idle /\ Standing(Link) /\ peer[Link] = "silent" /\ call # NoCall
      BY <1>1, <2>1, NoCallFacts DEF SendingInv
    <3> QED BY <1>7, <2>1, <3>1
  <2>2. CASE call.awaits = ">"
    <3>1. Standing(Link) /\ peer[Link] = "silent" /\ call # NoCall /\ call.op = "send"
      BY <1>0, <1>1, <2>2, NoCallFacts DEF SendingInv, CallInv
    <3>2. CASE busy = Idle
      BY <1>1, <1>4, <1>7, <2>2, <3>1, <3>2 DEF SendingInv
    <3>3. CASE busy # Idle
      <4>1. busy.op = "CIPSEND" /\ busy.id = Link
        BY <1>1, <2>2, <3>3 DEF SendingInv
      <4>2. Standing(Link)' /\ peer'[Link] = "silent"
        BY <1>0, <1>1, <1>2, <3>1, <4>1, StandingKept, SilentKept
      <4>3. CASE Prompted
        <5>1. PICK l \in Nat : l = Len(rx) + 2
          BY <1>0
        <5>2. l \in 1..Len(rx') /\ At(l, ">", None)' /\ busy' = Idle
          BY <1>0, <4>3, <5>1 DEF Prompted, AddsTwo, At
        <5>3. Pending(">", None)'
          BY <5>2 DEF Pending
        <5> QED BY <2>2, <3>1, <4>2, <5>2, <5>3
      <4>4. busy' = busy \/ Prompted
        BY <1>1, <4>1 DEF Undisturbed, Opened, Taken, Disconnected, PeerLeft, PeerSaid
      <4> QED BY <2>2, <3>1, <3>3, <4>1, <4>2, <4>3, <4>4
    <3> QED BY <3>2, <3>3
  <2>3. CASE call.awaits = "SENDOK"
    <3>1. call # NoCall /\ call.op = "send"
      BY <1>0, <2>3, NoCallFacts DEF CallInv
    <3>2. CASE busy = Idle
      BY <1>1, <1>4, <1>8, <2>3, <3>1, <3>2 DEF SendingInv
    <3>3. CASE busy # Idle
      <4>1. Standing(Link) /\ peer[Link] = "silent" /\ busy.op = "data" /\ busy.id = Link
        BY <1>0, <1>1, <1>2, <2>3, <3>1, <3>3 DEF SendingInv, StreamInv, SendInv, BusyInv, ModuleTypes, Commands
      <4>2. Standing(Link)'
        BY <1>0, <1>1, <1>2, <4>1, StandingKept
      <4>3. CASE Taken
        <5>1. PICK l \in Nat : l = Len(rx) + 1
          BY <1>0
        <5>2. l \in 1..Len(rx') /\ At(l, "SENDOK", None)' /\ busy' = Idle
          BY <1>0, <4>3, <5>1 DEF Taken, Adds, At
        <5>3. peer'[Link] = "asked"
          BY <1>0, <1>2, <4>1, <4>3 DEF Taken, ModuleTypes
        <5>4. Pending("SENDOK", None)' /\ Answering(Link)'
          BY <1>2, <4>2, <5>2, <5>3 DEF Pending, Answering
        <5> QED BY <2>3, <3>1, <5>2, <5>4
      <4>4. CASE ~Taken
        <5>1. PICK q \in Id : PeerLeft(q) \/ \E kind \in {"IPD", "LAST"} : PeerSaid(q, kind)
          BY <1>1, <4>1, <4>4 DEF Undisturbed, Opened, Prompted, Disconnected
        <5>2. busy' = busy
          BY <5>1 DEF PeerLeft, PeerSaid
        <5>3. peer'[Link] = "silent"
          BY <1>0, <1>2, <4>1, <5>1 DEF PeerLeft, PeerSaid, ModuleTypes
        <5> QED BY <2>3, <3>1, <3>3, <4>2, <5>2, <5>3
      <4> QED BY <4>3, <4>4
    <3> QED BY <3>2, <3>3
  <2>4. CASE call = NoCall
    <3>1. ret = "true" /\ Answering(Link) /\ busy = Idle
      BY <1>1, <2>4, NoCallFacts DEF SendingInv, PointInv, Quiet
    <3> QED BY <1>8, <2>4, <3>1, NoCallFacts
  <2> QED BY <1>0, <2>1, <2>2, <2>3, <2>4 DEF CallInv
<1>11. ReceivingInv'
  <2> SUFFICES ASSUME pc \in {"answer", "recv"}
      PROVE IF call = NoCall THEN ret \in {"last", "more", "block"} /\ (ret # "last" => Answering(Link)')
                             ELSE Answering(Link)'
    BY <1>0, <1>2 DEF ReceivingInv
  <2>1. busy = Idle
    BY DEF PointInv, Quiet
  <2> QED BY <1>1, <1>8, <2>1 DEF ReceivingInv
<1> QED BY <1>5, <1>6, <1>9, <1>10, <1>11

\* Which step of the driver returns what.
LEMMA PolledReturns ==
  ASSUME Calling, DRecvPolled PROVE RecvPolled
BY DEF Calling, Driver, DRecvPolled, Parse, OpenEnter, OpenMatched, OpenTimedOut, SendEnter,
       SendPrompted, SendMatched, SendTimedOut, CloseEnter, CloseMatched, CloseTimedOut, RecvEnter,
       Entering, Matched, TimedOut

LEMMA OpenGivenUp ==
  ASSUME Calling, DOpenTimedOut, ~fault' PROVE busy = Idle
PROOF
<1>1. call.op \in {"TCP", "UDP"} /\ call.awaits = "OK" /\ rx = <<>>
  BY DEF DOpenTimedOut, DOpenReturn
<1>2. OpenTimedOut
  BY <1>1 DEF Calling, Driver, Parse, OpenEnter, OpenMatched, SendEnter, SendPrompted, SendMatched,
       SendTimedOut, CloseEnter, CloseMatched, CloseTimedOut, RecvEnter, RecvPolled,
       Entering, Matched, TimedOut
<1> QED BY <1>2 DEF Calling

\* What reading a line leaves as it was.
LEMMA ReadKeeps ==
  ASSUME rx \in Seq(Lines), rx' \in Seq(Lines), Reads \/ rx' = rx, NEW k, NEW i
  PROVE  /\ ~Pending(k, i) => ~Pending(k, i)'
         /\ Pending(k, i) /\ (rx' = rx \/ rx[1].kind # k) => Pending(k, i)'
PROOF
<1>0. Len(rx) \in Nat /\ Len(rx') \in Nat
  OBVIOUS
<1>1. CASE rx' = rx
  BY <1>1 DEF Pending, At
<1>2. CASE Reads
  <2>1. \A j \in 1..Len(rx') : j + 1 \in 1..Len(rx) /\ rx'[j] = rx[j + 1]
    BY <1>0, <1>2 DEF Reads
  <2>2. ~Pending(k, i) => ~Pending(k, i)'
    BY <2>1 DEF Pending, At
  <2>3. ASSUME NEW j \in 1..Len(rx), At(j, k, i), rx[1].kind # k PROVE Pending(k, i)'
    <3>1. j # 1
      BY <2>3 DEF At
    <3>2. PICK l \in Nat : l + 1 = j
      BY <1>0, <2>3, <3>1
    <3>3. l \in 1..Len(rx') /\ rx'[l] = rx[j]
      BY <1>0, <1>2, <2>3, <3>1, <3>2 DEF Reads
    <3> QED BY <2>3, <3>3 DEF Pending, At
  <2>4. CASE rx' # rx
    BY <2>2, <2>3, <2>4 DEF Pending
  <2>5. CASE rx' = rx
    BY <1>1, <2>5 DEF Pending, At
  <2> QED BY <2>4, <2>5
<1> QED BY <1>1, <1>2

LEMMA ParseStanding ==
  ASSUME ModuleTypes, rx' \in Seq(Lines), DParse, NEW s \in Id, Standing(s) PROVE Standing(s)'
PROOF
<1>1. rx \in Seq(Lines) /\ ~Pending("CLOSED", s) /\ s \in links /\ IsOpen(s) /\ Reads
  BY DEF ModuleTypes, Standing, DParse
<1>2. ~At(1, "CLOSED", s)
  BY <1>1 DEF Pending, Reads
<1>3. IsOpen(s)'
  BY <1>1, <1>2 DEF IsOpen, DParse, At
<1>4. ~Pending("CLOSED", s)'
  BY <1>1, ReadKeeps
<1> QED BY <1>1, <1>3, <1>4 DEF Standing, DParse

LEMMA ParseAnswering ==
  ASSUME ModuleTypes, rx' \in Seq(Lines), DParse, NEW s \in Id, Answering(s) PROVE Answering(s)'
PROOF
<1>1. rx \in Seq(Lines) /\ Reads /\ peer' = peer /\ packets \subseteq packets' /\ rx[1] \in Lines
  BY DEF ModuleTypes, DParse, Reads
<1>2. CASE peer[s] # "done"
  BY <1>1, <1>2, ParseStanding DEF Answering
<1>3. CASE peer[s] = "done" /\ Line("LAST", s) \in packets
  BY <1>1, <1>3 DEF Answering
<1>4. CASE peer[s] = "done" /\ Pending("LAST", s)
  <2>1. CASE At(1, "LAST", s)
    <3>1. rx[1] = Line("LAST", s)
      BY <1>1, <2>1 DEF At, Lines, Line
    <3>2. rx[1] \in packets'
      BY <2>1 DEF At, DParse
    <3> QED BY <1>1, <1>4, <3>1, <3>2 DEF Answering
  <2>2. CASE ~At(1, "LAST", s)
    <3>1. PICK j \in 1..Len(rx) : At(j, "LAST", s)
      BY <1>4 DEF Pending
    <3>2. j # 1 /\ Len(rx) \in Nat
      BY <1>1, <2>2, <3>1
    <3>3. PICK l \in Nat : l + 1 = j
      BY <3>1, <3>2
    <3>4. l \in 1..Len(rx') /\ rx'[l] = rx[j]
      BY <1>1, <3>1, <3>2, <3>3 DEF Reads
    <3>5. Pending("LAST", s)'
      BY <3>1, <3>4 DEF Pending, At
    <3> QED BY <1>1, <1>4, <3>5 DEF Answering
  <2> QED BY <2>1, <2>2
<1> QED BY <1>2, <1>3, <1>4 DEF Answering

\* A socket that the module has said nothing about yet.
LEMMA NothingSaid ==
  ASSUME Types, StreamInv, NEW s \in Id, Alternates(s), s \notin id_bits, ~Pending("CONNECT", s)
  PROVE  s \notin links /\ ~Pending("CLOSED", s)
PROOF
<1>1. Len(rx) \in Nat /\ \A i \in 1..Len(rx) : ~At(i, "CONNECT", s)
  BY DEF Types, ModuleTypes, Pending
<1>2. s \notin links
  BY <1>1 DEF StreamInv, LinkInv, EndsOpen
<1>3. ASSUME NEW i \in 1..Len(rx), At(i, "CLOSED", s) PROVE FALSE
  <2>1. \A j \in 1..i-1 : j \in 1..Len(rx)
    BY <1>1
  <2> QED BY <1>1, <1>3, <2>1 DEF Alternates
<1> QED BY <1>2, <1>3 DEF Pending

\* The sock of the request is not touched by the lookup.
LEMMA CallingAhead ==
  ASSUME Types, OwnerInv, StreamInv, AlternateInv, AheadInv, Calling, ~owing', pc # "idle"
  PROVE  AheadInv'
PROOF
<1>0. /\ rx \in Seq(Lines) /\ rx' \in Seq(Lines) /\ CallInv /\ Len(rx) \in Nat
      /\ \/ DriverDoes /\ owing' = owing
         \/ DOpenEnter /\ (owing' <=> (busy # Idle \/ Line("OK", None) \in Range(rx)))
      /\ UNCHANGED <<pc, sock, udp>> /\ call # NoCall /\ pc \notin {"lookup", "query"} /\ sock \in Id
      /\ OwnersDistinct
  BY DriverStep, CallingLeaves, CallingCalls, LinkFacts DEF Types, ModuleTypes, OwnerInv
<1>1. (LookingUp' <=> LookingUp) /\ (LookingUp => call.id = udp /\ udp # sock)
  BY <1>0, NoneIsNoId DEF LookingUp, CallInv, OwnersDistinct
<1>2. CASE ~LookingUp
  <2>1. pc = "connect" => ~Untried'
    <3>1. call.op = "TCP" /\ pc = "connect" => DParse \/ DOpenEnter \/ DOpenMatched \/ DOpenTimedOut
      BY <1>0 DEF DriverDoes, DSendEnter, DSendPrompted, DSendMatched, DSendTimedOut, DCloseEnter,
                  DCloseMatched, DCloseTimedOut, DRecvEnter, DRecvPolled
    <3>2. pc = "connect" => call.op = "TCP"
      BY <1>0 DEF CallInv
    <3> QED BY <1>0, <3>1, <3>2 DEF DParse, DOpenEnter, DOpenMatched, DOpenTimedOut, DOpenReturn, GoesOn, Untried
  <2> QED BY <1>0, <1>1, <1>2, <2>1 DEF AheadInv
<1>3. CASE LookingUp
  <2>0. sock \notin id_bits \cup id_close /\ Alternates(sock)
    BY <1>0, <1>3 DEF AheadInv, AlternateInv, OwnersDistinct, Doomed, LookingUp
  <2>1. CASE DOpenEnter /\ (owing' <=> (busy # Idle \/ Line("OK", None) \in Range(rx)))
    <3>1. busy = Idle /\ Line("OK", None) \notin Range(rx)
      BY <2>1
    <3>2. ASSUME NEW i \in 1..Len(rx) PROVE rx[i].kind # "OK"
      <4>1. rx[i] \in Lines /\ rx[i] \in Range(rx)
        BY <1>0 DEF Range
      <4>2. rx[i].kind = "OK" => rx[i].id = None
        BY <3>2, <4>1 DEF Types, ModuleTypes, OobKinds, Lines
      <4>3. rx[i].kind = "OK" => rx[i] = Line("OK", None)
        BY <4>1, <4>2 DEF Lines, Line
      <4> QED BY <3>1, <4>1, <4>3
    <3>3. ~Pending("CONNECT", sock)
      BY <1>0, <3>2 DEF StreamInv, ConnectThenOK, Pending, At
    <3>4. busy'.id # sock
      BY <1>1, <1>3, <2>1, <3>1 DEF DOpenEnter, Orders
    <3>5. ~Pending("CONNECT", sock)' /\ UNCHANGED <<id_bits, id_close>>
      BY <1>0, <2>1, <3>3 DEF DOpenEnter, Pending, At
    <3> QED BY <1>0, <1>1, <1>3, <2>0, <3>4, <3>5 DEF AheadInv
  <2>2. CASE DriverDoes /\ owing' = owing
    <3>1. ~Untried
      <4>1. CASE pc = "reconnect" /\ call.awaits = "none"
        <5>1. call.op = "UDP"
          BY <1>0, <4>1 DEF CallInv
        <5> QED BY <2>2, <4>1, <5>1 DEF DriverDoes, DParse, DOpenMatched, DOpenTimedOut, DOpenReturn,
             DSendEnter, DSendPrompted, DSendMatched, DSendTimedOut, DCloseEnter, DCloseMatched,
             DCloseTimedOut, DRecvEnter, DRecvPolled
      <4> QED BY <1>0, <1>3, <4>1 DEF Untried, LookingUp
    <3>2. busy.id # sock /\ ~Pending("CONNECT", sock)
      BY <1>3, <3>1 DEF AheadInv
    <3>3. ~Pending("CLOSED", sock)
      BY <1>0, <2>0, <3>2, NothingSaid
    <3>4. Reads \/ rx' = rx
      BY <2>2, DriverReads
    <3>5. ~Pending("CONNECT", sock)'
      BY <1>0, <3>2, <3>4, ReadKeeps
    <3>6. Reads => ~At(1, "CONNECT", sock) /\ ~At(1, "CLOSED", sock)
      BY <1>0, <3>2, <3>3 DEF Pending, Reads
    <3>7. sock \notin id_bits' \cup id_close' /\ busy'.id # sock
      <4> USE <1>1, <1>3, <2>0, <3>2, <3>6 DEF Orders, At
      <4>1. CASE DParse
        BY <4>1 DEF DParse
      <4>2. CASE DOpenMatched \/ DOpenTimedOut
        BY <4>2 DEF DOpenMatched, DOpenTimedOut, DOpenReturn
      <4>3. CASE DSendEnter \/ DSendPrompted \/ DSendMatched \/ DSendTimedOut
        BY <4>3 DEF DSendEnter, DSendPrompted, DSendMatched, DSendTimedOut
      <4>4. CASE DCloseEnter \/ DCloseMatched \/ DCloseTimedOut
        BY <4>4 DEF DCloseEnter, DCloseMatched, DCloseTimedOut, DRelease
      <4>5. CASE DRecvEnter \/ DRecvPolled
        BY <4>5 DEF DRecvEnter, DRecvPolled
      <4> QED BY <2>2, <4>1, <4>2, <4>3, <4>4, <4>5 DEF DriverDoes
    <3> QED BY <1>0, <1>1, <1>3, <3>5, <3>7 DEF AheadInv
  <2> QED BY <1>0, <2>1, <2>2
<1> QED BY <1>2, <1>3

LEMMA CallingKeepsSmooth ==
  ASSUME Types, OwnerInv, StreamInv, AlternateInv, PointInv, OwingInv, SmoothInv, Calling
  PROVE  SmoothInv'
PROOF
<1>0. /\ ModuleTypes /\ rx \in Seq(Lines) /\ rx' \in Seq(Lines) /\ CallInv /\ Len(rx) \in Nat
      /\ \/ DriverDoes /\ owing' = owing
         \/ DOpenEnter /\ (owing' <=> (busy # Idle \/ Line("OK", None) \in Range(rx)))
      /\ UNCHANGED <<pc, sock, udp, udpAddr, server, attempts, resolved>> /\ call # NoCall
      /\ pc \notin {"idle", "lookup", "query"}
  BY DriverStep, CallingLeaves, CallingCalls DEF Types, ModuleTypes
<1> SUFFICES ASSUME ~fault'
             PROVE  AheadInv' /\ LookupInv' /\ OpeningInv' /\ SendingInv' /\ ReceivingInv'
  BY <1>0 DEF SmoothInv
<1>1. ~fault /\ ~owing' /\ AheadInv /\ LookupInv /\ OpeningInv /\ SendingInv /\ ReceivingInv
  BY <1>0 DEF SmoothInv, Calling
<1>2. AheadInv'
  BY <1>0, <1>1, CallingAhead
<1>3. Link' = Link /\ Link \in Id /\ call.id = Link
  BY <1>0, LinkFacts DEF Link, LookingUp
<1>4. UNCHANGED <<links, peer>>
  BY <1>0, DriverReads
<1>5. CASE pc \in {"unlook", "close"}
  <2>1. call.op = "close" /\ pc # "disconnect"
    BY <1>0, <1>1, <1>5 DEF CallInv, LookupInv
  <2>2. call' = NoCall => ret' = "true"
    <3>1. CASE DCloseEnter \/ DCloseMatched
      BY <3>1 DEF DCloseEnter, DCloseMatched, DRelease, GoesOn
    <3>2. CASE DCloseTimedOut
      BY <3>2 DEF DCloseTimedOut, StreamInv, CloseInv, GoesOn
    <3>3. CASE DParse
      BY <1>0, <3>3 DEF DParse
    <3>4. DCloseEnter \/ DCloseMatched \/ DCloseTimedOut \/ DParse
      BY <1>0, <2>1 DEF DriverDoes, DOpenEnter, DOpenMatched, DOpenTimedOut, DOpenReturn, DSendEnter, DSendPrompted, DSendMatched,
                  DSendTimedOut, DRecvEnter, DRecvPolled
    <3> QED BY <3>1, <3>2, <3>3, <3>4
  <2>3. LookupInv'
    BY <1>0, <1>1, <2>2 DEF LookupInv
  <2> QED BY <1>0, <1>2, <1>5, <2>3 DEF OpeningInv, SendingInv, ReceivingInv
<1>6. CASE pc \in {"connect", "reconnect"}
  <2>1. call.op \in {"TCP", "UDP"}
    BY <1>0, <1>6 DEF CallInv
  <2>2. (DParse /\ owing' = owing) \/ DOpenEnter \/ (DOpenMatched /\ owing' = owing) \/ DOpenTimedOut
    BY <1>0, <2>1 DEF DriverDoes, DSendEnter, DSendPrompted, DSendMatched, DSendTimedOut, DCloseEnter,
                DCloseMatched, DCloseTimedOut, DRecvEnter, DRecvPolled
  <2>3. OpeningInv'
    <3>1. CASE DParse
      <4>0. call.awaits = "OK" /\ call' = call /\ Reads /\ busy' = busy
        BY <1>0, <2>1, <3>1 DEF DParse, CallInv
      <4>1. /\ Link \notin id_close /\ ~Pending("CLOSED", Link)
            /\ IF busy = Idle THEN Link \in links /\ peer[Link] = "silent" /\ Pending("OK", None)
                              ELSE Link \notin links
        BY <1>1, <1>6, <4>0 DEF OpeningInv
      <4>2. ~At(1, "CLOSED", Link)
        BY <4>0, <4>1 DEF Pending, Reads
      <4>3. Link \notin id_close'
        BY <3>1, <4>1, <4>2 DEF DParse, At
      <4>4. ~Pending("CLOSED", Link)' /\ (Pending("OK", None) => Pending("OK", None)')
        BY <1>0, <1>3, <3>1, <4>0, <4>1, ReadKeeps DEF DParse
      <4> QED BY <1>0, <1>3, <1>4, <1>6, <4>0, <4>1, <4>3, <4>4 DEF OpeningInv
    <3>2. CASE DOpenEnter
      <4>1. busy = Idle /\ Line("OK", None) \notin Range(rx)
        BY <1>0, <1>1, <2>1, <3>2 DEF DriverDoes, DOpenEnter, DParse, DOpenMatched, DOpenTimedOut, DOpenReturn,
                DSendEnter, DSendPrompted, DSendMatched, DSendTimedOut, DCloseEnter,
                DCloseMatched, DCloseTimedOut, DRecvEnter, DRecvPolled
      <4>2. ASSUME NEW i \in 1..Len(rx) PROVE rx[i].kind # "OK"
        <5>1. rx[i] \in Lines /\ rx[i] \in Range(rx)
          BY <1>0 DEF Range
        <5>2. rx[i].kind = "OK" => rx[i].id = None
          BY <4>2, <5>1 DEF Types, ModuleTypes, OobKinds, Lines
        <5>3. rx[i].kind = "OK" => rx[i] = Line("OK", None)
          BY <5>1, <5>2 DEF Lines, Line
        <5> QED BY <4>1, <5>1, <5>3
      <4>3. ~Pending("CONNECT", Link)
        <5>1. ASSUME NEW i \in 1..Len(rx) PROVE rx[i].kind # "CONNECT"
          <6>1. rx[i].kind = "CONNECT" => i + 1 \in 1..Len(rx) /\ rx[i + 1].kind = "OK"
            BY <1>0 DEF StreamInv, ConnectThenOK
          <6> QED BY <4>2, <6>1
        <5> QED BY <5>1 DEF Pending, At
      <4>4. Link \notin id_bits \cup id_close
        <5>1. CASE pc = "connect"
          BY <1>0, <1>1, <3>2, <5>1 DEF DOpenEnter, AheadInv, Untried, Link, LookingUp
        <5>2. CASE pc = "reconnect"
          <6>1. call.op = "UDP" /\ call.awaits = "none" /\ Link = udp
            BY <1>0, <3>2, <5>2 DEF DOpenEnter, CallInv, Link, LookingUp
          <6> QED BY <5>2, <6>1 DEF PointInv
        <5> QED BY <1>6, <5>1, <5>2
      <4>5. Alternates(Link)
        <5>1. Link \notin lost
          BY DEF OwnerInv, OwnersDistinct, Link
        <5>2. ~(Link = sock /\ Doomed)
          <6>1. CASE pc = "connect"
            BY <1>0, <3>2, <6>1 DEF Doomed, DOpenEnter, CallInv
          <6>2. CASE pc = "reconnect"
            BY <6>2 DEF Doomed
          <6> QED BY <1>6, <6>1, <6>2
        <5> QED BY <1>3, <5>1, <5>2 DEF AlternateInv
      <4>6. Link \notin links /\ ~Pending("CLOSED", Link)
        BY <1>3, <4>3, <4>4, <4>5, NothingSaid
      <4>7. busy' # Idle /\ call' # NoCall /\ UNCHANGED <<rx, id_close, links>>
        BY <3>2, <4>1 DEF DOpenEnter, Orders, GoesOn
      <4>8. ~Pending("CLOSED", Link)'
        BY <1>3, <4>6, <4>7 DEF Pending, At
      <4> QED BY <1>3, <4>4, <4>6, <4>7, <4>8 DEF OpeningInv
    <3>3. CASE DOpenMatched /\ owing' = owing
      <4>1. call.awaits = "OK" /\ rx[1].kind = "OK" /\ 1 \in 1..Len(rx) /\ call' = NoCall /\ ret' = "true" /\ ~owing
            /\ UNCHANGED <<id_bits, id_close, busy>> /\ Reads
        BY <1>0, <1>1, <3>3 DEF DOpenMatched, DOpenReturn, Reads
      <4>2. Link \in id_bits
        BY <1>3, <3>3, <4>1, OpenMatchedOpens
      <4>3. busy = Idle
        BY <2>1, <4>1 DEF OwingInv, OwnOK
      <4>4. Link \notin id_close /\ ~Pending("CLOSED", Link) /\ Link \in links /\ peer[Link] = "silent"
        BY <1>1, <1>6, <4>1, <4>3 DEF OpeningInv
      <4>5. ~Pending("CLOSED", Link)'
        BY <1>0, <1>3, <4>1, <4>4, ReadKeeps
      <4>6. Standing(Link)'
        BY <1>3, <1>4, <4>1, <4>2, <4>4, <4>5 DEF Standing, IsOpen
      <4> QED BY <1>3, <1>4, <4>1, <4>3, <4>4, <4>6, NoCallFacts DEF OpeningInv
    <3>4. CASE DOpenTimedOut
      <4>1. busy = Idle /\ call.awaits = "OK" /\ rx = <<>>
        BY <3>4, OpenGivenUp DEF DOpenTimedOut, DOpenReturn
      <4>2. Pending("OK", None)
        BY <1>1, <1>6, <4>1 DEF OpeningInv
      <4> QED BY <4>1, <4>2 DEF Pending
    <3> QED BY <2>2, <3>1, <3>2, <3>3, <3>4
  <2> QED BY <1>0, <1>1, <1>2, <1>6, <2>3 DEF LookupInv, SendingInv, ReceivingInv
<1>7. CASE pc \in {"question", "send"}
  <2>1. call.op = "send"
    BY <1>0, <1>7 DEF CallInv
  <2>2. DParse \/ DSendEnter \/ DSendPrompted \/ DSendMatched \/ DSendTimedOut
    BY <1>0, <2>1 DEF DriverDoes, DOpenEnter, DOpenMatched, DOpenTimedOut, DOpenReturn, DCloseEnter,
                DCloseMatched, DCloseTimedOut, DRecvEnter, DRecvPolled
  <2>3. SendingInv'
    <3>1. CASE DParse
      <4>1. /\ call.awaits # "none" /\ rx[1].kind # call.awaits /\ Reads /\ UNCHANGED <<call, ret, busy>>
        BY <3>1 DEF DParse
      <4>2. (Standing(Link) => Standing(Link)') /\ (Answering(Link) => Answering(Link)')
        BY <1>0, <1>3, <3>1, ParseStanding, ParseAnswering
      <4>3. /\ call.awaits = ">" /\ Pending(">", None) => Pending(">", None)'
            /\ call.awaits = "SENDOK" /\ Pending("SENDOK", None) => Pending("SENDOK", None)'
        BY <1>0, <4>1, ReadKeeps
      <4> QED BY <1>0, <1>1, <1>3, <1>4, <1>7, <4>1, <4>2, <4>3 DEF SendingInv
    <3>2. CASE DSendEnter
      <4>1. busy = Idle /\ Standing(Link) /\ peer[Link] = "silent" /\ IsOpen(call.id)
        BY <1>1, <1>3, <1>7, <3>2 DEF DSendEnter, SendingInv, Standing
      <4>2. /\ busy' # Idle /\ busy'.op = "CIPSEND" /\ busy'.id = Link
            /\ call'.awaits = ">" /\ call' # NoCall /\ UNCHANGED <<id_bits, id_close, rx>>
        BY <1>3, <3>2, <4>1 DEF DSendEnter, Orders, GoesOn
      <4>3. Standing(Link)'
        BY <1>3, <1>4, <4>1, <4>2 DEF Standing, IsOpen, Pending, At
      <4> QED BY <1>3, <1>4, <4>1, <4>2, <4>3 DEF SendingInv
    <3>3. CASE DSendPrompted
      <4>1. busy = Idle /\ Standing(Link) /\ peer[Link] = "silent" /\ Reads
        BY <1>0, <1>1, <1>7, <3>3 DEF DSendPrompted, SendingInv, StreamInv, SendInv, Reads
      <4>2. /\ busy' # Idle /\ call'.awaits = "SENDOK" /\ call' # NoCall /\ UNCHANGED <<id_bits, id_close>>
        BY <3>3, <4>1 DEF DSendPrompted, Orders, GoesOn
      <4>3. ~Pending("CLOSED", Link)'
        BY <1>0, <1>3, <4>1, ReadKeeps DEF Standing
      <4>4. Standing(Link)'
        BY <1>3, <1>4, <4>1, <4>2, <4>3 DEF Standing, IsOpen
      <4> QED BY <1>3, <1>4, <4>1, <4>2, <4>4 DEF SendingInv
    <3>4. CASE DSendMatched
      <4>1. busy = Idle /\ call.awaits = "SENDOK" /\ rx[1].kind = "SENDOK" /\ Reads /\ call' = NoCall /\ ret' = "true"
            /\ UNCHANGED <<id_bits, id_close, packets>>
        BY <1>0, <3>4 DEF DSendMatched, StreamInv, SendInv, Reads
      <4>2. Answering(Link)
        BY <1>1, <1>7, <4>1 DEF SendingInv
      <4>3. (~Pending("CLOSED", Link) => ~Pending("CLOSED", Link)') /\ (Pending("LAST", Link) => Pending("LAST", Link)')
        BY <1>0, <1>3, <4>1, ReadKeeps
      <4>4. Answering(Link)'
        BY <1>3, <1>4, <4>1, <4>2, <4>3 DEF Answering, Standing, IsOpen
      <4> QED BY <4>1, <4>4, NoCallFacts DEF SendingInv
    <3>5. CASE DSendTimedOut
      <4>1. call.awaits \in {">", "SENDOK"} /\ rx = <<>> /\ (busy = Idle \/ busy.op = "TCP")
        BY <3>5 DEF DSendTimedOut
      <4>2. ~Pending(">", None) /\ ~Pending("SENDOK", None)
        BY <4>1 DEF Pending
      <4>3. call.awaits = "SENDOK" => busy.op \in {"none", "data"}
        BY DEF StreamInv, SendInv
      <4> QED BY <1>1, <1>7, <4>1, <4>2, <4>3 DEF SendingInv
    <3> QED BY <2>2, <3>1, <3>2, <3>3, <3>4, <3>5
  <2> QED BY <1>0, <1>1, <1>2, <1>7, <2>3 DEF LookupInv, OpeningInv, ReceivingInv
<1>8. CASE pc \in {"answer", "recv"}
  <2>1. call.op = "recv" /\ Answering(Link)
    BY <1>0, <1>1, <1>8 DEF CallInv, ReceivingInv
  <2>2. DParse \/ DRecvEnter \/ DRecvPolled
    BY <1>0, <2>1 DEF DriverDoes, DOpenEnter, DOpenMatched, DOpenTimedOut, DOpenReturn, DCloseEnter,
                DCloseMatched, DCloseTimedOut, DSendEnter, DSendPrompted, DSendMatched, DSendTimedOut
  <2>3. ReceivingInv'
    <3>1. CASE DParse
      <4>1. Answering(Link)' /\ call' = call
        BY <1>0, <1>3, <2>1, <3>1, ParseAnswering DEF DParse
      <4> QED BY <1>0, <1>3, <4>1 DEF ReceivingInv
    <3>2. CASE DRecvEnter
      <4>1. Answering(Link)' /\ call' # NoCall
        BY <1>3, <1>4, <2>1, <3>2 DEF DRecvEnter, GoesOn, Answering, Standing, IsOpen, Pending, At
      <4> QED BY <4>1 DEF ReceivingInv
    <3>3. CASE DRecvPolled
      <4>1. RecvPolled /\ rx = <<>> /\ rx' = rx /\ call' = NoCall /\ UNCHANGED <<id_bits, id_close>>
        BY <3>3, PolledReturns DEF DRecvPolled
      <4>2. ret' = IF Line("LAST", Link) \in packets THEN "last"
                   ELSE IF Line("IPD", Link) \in packets THEN "more"
                   ELSE IF IsOpen(Link) THEN "block" ELSE "closed"
        BY <1>3, <4>1 DEF RecvPolled, Return
      <4>3. ~Pending("LAST", Link)
        BY <4>1 DEF Pending
      <4>4. CASE peer[Link] = "done"
        <5>1. Line("LAST", Link) \in packets
          BY <2>1, <4>3, <4>4 DEF Answering
        <5>2. ret' = "last"
          BY <4>2, <5>1
        <5> QED BY <4>1, <5>2 DEF ReceivingInv
      <4>5. CASE peer[Link] # "done"
        <5>1. Standing(Link) /\ peer[Link] # "silent"
          BY <2>1, <4>5 DEF Answering
        <5>2. Answering(Link)'
          BY <1>3, <1>4, <4>1, <4>5, <5>1 DEF Answering, Standing, IsOpen, Pending, At
        <5>3. ret' \in {"last", "more", "block"}
          BY <4>2, <5>1 DEF Standing
        <5> QED BY <4>1, <5>2, <5>3 DEF ReceivingInv
      <4> QED BY <4>4, <4>5
    <3> QED BY <2>2, <3>1, <3>2, <3>3
  <2> QED BY <1>0, <1>1, <1>2, <1>8, <2>3 DEF LookupInv, OpeningInv, SendingInv
<1> QED BY <1>0, <1>1, <1>5, <1>6, <1>7, <1>8 DEF CallInv, LookupInv

\* A lookup that nothing disturbs asks one server once.
LEMMA ClientKeepsSmooth ==
  ASSUME Types, OwnerInv, SpareInv, SmoothInv, Client PROVE SmoothInv'
PROOF
<1>0. /\ call = NoCall /\ call.awaits = "none" /\ RequestTypes
      /\ UNCHANGED <<id_bits, id_close, packets, rx, links, busy, peer, owing>>
  BY ClientCalls, ClientLeaves, NoCallFacts DEF Types, DriverAndModule
<1> SUFFICES ASSUME ~fault', pc' # "idle"
             PROVE  AheadInv' /\ LookupInv' /\ OpeningInv' /\ SendingInv' /\ ReceivingInv'
  BY DEF SmoothInv
<1>1. CASE Open
  <2>1. pc = "idle" /\ pc' = "lookup" /\ get_free_id # {} /\ sock' = Lowest(get_free_id) /\ udp = None
    BY <1>0, <1>1 DEF Open, RequestTypes, LookingUp
  <2>2. sock' \in Id \ lost
    BY <2>1, IdleFree, LowestIsLeast, FreeIds
  <2>3. sock' \notin id_bits \cup id_close
    <3>1. Untouched(sock') \/ Heir(sock')
      BY <1>0, <2>1, <2>2, NoneIsNoId DEF SpareInv, RequestTypes
    <3> QED BY <3>1 DEF Untouched, Forgotten, Heir
  <2> QED BY <1>0, <2>1, <2>3 DEF AheadInv, Untried, LookingUp, LookupInv, OpeningInv, SendingInv, ReceivingInv
<1>2. CASE ~Open
  <2>0. pc # "idle"
    BY <1>2 DEF Client, OpenRefused, LookupCached, LookupRefused, Lookup, QueryAnotherRound,
         QueryGivesUp, Query, QueryDisconnected, QueryConnected, QueryNotSent, QuerySent,
         QueryReplied, QueryClosed, QueryWaits, QueryTimedOut, LookupDone, Connected, Sent, Received,
         Waits, RequestFails, RequestSucceeds, Returned, requestVars
  <2>1. ~fault /\ AheadInv /\ LookupInv /\ OpeningInv /\ SendingInv /\ ReceivingInv
    <3>1. ~fault
      BY <1>2 DEF Client, OpenRefused, LookupCached, LookupRefused, Lookup, QueryAnotherRound,
         QueryGivesUp, Query, QueryDisconnected, QueryConnected, QueryNotSent, QuerySent,
         QueryReplied, QueryClosed, QueryWaits, QueryTimedOut, LookupDone, Connected, Sent, Received,
         Waits, RequestFails, RequestSucceeds
    <3> QED BY <2>0, <3>1 DEF SmoothInv
  <2>2. ASSUME Link' = Link PROVE (Standing(Link) => Standing(Link)') /\ (Answering(Link) => Answering(Link)')
    BY <1>0, <2>2 DEF Standing, Answering, IsOpen, Pending, At
  <2>3. ASSUME sock' = sock, Begins("TCP", sock, "connect"), sock \notin id_bits \cup id_close
        PROVE  AheadInv' /\ LookupInv' /\ OpeningInv' /\ SendingInv' /\ ReceivingInv'
    BY <1>0, <2>3, NoCallFacts DEF Begins, AheadInv, Untried, LookingUp, LookupInv, OpeningInv, SendingInv, ReceivingInv
  <2> DEFINE Ahead == /\ ~Untried' => ~owing
                      /\ LookingUp' /\ ~Untried' => busy.id # sock /\ ~Pending("CONNECT", sock)
  <2>4. ASSUME LookingUp', sock' = sock, Ahead, sock \notin id_bits \cup id_close PROVE AheadInv'
    BY <1>0, <2>4 DEF AheadInv, Pending, At
  <2>5. CASE LookupCached
    BY <1>0, <2>1, <2>3, <2>5 DEF LookupCached, Calls, Start, Begins, AheadInv
  <2>6. CASE Lookup
    <3>1. /\ pc = "lookup" /\ pc' = "query" /\ sock' = sock /\ server' = 1 /\ udpAddr' = 0 /\ attempts' > 0
      BY <2>6, DnsAssumption DEF Lookup
    <3>2. AheadInv'
      BY <1>0, <2>1, <3>1 DEF AheadInv, Untried
    <3> QED BY <3>1, <3>2 DEF LookupInv, OpeningInv, SendingInv, ReceivingInv
  <2>7. CASE QueryAnotherRound \/ QueryGivesUp \/ QueryDisconnected \/ QueryNotSent \/ QueryClosed \/ QueryTimedOut
    <3>1. pc = "query" => server = 1 /\ attempts > 0 /\ ~(server > DnsServers) /\ ~(attempts = 0)
      BY <2>1, DnsAssumption DEF LookupInv
    <3>2. pc # "disconnect" /\ ~Returned("reconnect", {"false"}) /\ ~Returned("question", {"false"})
          /\ ~Returned("answer", {"closed"})
      BY <2>1 DEF LookupInv, OpeningInv, SendingInv, ReceivingInv, Returned
    <3> QED BY <2>7, <3>1, <3>2 DEF QueryAnotherRound, QueryGivesUp, QueryDisconnected, QueryNotSent,
                                    QueryClosed, QueryTimedOut, Returned
  <2>8. CASE Query
    <3>1. pc = "query" /\ udpAddr = 0 /\ server = 1
      BY <2>1, <2>8 DEF Query, LookupInv
    <3>2. Begins("UDP", udp, "reconnect") /\ sock' = sock
      BY <2>8, <3>1 DEF Query, Calls, Start, Begins
    <3>3. call' # NoCall /\ call'.awaits = "none" /\ Untried' /\ LookingUp'
      BY <3>2, NoCallFacts DEF Begins, Untried, LookingUp
    <3>4. sock \notin id_bits \cup id_close
      BY <2>1, <3>1 DEF AheadInv, LookingUp
    <3> QED BY <2>4, <3>2, <3>3, <3>4 DEF Begins, LookupInv, OpeningInv, SendingInv, ReceivingInv
  <2>9. ASSUME LookingUp, ~Untried, LookingUp', sock' = sock, udp' = udp
        PROVE  AheadInv' /\ Link' = Link
    <3>1. AheadInv'
      BY <1>0, <2>1, <2>4, <2>9 DEF AheadInv
    <3> QED BY <2>9, <3>1 DEF Link
  <2>10. CASE QueryConnected
    <3>1. /\ pc = "reconnect" /\ Begins("send", udp, "question") /\ sock' = sock /\ udp' = udp
      BY <2>10 DEF QueryConnected, Returned, Calls, Start, Begins
    <3>2. AheadInv' /\ Link' = Link
      BY <1>0, <2>9, <3>1 DEF Untried, LookingUp, Begins
    <3>3. busy = Idle /\ Standing(Link) /\ peer[Link] = "silent"
      BY <1>0, <2>1, <3>1 DEF OpeningInv
    <3>4. call'.awaits = "none" /\ call' # NoCall /\ pc' = "question"
      BY <3>1, NoCallFacts DEF Begins
    <3>5. SendingInv'
      BY <1>0, <2>2, <3>2, <3>3, <3>4 DEF SendingInv
    <3> QED BY <3>2, <3>4, <3>5 DEF LookupInv, OpeningInv, ReceivingInv
  <2>11. CASE QuerySent \/ QueryWaits
    <3>1. /\ pc \in {"question", "answer"} /\ Begins("recv", udp, "answer") /\ sock' = sock /\ udp' = udp
          /\ (pc = "answer" => ret = "block")
      BY <2>11 DEF QuerySent, QueryWaits, Returned, Calls, Start, Begins, dnsVars
    <3>2. AheadInv' /\ Link' = Link
      BY <1>0, <2>9, <3>1 DEF Untried, LookingUp, Begins
    <3>3. Answering(Link)
      BY <1>0, <2>1, <3>1 DEF SendingInv, ReceivingInv
    <3>4. call' # NoCall /\ pc' = "answer"
      BY <3>1, NoCallFacts DEF Begins
    <3> QED BY <2>2, <3>2, <3>3, <3>4 DEF LookupInv, OpeningInv, SendingInv, ReceivingInv
  <2>12. CASE QueryReplied
    <3>1. /\ pc = "answer" /\ resolved' /\ Begins("close", udp, "unlook") /\ sock' = sock /\ udp' = udp
      BY <2>12 DEF QueryReplied, Returned, Calls, Start, Begins
    <3>2. AheadInv' /\ Link' = Link
      BY <1>0, <2>9, <3>1 DEF Untried, LookingUp, Begins
    <3>3. call' # NoCall /\ pc' = "unlook"
      BY <3>1, NoCallFacts DEF Begins
    <3> QED BY <3>1, <3>2, <3>3 DEF LookupInv, OpeningInv, SendingInv, ReceivingInv
  <2>13. CASE LookupDone
    <3>1. sock' = sock /\ Begins("TCP", sock, "connect")
      BY <2>13 DEF LookupDone, Calls, Start, Begins, Fail
    <3>2. sock \notin id_bits \cup id_close
      BY <2>1, <2>13 DEF LookupDone, Returned, AheadInv, LookingUp
    <3> QED BY <2>3, <3>1, <3>2
  <2>14. ASSUME ~LookingUp, ~Untried, pc # "lookup", ~LookingUp', sock' = sock, pc' \notin {"lookup", "connect"}
         PROVE  AheadInv' /\ Link' = Link
    BY <1>0, <2>1, <2>14 DEF AheadInv, Link, Untried
  <2>15. CASE Connected
    <3>1. pc = "connect" /\ Begins("send", sock, "send") /\ sock' = sock
      BY <2>15 DEF Connected, Returned, Calls, Start, Begins
    <3>2. AheadInv' /\ Link' = Link
      BY <1>0, <2>14, <3>1 DEF Untried, LookingUp, Begins
    <3>3. busy = Idle /\ Standing(Link) /\ peer[Link] = "silent"
      BY <1>0, <2>1, <3>1 DEF OpeningInv
    <3>4. call'.awaits = "none" /\ call' # NoCall /\ pc' = "send"
      BY <3>1, NoCallFacts DEF Begins
    <3>5. SendingInv'
      BY <1>0, <2>2, <3>2, <3>3, <3>4 DEF SendingInv
    <3> QED BY <3>2, <3>4, <3>5 DEF LookupInv, OpeningInv, ReceivingInv
  <2>16. CASE Sent \/ Waits \/ (Received /\ pc' = "recv")
    <3>1. /\ pc \in {"send", "recv"} /\ Begins("recv", sock, "recv") /\ sock' = sock
          /\ (pc = "recv" => ret \in {"more", "block"})
      BY <2>16 DEF Sent, Waits, Received, Returned, Calls, Start, Begins, Fail
    <3>2. AheadInv' /\ Link' = Link
      BY <1>0, <2>14, <3>1 DEF Untried, LookingUp, Begins
    <3>3. Answering(Link)
      BY <1>0, <2>1, <3>1 DEF SendingInv, ReceivingInv
    <3>4. call' # NoCall /\ pc' = "recv"
      BY <3>1, NoCallFacts DEF Begins
    <3> QED BY <2>2, <3>2, <3>3, <3>4 DEF LookupInv, OpeningInv, SendingInv, ReceivingInv
  <2>17. CASE Received /\ pc' # "recv"
    <3>1. pc = "recv" /\ sock' = sock /\ pc' = "close"
      BY <2>17 DEF Received, Returned, Calls, Fail
    <3>2. AheadInv'
      BY <1>0, <2>14, <3>1 DEF Untried, LookingUp
    <3> QED BY <3>1, <3>2 DEF LookupInv, OpeningInv, SendingInv, ReceivingInv
  <2>18. CASE OpenRefused \/ LookupRefused \/ RequestFails \/ RequestSucceeds
    BY <2>0, <2>18 DEF OpenRefused, LookupRefused, RequestFails, RequestSucceeds, Fail
  <2> QED BY <1>2, <2>5, <2>6, <2>7, <2>8, <2>10, <2>11, <2>12, <2>13, <2>15, <2>16, <2>17, <2>18 DEF Client
<1> QED BY <1>1, <1>2

LEMMA NextSmoothInv == NotifierInv /\ SmoothInv /\ [Next]_vars => SmoothInv'
PROOF
<1> SUFFICES ASSUME NotifierInv, SmoothInv, [Next]_vars PROVE SmoothInv'
  OBVIOUS
<1>1. CASE Client
  BY <1>1, ClientKeepsSmooth DEF NotifierInv
<1>2. CASE Calling
  BY <1>2, CallingKeepsSmooth DEF NotifierInv
<1>3. CASE Module \/ PeerAnswers \/ PeerHangsUp
  BY <1>3, ModuleKeepsSmooth DEF NotifierInv
<1>4. CASE UNCHANGED vars
  <2>1. UNCHANGED <<ids, id_bits, id_close, packets, timeout, rx, links, busy, peer, call, ret, pc,
                    sock, udp, udpAddr, server, attempts, sent, resolved, lost, owing>>
    BY <1>4, UnchangedLeaves DEF DriverAndModule
  <2>2. fault' = fault
    BY <1>4 DEF vars
  <2>3. Link' = Link /\ (LookingUp' <=> LookingUp) /\ (Untried' <=> Untried)
    BY <2>1 DEF Link, LookingUp, Untried
  <2>4. \A id : (Standing(id)' <=> Standing(id)) /\ (Answering(id)' <=> Answering(id))
    BY <2>1 DEF Standing, Answering, IsOpen, Pending, At
  <2>5. \A kind, id : Pending(kind, id)' <=> Pending(kind, id)
    BY <2>1 DEF Pending, At
  <2>6. (AheadInv => AheadInv') /\ (LookupInv => LookupInv')
    BY <2>1, <2>3, <2>5 DEF AheadInv, LookupInv
  <2>7. OpeningInv => OpeningInv'
    BY <2>1, <2>3, <2>4, <2>5 DEF OpeningInv
  <2>8. SendingInv => SendingInv'
    BY <2>1, <2>3, <2>4, <2>5 DEF SendingInv
  <2>9. ReceivingInv => ReceivingInv'
    BY <2>1, <2>3, <2>4 DEF ReceivingInv
  <2> QED BY <2>1, <2>2, <2>6, <2>7, <2>8, <2>9 DEF SmoothInv
<1> QED BY <1>1, <1>2, <1>3, <1>4 DEF Next

LEMMA SmoothInvAlways == Spec => []SmoothInv
PROOF
<1>1. Init => SmoothInv
  BY DEF Init, SmoothInv
<1> QED BY <1>1, NotifierInvAlways, NextSmoothInv, PTL DEF Spec

\* A lookup is refused a socket only when the request has the last one.
LEMMA LastSocket ==
  ASSUME Types, OwnerInv, SpareInv, pc = "lookup", get_free_id = {}
  PROVE  Cardinality(lost) = SOCKET_COUNT - 1
PROOF
<1>1. sock \in Id /\ sock \notin lost /\ udp = None /\ lost \subseteq Id /\ None \notin Id
  BY NoneIsNoId DEF Types, RequestTypes, LookingUp, OwnerInv, OwnersDistinct
<1>2. ASSUME NEW id \in Id, id \notin lost, id # sock PROVE FALSE
  <2>1. Untouched(id)
    BY <1>1, <1>2 DEF SpareInv, Heir
  <2>2. id \notin id_bits /\ id \notin ids
    BY <1>1, <1>2, <2>1 DEF Untouched, Forgotten, OwnerInv, OwnersDistinct
  <2> QED BY <1>2, <2>2 DEF get_free_id
<1>3. lost = Id \ {sock}
  BY <1>1, <1>2
<1>4. IsFiniteSet(Id) /\ Cardinality(Id) = SOCKET_COUNT
  <2>1. 0 \in Int /\ SOCKET_COUNT - 1 \in Int /\ ~(0 > SOCKET_COUNT - 1) /\ SOCKET_COUNT - 1 - 0 + 1 = SOCKET_COUNT
    BY Esp32Assumption
  <2>2. IsFiniteSet(0..SOCKET_COUNT-1) /\ Cardinality(0..SOCKET_COUNT-1) = SOCKET_COUNT - 1 - 0 + 1
    BY <2>1, FS_Interval
  <2> QED BY <2>1, <2>2 DEF Id
<1> QED BY <1>1, <1>3, <1>4, FS_RemoveElement

LEMMA OnlyDisturbedLoses ==
  ASSUME NotifierInv, SmoothInv, [Next]_vars, lost' # lost
  PROVE  fault' \/ (pc = "lookup" /\ Cardinality(lost) = SOCKET_COUNT - 1)
PROOF
<1>1. Client
  BY CallingLeaves, ModuleLeaves, UnchangedLeaves DEF Next
<1>2. LookupRefused \/ LookupDone \/ RequestFails \/ Received
  <2>1. CASE OpenRefused \/ Open \/ LookupCached \/ Lookup \/ QueryAnotherRound \/ QueryGivesUp
    BY <2>1 DEF OpenRefused, Open, LookupCached, Lookup, QueryAnotherRound, QueryGivesUp
  <2>2. CASE Query \/ QueryDisconnected \/ QueryConnected \/ QueryNotSent \/ QuerySent
    BY <2>2 DEF Query, QueryDisconnected, QueryConnected, QueryNotSent, QuerySent
  <2>3. CASE QueryReplied \/ QueryClosed \/ QueryWaits \/ QueryTimedOut
    BY <2>3 DEF QueryReplied, QueryClosed, QueryWaits, QueryTimedOut
  <2>4. CASE Connected \/ Sent \/ Waits \/ RequestSucceeds
    BY <2>4 DEF Connected, Sent, Waits, RequestSucceeds
  <2> QED BY <1>1, <2>1, <2>2, <2>3, <2>4 DEF Client
<1>3. CASE LookupRefused
  BY <1>3, LastSocket DEF LookupRefused, NotifierInv
<1>4. CASE LookupDone
  <2>1. pc = "unlook" /\ call = NoCall /\ ~(resolved /\ ret = "true") /\ fault' = fault
    BY <1>4 DEF LookupDone, Returned
  <2> QED BY <2>1 DEF SmoothInv, LookupInv
<1>5. CASE RequestFails
  <2>1. call = NoCall /\ fault' = fault
        /\ ((pc = "connect" /\ ret = "false") \/ (pc = "send" /\ ret = "false") \/ (pc = "recv" /\ ret = "closed"))
    BY <1>5 DEF RequestFails, Returned
  <2> QED BY <2>1 DEF SmoothInv, OpeningInv, SendingInv, ReceivingInv
<1>6. CASE Received
  BY <1>6 DEF Received
<1> QED BY <1>2, <1>3, <1>4, <1>5, <1>6

\* HttpRequest::send() returns NULL, and ThingSpeak.cpp drops the request with
\* its socket, only when something outside disturbed that request or when its
\* name lookup found no second socket: where there are two sockets, a network
\* that behaves costs none.
THEOREM LossAlwaysHasCause == Spec => LossHasCause
PROOF
<1>1. NotifierInv /\ SmoothInv /\ [Next]_vars
      => [lost' # lost => fault' \/ (pc = "lookup" /\ Cardinality(lost) = SOCKET_COUNT - 1)]_vars
  BY OnlyDisturbedLoses
<1> QED BY <1>1, NotifierInvAlways, SmoothInvAlways, PTL DEF Spec, LossHasCause
=============================================================================
