------------------------------ MODULE Notifier ------------------------------
(***************************************************************************)
(* The requests of ThingSpeak.cpp, one after the other: HttpRequest::send  *)
(* on a TCP socket of the ESP32 driver, with the name looked up through    *)
(* nsapi_dns on a UDP socket of the same driver.  A request that fails is  *)
(* neither deleted nor closed: its socket is lost.                         *)
(***************************************************************************)
EXTENDS Esp32, FiniteSets

CONSTANTS
  DnsServers,     \* name servers to ask (five)
  DnsAttempts     \* questions to send before giving up (three)

ASSUME DnsAssumption == DnsServers \in Nat \ {0} /\ DnsAttempts \in Nat \ {0}

VARIABLES
  pc,         \* what the request does, or waits for the driver to do
  sock,       \* the TCP socket of the request
  udp,        \* the UDP socket of the lookup
  udpAddr,    \* the server it is connected to; 0 when it is not
  server,     \* index of the server to ask
  attempts,   \* questions left to send
  sent,       \* questions sent in this round of servers
  resolved,   \* result of the lookup
  lost,       \* history: sockets of failed requests
  fault,      \* history: something outside went wrong during this request
  owing       \* history: the module owed an answer when open() was called

dnsVars == <<udp, udpAddr, server, attempts, sent, resolved>>
requestVars == <<pc, sock, dnsVars>>
vars == <<driverVars, callVars, moduleVars, requestVars, lost, fault, owing>>

Init ==
  /\ DriverInit
  /\ pc = "idle" /\ sock = None /\ lost = {} /\ fault = FALSE /\ owing = FALSE
  /\ udp = None /\ udpAddr = 0 /\ server = 1 /\ attempts = 0 /\ sent = 0 /\ resolved = FALSE

\* The driver function called at this point has returned one of the results.
Returned(at, results) == pc = at /\ call = NoCall /\ ret \in results

\* Calls a driver function and waits for it at the given point.
Calls(op, id, at) == Start(op, id) /\ pc' = at /\ ret' = "none"

outside == <<driverVars, moduleVars>>

\* send() returns NULL: ChannelUpdate() and the Notify functions return.
Fail ==
  /\ pc' = "idle"
  /\ lost' = lost \cup {sock}
  /\ sock' = None
  /\ UNCHANGED callVars

-----------------------------------------------------------------------------
\* A request begins with TCPSocket::open().  It is refused when no socket is
\* free, which leaves everything as it is.
OpenRefused ==
  /\ pc = "idle" /\ get_free_id = {}
  /\ UNCHANGED <<outside, callVars, requestVars, lost, fault>>

Open ==
  /\ pc = "idle" /\ get_free_id # {}
  /\ sock' = Lowest(get_free_id)
  /\ ids' = ids \cup {sock'}
  /\ pc' = "lookup"
  /\ fault' = FALSE
  /\ UNCHANGED <<id_bits, id_close, packets, timeout, callVars, moduleVars, dnsVars, lost>>

\* TCPSocket::connect(): the name may be in the cache.
LookupCached ==
  /\ pc = "lookup"
  /\ Calls("TCP", sock, "connect")
  /\ UNCHANGED <<outside, sock, dnsVars, lost, fault>>

LookupRefused ==
  /\ pc = "lookup" /\ get_free_id = {}
  /\ Fail
  /\ UNCHANGED <<outside, dnsVars, fault>>

Lookup ==
  /\ pc = "lookup" /\ get_free_id # {}
  /\ udp' = Lowest(get_free_id)
  /\ ids' = ids \cup {udp'}
  /\ udpAddr' = 0 /\ server' = 1 /\ attempts' = DnsAttempts /\ sent' = 0 /\ resolved' = FALSE
  /\ pc' = "query"
  /\ UNCHANGED <<id_bits, id_close, packets, timeout, callVars, moduleVars, sock, lost, fault>>

\* Mutant: another round of servers is begun whether the last one was of any
\* use or not.
QueryAnotherRoundAlways ==
  /\ pc = "query" /\ attempts > 0 /\ server > DnsServers
  /\ server' = 1 /\ sent' = 0
  /\ UNCHANGED <<outside, callVars, pc, sock, udp, udpAddr, attempts, resolved, lost, fault>>

\* nsapi_dns_get_server_addr()
QueryAnotherRound ==
  /\ pc = "query" /\ attempts > 0 /\ server > DnsServers /\ sent > 0
  /\ server' = 1 /\ sent' = 0
  /\ UNCHANGED <<outside, callVars, pc, sock, udp, udpAddr, attempts, resolved, lost, fault>>

QueryGivesUp ==
  /\ pc = "query" /\ (attempts = 0 \/ (server > DnsServers /\ sent = 0))
  /\ Calls("close", udp, "unlook")
  /\ UNCHANGED <<outside, sock, dnsVars, lost, fault>>

\* socket_sendto(): a UDP socket connected to another server is closed first,
\* which gives its id back, and one that is not connected is connected.
Query ==
  /\ pc = "query" /\ attempts > 0 /\ server <= DnsServers
  /\ CASE udpAddr = server -> Calls("send", udp, "question")
       [] udpAddr = 0      -> Calls("UDP", udp, "reconnect")
       [] OTHER            -> Calls("close", udp, "disconnect")
  /\ UNCHANGED <<outside, sock, dnsVars, lost, fault>>

QueryDisconnected ==
  /\ Returned("disconnect", {"true"})
  /\ udpAddr' = 0
  /\ Calls("UDP", udp, "reconnect")
  /\ UNCHANGED <<outside, sock, udp, server, attempts, sent, resolved, lost, fault>>

QueryConnected ==
  /\ Returned("reconnect", {"true"})
  /\ udpAddr' = server
  /\ Calls("send", udp, "question")
  /\ UNCHANGED <<outside, sock, udp, server, attempts, sent, resolved, lost, fault>>

\* The question could not be sent: on to the next server.
QueryNotSent ==
  /\ Returned("disconnect", {"false"}) \/ Returned("reconnect", {"false"})
       \/ Returned("question", {"false"})
  /\ server' = server + 1
  /\ pc' = "query"
  /\ UNCHANGED <<outside, callVars, sock, udp, udpAddr, attempts, sent, resolved, lost, fault>>

\* Mutant: the questions sent are not counted against the total.
QuerySentUncounted ==
  /\ Returned("question", {"true"})
  /\ sent' = sent + 1
  /\ Calls("recv", udp, "answer")
  /\ UNCHANGED <<outside, sock, udp, udpAddr, server, attempts, resolved, lost, fault>>

QuerySent ==
  /\ Returned("question", {"true"})
  /\ sent' = sent + 1 /\ attempts' = attempts - 1
  /\ Calls("recv", udp, "answer")
  /\ UNCHANGED <<outside, sock, udp, udpAddr, server, resolved, lost, fault>>

\* A reply that is none to the question is skipped and the question repeated.
QueryReplied ==
  /\ Returned("answer", {"last", "more"})
  /\ \/ resolved' = TRUE /\ Calls("close", udp, "unlook") /\ UNCHANGED fault
     \/ resolved' = FALSE /\ Calls("close", udp, "unlook") /\ fault' = TRUE
     \/ pc' = "query" /\ fault' = TRUE /\ UNCHANGED <<callVars, resolved>>
  /\ UNCHANGED <<outside, sock, udp, udpAddr, server, attempts, sent, lost>>

QueryClosed ==
  /\ Returned("answer", {"closed"})
  /\ Calls("close", udp, "unlook")
  /\ UNCHANGED <<outside, sock, dnsVars, lost, fault>>

\* recvfrom() waits for five seconds and is called again when anything arrives.
QueryWaits ==
  /\ Returned("answer", {"block"}) /\ rx # <<>>
  /\ Calls("recv", udp, "answer")
  /\ UNCHANGED <<outside, sock, dnsVars, lost, fault>>

QueryTimedOut ==
  /\ Returned("answer", {"block"}) /\ rx = <<>>
  /\ server' = server + 1
  /\ pc' = "query"
  /\ fault' = TRUE
  /\ UNCHANGED <<outside, callVars, sock, udp, udpAddr, attempts, sent, resolved, lost>>

LookupDone ==
  /\ Returned("unlook", {"true", "false"})
  /\ IF resolved /\ ret = "true"
     THEN Calls("TCP", sock, "connect") /\ UNCHANGED <<sock, lost>>
     ELSE Fail
  /\ udp' = None /\ udpAddr' = 0 /\ server' = 1 /\ attempts' = 0 /\ sent' = 0 /\ resolved' = FALSE
  /\ UNCHANGED <<outside, fault>>

\* HttpRequest::send() from the connection on.
Connected ==
  /\ Returned("connect", {"true"})
  /\ Calls("send", sock, "send")
  /\ UNCHANGED <<outside, sock, dnsVars, lost, fault>>

Sent ==
  /\ Returned("send", {"true"})
  /\ Calls("recv", sock, "recv")
  /\ UNCHANGED <<outside, sock, dnsVars, lost, fault>>

\* Data: the parser wants more, is done, or cannot make sense of it.
Received ==
  /\ Returned("recv", {"more", "last"})
  /\ \/ ret = "more" /\ Calls("recv", sock, "recv") /\ UNCHANGED <<sock, lost, fault>>
     \/ ret = "last" /\ Calls("close", sock, "close") /\ UNCHANGED <<sock, lost, fault>>
     \/ Fail /\ fault' = TRUE
  /\ UNCHANGED <<outside, dnsVars>>

\* TCPSocket::recv() waits, without a limit, until anything arrives.
Waits ==
  /\ Returned("recv", {"block"}) /\ rx # <<>>
  /\ Calls("recv", sock, "recv")
  /\ UNCHANGED <<outside, sock, dnsVars, lost, fault>>

RequestFails ==
  /\ Returned("connect", {"false"}) \/ Returned("send", {"false"}) \/ Returned("recv", {"closed"})
  /\ Fail
  /\ UNCHANGED <<outside, dnsVars, fault>>

\* The result of close() is not looked at.
RequestSucceeds ==
  /\ Returned("close", {"true", "false"})
  /\ pc' = "idle" /\ sock' = None
  /\ UNCHANGED <<outside, callVars, dnsVars, lost, fault>>

Client ==
  /\ UNCHANGED owing
  /\ \/ OpenRefused \/ Open \/ LookupCached \/ LookupRefused \/ Lookup
     \/ QueryAnotherRound \/ QueryGivesUp \/ Query \/ QueryDisconnected \/ QueryConnected
     \/ QueryNotSent \/ QuerySent \/ QueryReplied \/ QueryClosed \/ QueryWaits \/ QueryTimedOut
     \/ LookupDone \/ Connected \/ Sent \/ Received \/ Waits \/ RequestFails \/ RequestSucceeds

Calling ==
  /\ Driver
  /\ owing' = IF OpenEnter THEN busy # Idle \/ Line("OK", None) \in Range(rx) ELSE owing
  /\ fault' = (fault \/ owing' \/ (OpenTimedOut /\ busy # Idle))
  /\ UNCHANGED <<requestVars, lost>>

\* The module and the other ends; fault notes what disturbs this request, a
\* connection that takes too long and answers to earlier commands included.
Module ==
  /\ Answers
  /\ fault' = (fault \/ Refuse)
  /\ UNCHANGED <<driverVars, callVars, requestVars, lost, owing>>

PeerAnswers ==
  /\ \E id \in Id : PeerSends(id)
  /\ UNCHANGED <<driverVars, callVars, requestVars, lost, fault, owing>>

PeerHangsUp ==
  /\ \E id \in Id :
       /\ PeerCloses(id)
       /\ fault' = (fault \/ (id \in {sock, udp} /\ peer[id] # "done"))
  /\ UNCHANGED <<driverVars, callVars, requestVars, lost, owing>>

Next == Client \/ Calling \/ Module \/ PeerAnswers \/ PeerHangsUp

Spec == Init /\ [][Next]_vars

\* The thread runs, the module answers, and a server that was asked answers or
\* hangs up.
FairSpec ==
  /\ Spec
  /\ WF_vars(Client) /\ WF_vars(Calling) /\ WF_vars(Module)
  /\ WF_vars(PeerAnswers \/ PeerHangsUp)

-----------------------------------------------------------------------------

TypeOK ==
  /\ ids \subseteq Id /\ id_bits \subseteq Id /\ id_close \subseteq Id /\ links \subseteq Id
  /\ packets \subseteq [kind : {"IPD", "LAST"}, id : Id]
  /\ rx \in Seq([kind : LineKinds, id : Id \cup {None}])
  /\ timeout \in {PollTimeout, CommandTimeout, MiscTimeout}
  /\ busy.op \in Commands \cup {"none"} /\ busy.id \in Id \cup {None}
  /\ call.id \in Id \cup {None} /\ call.try \in 0..1
  /\ peer \in [Id -> {"silent", "asked", "half", "done"}]
  /\ sock \in Id \cup {None} /\ udp \in Id \cup {None} /\ lost \subseteq Id
  /\ udpAddr \in 0..DnsServers /\ server \in 1..DnsServers+1
  /\ attempts \in 0..DnsAttempts /\ sent \in 0..DnsAttempts

\* Every socket in use belongs to exactly one of the request under way, its
\* lookup and a failed request.  The lookup's may be marked free while it is
\* moved to another server, and the request's at its end.
OwnersDistinct ==
  /\ lost \subseteq ids /\ ids \subseteq lost \cup {sock, udp}
  /\ sock # None /\ pc # "close" => sock \in ids
  /\ sock \notin lost /\ udp \notin lost
  /\ sock = udp => sock = None

\* Requests are refused only when as many have failed as there are sockets.
RefusedOnlyWhenLost == pc = "idle" /\ get_free_id = {} => lost = Id

\* The sockets are accounted for: none is lost or handed out twice, except
\* those of failed requests, which are lost for good.
SocketAccounting == OwnersDistinct /\ RefusedOnlyWhenLost

\* What the driver believes about the links, once it has read what has
\* arrived, is what the module knows.
ViewCatchesUp == rx = <<>> => id_bits = links

\* Unless the module owed an answer, a socket that is free has no past: no
\* link, no mark of an old close, and nothing on its way or in the packet list
\* that the next owner would get.
FreeIsClean ==
  \A id \in get_free_id \ {udp} : ~owing =>
     /\ id \notin links \cup id_close
     /\ \A i \in DOMAIN rx : rx[i].id # id
     /\ \A p \in packets : p.id # id

\* The driver's table of links agrees with the module's, for links in use and
\* for free ones.
TableInStep == ViewCatchesUp /\ FreeIsClean

\* A socket is lost only to a request that something outside disturbed, or
\* that found no second socket for its lookup.
LossHasCause ==
  [][lost' # lost => fault' \/ (pc = "lookup" /\ Cardinality(lost) = SOCKET_COUNT - 1)]_vars

\* "true only if socket opened successfully" (ESP32.h:153)
TrueOnlyIfOpened ==
  /\ Returned("connect", {"true"}) => sock \in id_bits \cup id_close
  /\ Returned("reconnect", {"true"}) => udp \in id_bits \cup id_close

\* open() returns true only if the link was opened, however late, refused or
\* torn down other links were, provided that the module owed no answer to an
\* earlier command: an OK that comes late is taken for the answer to open().
OpenMeansOpen == owing \/ TrueOnlyIfOpened

\* Every request comes to an end if servers answer or hang up.
RequestEnds == pc # "idle" ~> pc = "idle"
=============================================================================
