-------------------------------- MODULE Esp32 -------------------------------
(***************************************************************************)
(* The socket functions of the ESP32 driver (open, send, recv, close,      *)
(* get_free_id of ESP32.cpp) against the Wi-Fi module on the other end of  *)
(* the UART.                                                               *)
(*                                                                         *)
(* A driver function sends a command and has the AT parser read lines      *)
(* until the one it expects turns up or nothing arrives for the timeout in *)
(* force.  Lines that announce a connection, a close or a packet are       *)
(* handled wherever they turn up; every other line is skipped.  Nothing    *)
(* says which command an OK belongs to.                                    *)
(***************************************************************************)
EXTENDS Integers, Sequences, Functions

CONSTANTS
  SOCKET_COUNT,   \* five in the driver
  Slow            \* connecting may take the module longer than the driver waits

ASSUME Esp32Assumption == SOCKET_COUNT \in Nat \ {0} /\ Slow \in BOOLEAN

Id == 0..SOCKET_COUNT-1
None == -1

\* Milliseconds: polling, open and close, and everything else.
PollTimeout == 1
CommandTimeout == 500
MiscTimeout == 2000

VARIABLES
  ids,         \* _ids: sockets handed out
  id_bits,     \* _id_bits: links the driver believes open
  id_close,    \* _id_bits_close: links that were closed by the other side
  packets,     \* _packets: what waits for which socket (Packets has the list)
  timeout,     \* last_timeout_ms
  call,        \* the driver function being executed
  ret,         \* what the last one returned
  rx,          \* lines received and not yet read by the parser
  links,       \* the module: links that are open
  busy,        \* the module: the command it works on
  peer         \* what the other end of each link has to say

driverVars == <<ids, id_bits, id_close, packets, timeout>>
callVars == <<call, ret>>
moduleVars == <<rx, links, busy, peer>>

Line(kind, id) == [kind |-> kind, id |-> id]
OobKinds == {"CONNECT", "CLOSED", "IPD", "LAST"}   \* LAST ends a response
LineKinds == OobKinds \cup {"OK", "ERROR", ">", "SENDOK"}

Command(op, id) == [op |-> op, id |-> id]
Commands == {"TCP", "UDP", "CIPSEND", "data", "CIPCLOSE"}
Idle == Command("none", None)

NoCall == [op |-> "none", id |-> None, awaits |-> "none", try |-> 0]

DriverInit ==
  /\ ids = {} /\ id_bits = {} /\ id_close = {} /\ packets = {}
  /\ timeout = MiscTimeout /\ call = NoCall /\ ret = "none"
  /\ rx = <<>> /\ links = {} /\ busy = Idle /\ peer = [i \in Id |-> "silent"]

-----------------------------------------------------------------------------
\* The module (external), as the driver uses it.

\* A command that arrives while the module is busy is not carried out.
SendCommand(op, id) == busy' = IF busy = Idle THEN Command(op, id) ELSE busy

Say(lines) == rx' = rx \o lines

\* A connection that fails is reported as an error and as closed.
Refuse ==
  /\ busy.op \in Commands
  /\ busy.op \in {"CIPSEND", "data", "CIPCLOSE"} => busy.id \notin links
  /\ Say(<<Line("ERROR", None)>> \o
         (IF busy.op = "TCP" /\ busy.id \notin links THEN <<Line("CLOSED", busy.id)>> ELSE <<>>))
  /\ busy' = Idle
  /\ UNCHANGED <<links, peer>>

Connect ==
  /\ busy.op \in {"TCP", "UDP"} /\ busy.id \notin links
  /\ links' = links \cup {busy.id}
  /\ peer' = [peer EXCEPT ![busy.id] = "silent"]
  /\ Say(<<Line("CONNECT", busy.id), Line("OK", None)>>)
  /\ busy' = Idle

AskForData ==
  /\ busy.op = "CIPSEND" /\ busy.id \in links
  /\ Say(<<Line("OK", None), Line(">", None)>>)
  /\ busy' = Idle
  /\ UNCHANGED <<links, peer>>

TakeData ==
  /\ busy.op = "data" /\ busy.id \in links
  /\ peer' = [peer EXCEPT ![busy.id] = "asked"]
  /\ Say(<<Line("SENDOK", None)>>)
  /\ busy' = Idle
  /\ UNCHANGED links

Disconnect ==
  /\ busy.op = "CIPCLOSE" /\ busy.id \in links
  /\ links' = links \ {busy.id}
  /\ Say(<<Line("CLOSED", busy.id), Line("OK", None)>>)
  /\ busy' = Idle
  /\ UNCHANGED peer

\* The other end answers, in one packet or in two ...
PeerSends(id) ==
  /\ id \in links
  /\ \/ peer[id] = "asked" /\ peer' = [peer EXCEPT ![id] = "half"] /\ Say(<<Line("IPD", id)>>)
     \/ peer[id] \in {"asked", "half"} /\ peer' = [peer EXCEPT ![id] = "done"]
        /\ Say(<<Line("LAST", id)>>)
  /\ UNCHANGED <<links, busy>>

\* ... or closes the connection, having answered or not.
PeerCloses(id) ==
  /\ id \in links
  /\ links' = links \ {id}
  /\ Say(<<Line("CLOSED", id)>>)
  /\ UNCHANGED <<busy, peer>>

\* Nothing arrives for the time the parser waits.  The module answers within
\* CommandTimeout, except that a connection may take longer.
Silence ==
  /\ rx = <<>>
  /\ busy = Idle \/ timeout < CommandTimeout \/ (Slow /\ busy.op = "TCP")

-----------------------------------------------------------------------------
\* The driver.

\* Mutant: a close of the other side is not remembered as the end of the link.
socket_handlerKeepsBit(line) ==
  /\ id_bits' = IF line.kind = "CONNECT" THEN id_bits \cup {line.id} ELSE id_bits
  /\ id_close' = IF line.kind = "CLOSED" THEN id_close \cup {line.id} ELSE id_close

socket_handler(line) ==
  /\ id_bits' = CASE line.kind = "CONNECT" -> id_bits \cup {line.id}
                  [] line.kind = "CLOSED"  -> id_bits \ {line.id}
                  [] OTHER                 -> id_bits
  /\ id_close' = IF line.kind = "CLOSED" THEN id_close \cup {line.id} ELSE id_close

\* A packet leaves its own timeout behind.
packet_handler(line) ==
  IF line.kind \in {"IPD", "LAST"}
  THEN packets' = packets \cup {line} /\ timeout' = CommandTimeout
  ELSE UNCHANGED <<packets, timeout>>

\* The free sockets; the lowest one is handed out.
get_free_id == (Id \ ids) \ id_bits
Lowest(S) == CHOOSE i \in S : \A j \in S : i <= j

clear_socket_packets(id) == {p \in packets : p.id # id}

Start(op, id) == call' = [op |-> op, id |-> id, awaits |-> "none", try |-> 0]
Return(result) == call' = NoCall /\ ret' = result
Await(kind) == call' = [call EXCEPT !.awaits = kind] /\ UNCHANGED ret

Entering(op) == call.op = op /\ call.awaits = "none"
Matched(kind) ==
  /\ call.awaits = kind
  /\ rx # <<>> /\ Head(rx).kind = kind
  /\ rx' = Tail(rx)
TimedOut(kind) == call.awaits = kind /\ Silence

\* ATCmdParser: lines other than the one awaited.  While polling none is.
Parse ==
  /\ call.awaits # "none" /\ rx # <<>>
  /\ Head(rx).kind # call.awaits
  /\ rx' = Tail(rx)
  /\ socket_handler(Head(rx))
  /\ packet_handler(Head(rx))
  /\ UNCHANGED <<ids, callVars, links, busy, peer>>

OpenEnter ==
  /\ Entering("TCP") \/ Entering("UDP")
  /\ timeout' = CommandTimeout
  /\ SendCommand(call.op, call.id)
  /\ Await("OK")
  /\ UNCHANGED <<ids, id_bits, id_close, packets, rx, links, peer>>

OpenReturn(result) ==
  /\ call.op \in {"TCP", "UDP"}
  /\ timeout' = MiscTimeout
  /\ packets' = clear_socket_packets(call.id)
  /\ Return(result)
  /\ UNCHANGED <<ids, id_bits, id_close, links, busy, peer>>

OpenMatched == Matched("OK") /\ OpenReturn("true")

\* Mutant: whether the line came is not looked at.
OpenTimedOutIgnored == TimedOut("OK") /\ OpenReturn("true") /\ UNCHANGED rx

OpenTimedOut == TimedOut("OK") /\ OpenReturn("false") /\ UNCHANGED rx

IsOpen(id) == id \in id_bits /\ id \notin id_close

SendEnter ==
  /\ Entering("send")
  /\ IF IsOpen(call.id) THEN SendCommand("CIPSEND", call.id) /\ Await(">")
                        ELSE Return("false") /\ UNCHANGED busy
  /\ UNCHANGED <<driverVars, rx, links, peer>>

SendPrompted ==
  /\ Matched(">")
  /\ SendCommand("data", call.id)
  /\ Await("SENDOK")
  /\ UNCHANGED <<driverVars, links, peer>>

\* The loop over chunks of 2048 bytes ends with the first: every request of the
\* program is shorter.
SendMatched ==
  /\ Matched("SENDOK")
  /\ Return("true")
  /\ UNCHANGED <<driverVars, links, busy, peer>>

\* Either of the two lines did not come; the whole command is tried twice.
SendTimedOut ==
  /\ call.op = "send"
  /\ TimedOut(">") \/ TimedOut("SENDOK")
  /\ IF call.try = 0
     THEN call' = [call EXCEPT !.awaits = "none", !.try = 1] /\ UNCHANGED ret
     ELSE Return("false")
  /\ UNCHANGED <<driverVars, moduleVars>>

\* What every successful way out of close() does.
Release ==
  /\ id_close' = id_close \ {call.id}
  /\ ids' = ids \ {call.id}
  /\ packets' = clear_socket_packets(call.id)
  /\ Return("true")

\* Mutant: a link the other side closed keeps its mark.
CloseEnterKeepsMark ==
  /\ Entering("close")
  /\ IF call.id \notin id_bits
     THEN /\ ids' = ids \ {call.id}
          /\ packets' = clear_socket_packets(call.id)
          /\ Return("true") /\ UNCHANGED <<id_close, timeout, busy>>
     ELSE /\ timeout' = CommandTimeout
          /\ SendCommand("CIPCLOSE", call.id)
          /\ Await("OK") /\ UNCHANGED <<ids, id_close, packets>>
  /\ UNCHANGED <<id_bits, rx, links, peer>>

CloseEnter ==
  /\ Entering("close")
  /\ IF call.id \notin id_bits
     THEN Release /\ UNCHANGED <<timeout, busy>>
     ELSE /\ timeout' = CommandTimeout
          /\ SendCommand("CIPCLOSE", call.id)
          /\ Await("OK")
          /\ UNCHANGED <<ids, id_close, packets>>
  /\ UNCHANGED <<id_bits, rx, links, peer>>

\* Mutant: the socket is not given back after the module has closed the link.
CloseMatchedKeepsId ==
  /\ call.op = "close" /\ Matched("OK")
  /\ timeout' = MiscTimeout
  /\ id_close' = id_close \ {call.id}
  /\ packets' = clear_socket_packets(call.id)
  /\ Return("true")
  /\ UNCHANGED <<ids, id_bits, links, busy, peer>>

CloseMatched ==
  /\ call.op = "close" /\ Matched("OK")
  /\ timeout' = MiscTimeout
  /\ Release
  /\ UNCHANGED <<id_bits, links, busy, peer>>

CloseTimedOut ==
  /\ call.op = "close" /\ TimedOut("OK")
  /\ timeout' = MiscTimeout
  /\ IF call.try = 0
     THEN call' = [call EXCEPT !.awaits = "none", !.try = 1] /\ UNCHANGED <<ids, ret>>
     ELSE ids' = ids \ {call.id} /\ Return("false")
  /\ UNCHANGED <<id_bits, id_close, packets, moduleVars>>

RecvEnter ==
  /\ Entering("recv")
  /\ timeout' = PollTimeout
  /\ Await("poll")
  /\ UNCHANGED <<ids, id_bits, id_close, packets, moduleVars>>

\* One poll has read everything.  Packets of the socket are returned (all of
\* them fit); without any, the driver polls on for ESP32_RECV_TIMEOUT rounds,
\* which changes nothing, and then looks at the state of the link.
RecvPolled ==
  /\ call.awaits = "poll" /\ rx = <<>>
  /\ timeout' = MiscTimeout
  /\ packets' = clear_socket_packets(call.id)
  /\ Return(IF Line("LAST", call.id) \in packets THEN "last"
            ELSE IF Line("IPD", call.id) \in packets THEN "more"
            ELSE IF IsOpen(call.id) THEN "block" ELSE "closed")
  /\ UNCHANGED <<ids, id_bits, id_close, moduleVars>>

Driver ==
  \/ Parse \/ OpenEnter \/ OpenMatched \/ OpenTimedOut
  \/ SendEnter \/ SendPrompted \/ SendMatched \/ SendTimedOut
  \/ CloseEnter \/ CloseMatched \/ CloseTimedOut
  \/ RecvEnter \/ RecvPolled

Answers == Refuse \/ Connect \/ AskForData \/ TakeData \/ Disconnect
=============================================================================
