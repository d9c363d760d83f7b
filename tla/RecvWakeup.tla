----------------------------- MODULE RecvWakeup -----------------------------
(***************************************************************************)
(* A thread that waits for data of a socket (TCPSocket::recv, which calls  *)
(* ESP32::recv) and the interrupt that wakes it (UARTSerial::rx_irq, which *)
(* calls ESP32::event and InternetSocket::event).                          *)
(*                                                                         *)
(* The interrupt signals only the first character that comes into an empty *)
(* buffer, and the driver passes the signal on only once until the socket  *)
(* is used again.  The thread polls without looking at the signals and     *)
(* then waits for one.                                                     *)
(***************************************************************************)
EXTENDS Naturals, Sequences

CONSTANTS
  RecvTimeout,    \* polls before recv() gives up (2000)
  MaxLines        \* lines the module sends in one exchange

ASSUME BoundsAssumption == RecvTimeout \in Nat /\ MaxLines \in Nat

\* A packet for this socket, its end, and anything else.
Lines == {"packet", "closed", "other"}

VARIABLES
  pc,          \* where the thread is
  retry_cnt,   \* polls of this call so far
  packet,      \* a packet of the socket is in the list
  open,        \* the driver believes the link open
  rx,          \* received and not yet read
  left,        \* lines still to come
  notified,    \* _cbs[id].Notified
  flag         \* READ_FLAG of the socket

wakeVars == <<pc, retry_cnt, packet, open, rx, left, notified, flag>>

WakeInit ==
  /\ pc = "call" /\ retry_cnt = 0 /\ packet = FALSE /\ open = TRUE
  /\ rx = <<>> /\ left \in 0..MaxLines /\ notified \in {0, 1} /\ flag \in BOOLEAN

-----------------------------------------------------------------------------
\* The interrupts.

\* Mutant: the signal is marked as passed on before anyone listens to it.
eventUnlessPolling ==
  /\ notified' = 1
  /\ flag' = IF notified = 0 /\ pc = "wait" THEN TRUE ELSE flag

\* ESP32::event() and, through the callback, InternetSocket::event().
event ==
  /\ notified' = 1
  /\ flag' = IF notified = 0 THEN TRUE ELSE flag

rx_irq(line) ==
  /\ left > 0
  /\ left' = IF line = "closed" THEN 0 ELSE left - 1
  /\ rx' = Append(rx, line)
  /\ IF rx = <<>> THEN event ELSE UNCHANGED <<notified, flag>>
  /\ UNCHANGED <<pc, retry_cnt, packet, open>>

\* Room in a send buffer that was full is signalled in the same way.
tx_irq ==
  /\ event
  /\ UNCHANGED <<left, pc, retry_cnt, packet, open, rx>>

-----------------------------------------------------------------------------
\* The thread.

\* Mutant: the driver is not told that the socket is used again.
RecvNotRearmed ==
  /\ pc = "call"
  /\ retry_cnt' = 0
  /\ pc' = "poll"
  /\ UNCHANGED <<left, packet, open, rx, notified, flag>>

Recv ==
  /\ pc = "call"
  /\ notified' = 0
  /\ retry_cnt' = 0
  /\ pc' = "poll"
  /\ UNCHANGED <<left, packet, open, rx, flag>>

\* process_oob(); socket_handler() too makes the driver listen again.
ProcessOob ==
  /\ pc = "poll" /\ rx # <<>>
  /\ rx' = Tail(rx)
  /\ packet' = (packet \/ Head(rx) = "packet")
  /\ open' = (open /\ Head(rx) # "closed")
  /\ notified' = IF Head(rx) = "closed" THEN 0 ELSE notified
  /\ UNCHANGED <<left, pc, retry_cnt, flag>>

Polled ==
  /\ pc = "poll" /\ rx = <<>>
  /\ pc' = "look"
  /\ UNCHANGED <<left, retry_cnt, packet, open, rx, notified, flag>>

\* Mutant: polls are counted and not limited.
LookUnlimited ==
  /\ pc = "look"
  /\ IF packet THEN pc' = "data" /\ UNCHANGED retry_cnt
               ELSE pc' = "poll" /\ retry_cnt' = retry_cnt + 1
  /\ packet' = FALSE
  /\ UNCHANGED <<left, open, rx, notified, flag>>

Look ==
  /\ pc = "look"
  /\ \/ packet /\ pc' = "data" /\ UNCHANGED retry_cnt
     \/ ~packet /\ retry_cnt < RecvTimeout /\ pc' = "poll" /\ retry_cnt' = retry_cnt + 1
     \/ ~packet /\ retry_cnt = RecvTimeout /\ pc' = (IF open THEN "wait" ELSE "end")
        /\ UNCHANGED retry_cnt
  /\ packet' = FALSE
  /\ UNCHANGED <<left, open, rx, notified, flag>>

\* wait_any(READ_FLAG) takes the flag with it.
Wait ==
  /\ pc = "wait" /\ flag
  /\ flag' = FALSE
  /\ pc' = "call"
  /\ UNCHANGED <<left, retry_cnt, packet, open, rx, notified>>

\* The caller reads on until it is told of the end.
ReadOn ==
  /\ pc = "data"
  /\ pc' = "call"
  /\ UNCHANGED <<left, retry_cnt, packet, open, rx, notified, flag>>

Finished == pc = "end" /\ UNCHANGED wakeVars

Thread == Recv \/ ProcessOob \/ Polled \/ Look \/ Wait \/ ReadOn
Interrupt == tx_irq \/ \E line \in Lines : rx_irq(line)
WakeNext == Thread \/ Interrupt \/ Finished

WakeSpec == WakeInit /\ [][WakeNext]_wakeVars

\* The thread runs; nothing is assumed of what arrives.
WakeFairSpec == WakeSpec /\ WF_wakeVars(Thread)

-----------------------------------------------------------------------------

WakeTypeOK ==
  /\ pc \in {"call", "poll", "look", "data", "wait", "end"}
  /\ retry_cnt \in 0..RecvTimeout
  /\ packet \in BOOLEAN /\ open \in BOOLEAN
  /\ rx \in Seq(Lines) /\ left \in Nat
  /\ notified \in {0, 1} /\ flag \in BOOLEAN

\* A thread that waits without a signal waits for something that has not
\* arrived yet, and the driver will pass on the signal when it does.
NoLostWakeup == pc = "wait" /\ ~flag => rx = <<>> /\ notified = 0

\* What the thread relies on, and what the proof needs: since it called recv() a
\* signal that was passed on has set the flag, and so has anything that has
\* arrived since the last poll.
SignalKept ==
  /\ pc \in {"poll", "look", "wait"} /\ notified = 1 => flag
  /\ pc \in {"look", "wait"} /\ rx # <<>> => flag

\* A packet that has arrived is handed to the caller, and an end too.
Delivered ==
  /\ (\E i \in DOMAIN rx : rx[i] = "packet") ~> pc = "data"
  /\ (\E i \in DOMAIN rx : rx[i] = "closed") ~> pc = "end"
=============================================================================
