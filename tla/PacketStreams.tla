---------------------------- MODULE PacketStreams ---------------------------
(***************************************************************************)
(* What the packet list of the driver promises: for each socket a stream   *)
(* of bytes, read from the front in pieces of any size.                    *)
(***************************************************************************)
EXTENDS Integers, Sequences

CONSTANTS Ids, Bytes, MaxLen

VARIABLES
  stream,    \* what has arrived for each socket and was not read
  result     \* what a read returns, until the caller has taken it

vars == <<stream, result>>

Init == stream = [i \in Ids |-> <<>>] /\ result = <<>>

Arrive(i) ==
  /\ \E n \in 1..MaxLen : \E data \in [1..n -> Bytes] :
       stream' = [stream EXCEPT ![i] = @ \o data]
  /\ UNCHANGED result

Read(i) ==
  \E n \in 0..Len(stream[i]) :
    /\ result' = SubSeq(stream[i], 1, n)
    /\ stream' = [stream EXCEPT ![i] = SubSeq(@, n + 1, Len(@))]

Taken == result' = <<>> /\ UNCHANGED stream

\* The socket, or every socket, starts afresh.
Discard ==
  /\ \/ \E i \in Ids : stream' = [stream EXCEPT ![i] = <<>>]
     \/ stream' = [i \in Ids |-> <<>>]
  /\ UNCHANGED result

Next == (\E i \in Ids : Arrive(i) \/ Read(i)) \/ Taken \/ Discard

Spec == Init /\ [][Next]_vars
=============================================================================
