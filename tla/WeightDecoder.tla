---------------------------- MODULE WeightDecoder ---------------------------
(***************************************************************************)
(* Weight.cpp: readings of a scale are decoded from the pulses of its      *)
(* display line.  Edges of the line and timers post handlers to an event   *)
(* queue; a handler switches interrupts on and off, but what is already in *)
(* the queue is still carried out.  A pause of the line ends a frame; a    *)
(* reading that has settled stops the decoder for five seconds.            *)
(*                                                                         *)
(* Handlers in the queue and the events that interrupts and timers hold to *)
(* post them take memory of one pool, counted in events.  When there is    *)
(* none left an interrupt still comes, and the assertion in Event::call()  *)
(* stops the program.                                                      *)
(***************************************************************************)
EXTENDS Naturals, Sequences, FiniteSets

CONSTANTS
  FrameBits,    \* pulses in a frame (39)
  Stable,       \* the frames with both stable bits set
  QueueCapacity,   \* events the queue has memory for (about 320)
  MaxBits       \* bound: pulses counted without a pause being noticed

ASSUME WeightAssumption ==
  /\ FrameBits \in Nat \ {0} /\ QueueCapacity \in Nat \ {0} /\ MaxBits \in Nat
  /\ Stable \subseteq [1..FrameBits -> {0, 1}]

VARIABLES
  onRise, onFall,   \* the interrupts of p that are switched on
  t2, t3,           \* the timers that run
  held,             \* those of the four that have an event to post
  queue,            \* handlers posted
  eeeArg,           \* the reading timeout() is about to hand to eee(), or << >>
  bits,             \* bh and bl, as the cnt bits received so far
  halted,           \* an assertion has failed
  \* the line
  high,
  pulse,            \* the bit of the last pulse
  frame,            \* history: bits of the frame on the line so far
  timely            \* history: each handler was done before anything else came,
                    \* and soon enough for the pulse to be measured right

handlerVars == <<onRise, onFall, t2, t3, held, queue, eeeArg, bits, halted>>
line == <<high, pulse, frame>>
vars == <<handlerVars, line, timely>>

\* weight_init()
Init ==
  /\ onRise = TRUE /\ onFall = FALSE /\ t2 = FALSE /\ t3 = FALSE
  /\ held = {"rise"} /\ queue = <<>> /\ eeeArg = <<>> /\ bits = <<>> /\ halted = FALSE
  /\ high = FALSE /\ pulse = 0 /\ frame = <<>> /\ timely = TRUE

Resting == queue = <<>> /\ eeeArg = <<>>

\* There is memory for one more event besides those attached (h), those in
\* the queue, and that of a timeout() which has gone on to eee().
Room(h) ==
  Len(queue) + Cardinality(h) + (IF eeeArg # <<>> THEN 1 ELSE 0) < QueueCapacity

\* p.rise(queue.event(e)) and the like: memory for the new event is taken, if
\* there is any, before the old one is given back; without memory the source
\* is switched on all the same, with nothing to post.
Attach(h, e) == IF Room(h) THEN h \cup {e} ELSE h \ {e}

-----------------------------------------------------------------------------
\* The line and the timers.

\* Event::call() posts a copy of the event, or asserts.
Post(enabled, handler) ==
  \/ /\ ~enabled
     /\ UNCHANGED <<queue, halted>>
  \/ /\ enabled /\ handler \in held /\ Room(held)
     /\ queue' = Append(queue, handler) /\ UNCHANGED halted
  \/ /\ enabled /\ ~(handler \in held /\ Room(held))
     /\ halted' = TRUE /\ UNCHANGED queue

RisingEdge ==
  /\ ~high /\ Len(frame) < FrameBits
  /\ timely' = (timely /\ Resting)
  /\ high' = TRUE
  /\ pulse' \in {0, 1}
  /\ Post(onRise, "rise")
  /\ UNCHANGED <<onRise, onFall, t2, t3, held, eeeArg, bits, frame>>

FallingEdge ==
  /\ high
  /\ timely' = (timely /\ Resting)
  /\ Len(bits) + Len(queue) < MaxBits
  /\ high' = FALSE
  /\ frame' = Append(frame, pulse)
  /\ Post(onFall, "fall")
  /\ UNCHANGED <<onRise, onFall, t2, t3, held, eeeArg, bits, pulse>>

\* The pause between frames is meant to be longer than that of t2.
NextFrame ==
  /\ Len(frame) = FrameBits /\ ~high
  /\ timely' = (timely /\ Resting /\ ~t2)
  /\ frame' = <<>>
  /\ UNCHANGED <<handlerVars, high, pulse>>

\* A timer that runs out gives its event back when it has posted the copy.
Expire2 ==
  /\ t2 /\ t2' = FALSE
  /\ timely' = (timely /\ Resting /\ Len(frame) = FrameBits /\ ~high)
  /\ Post(TRUE, "timeout") /\ held' = held \ {"timeout"}
  /\ UNCHANGED <<onRise, onFall, t3, eeeArg, bits, line>>

Expire3 ==
  /\ t3 /\ t3' = FALSE
  /\ timely' = (timely /\ Resting)
  /\ Post(TRUE, "restart") /\ held' = held \ {"restart"}
  /\ UNCHANGED <<onRise, onFall, t2, eeeArg, bits, line>>

-----------------------------------------------------------------------------
\* The handlers, in the event thread.  The memory of the one carried out is
\* given back after it.

Dispatch(handler) ==
  /\ eeeArg = <<>> /\ queue # <<>> /\ Head(queue) = handler
  /\ queue' = Tail(queue)
  /\ UNCHANGED <<halted, line>>

rise ==
  /\ Dispatch("rise")
  /\ onRise' = FALSE /\ onFall' = TRUE
  /\ held' = Attach(held \ {"rise"}, "fall")
  /\ UNCHANGED <<t2, t3, eeeArg, bits, timely>>

\* Mutant: the falling edge is switched off last.
fallLast ==
  /\ Dispatch("fall")
  /\ onFall' = FALSE /\ onRise' = TRUE
  /\ t2' = TRUE
  /\ held' = Attach(Attach(held, "timeout"), "rise") \ {"fall"}
  /\ \E bit \in {0, 1} : bits' = Append(bits, bit) /\ timely' = (timely /\ bit = pulse)
  /\ UNCHANGED <<t3, eeeArg>>

\* The pulse is timed from one handler to the other: a delay of either may
\* carry the measurement across the 750 us between a 1 and a 0.
fall ==
  /\ Dispatch("fall")
  /\ onFall' = FALSE /\ onRise' = TRUE
  /\ t2' = TRUE
  /\ held' = Attach(Attach(held \ {"fall"}, "timeout"), "rise")
  /\ \E bit \in {0, 1} : bits' = Append(bits, bit) /\ timely' = (timely /\ bit = pulse)
  /\ UNCHANGED <<t3, eeeArg>>

\* Mutant: an incomplete frame is shown too.
timeoutUnchecked ==
  /\ Dispatch("timeout")
  /\ onRise' = TRUE /\ onFall' = FALSE
  /\ held' = Attach(held \ {"rise", "fall"}, "rise")
  /\ eeeArg' = bits
  /\ bits' = <<>>
  /\ UNCHANGED <<t2, t3, timely>>

timeout ==
  /\ Dispatch("timeout")
  /\ onRise' = TRUE /\ onFall' = FALSE
  /\ held' = Attach(held \ {"rise", "fall"}, "rise")
  /\ eeeArg' = IF Len(bits) = FrameBits THEN bits ELSE <<>>
  /\ bits' = <<>>
  /\ UNCHANGED <<t2, t3, timely>>

\* Mutant: a settled reading stops the decoder and nothing starts it again.
eeeForGood ==
  /\ eeeArg # <<>>
  /\ IF eeeArg \in Stable
     THEN onRise' = FALSE /\ onFall' = FALSE /\ held' = held \ {"rise", "fall"}
     ELSE UNCHANGED <<onRise, onFall, held>>
  /\ eeeArg' = <<>>
  /\ UNCHANGED <<t2, t3, queue, bits, halted, line, timely>>

\* The second half of timeout(): edges may have come since the first.
eee ==
  /\ eeeArg # <<>>
  /\ IF eeeArg \in Stable
     THEN /\ onRise' = FALSE /\ onFall' = FALSE /\ t3' = TRUE
          /\ held' = Attach(held \ {"rise", "fall"}, "restart")
     ELSE UNCHANGED <<onRise, onFall, t3, held>>
  /\ eeeArg' = <<>>
  /\ UNCHANGED <<t2, queue, bits, halted, line, timely>>

restart ==
  /\ Dispatch("restart")
  /\ onRise' = TRUE
  /\ held' = Attach(held, "rise")
  /\ UNCHANGED <<onFall, t2, t3, eeeArg, bits, timely>>

Handler == rise \/ fall \/ timeout \/ eee \/ restart
Edge == RisingEdge \/ FallingEdge \/ NextFrame

\* mbed_die() stops everything.
Next == ~halted /\ (Edge \/ Expire2 \/ Expire3 \/ Handler)

\* The event thread runs, timers run out, and the scale keeps sending.
Spec == Init /\ [][Next]_vars
FairSpec ==
  /\ Spec
  /\ WF_vars(~halted /\ Handler) /\ WF_vars(~halted /\ Edge)
  /\ WF_vars(~halted /\ Expire2) /\ WF_vars(~halted /\ Expire3)

-----------------------------------------------------------------------------

\* However late handlers are and whatever is left in the queue when interrupts
\* are switched off: unless the queue has run out of memory and the program
\* has stopped, something will make the decoder listen again.
NeverDeaf == ~halted => onRise \/ onFall \/ t2 \/ t3 \/ ~Resting

\* As long as handlers keep up with the line, memory for three events is
\* enough for the assertion in Event::call() never to fail, although handlers
\* take memory for a new event before the old one is given back.
TimelyNeverHalts == timely /\ QueueCapacity >= 3 => ~halted

\* As long as handlers keep up with the line, a reading that is shown is one
\* frame of the scale, from its first to its last pulse, even when the decoder
\* was restarted in the middle of another.
ShownIsOneFrame == timely /\ eeeArg # <<>> => eeeArg = frame

\* As long as handlers keep up with the line, frames go on being shown.
KeepsReading == []timely => []<>(eeeArg # <<>>)
=============================================================================
