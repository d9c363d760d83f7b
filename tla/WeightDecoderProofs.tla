------------------------- MODULE WeightDecoderProofs ------------------------
(***************************************************************************)
(* For every frame length, size of the queue and set of settled readings:  *)
(* the decoder never goes deaf, and as long as its handlers keep up with   *)
(* the line, memory for three events is enough for it and what it shows is *)
(* one frame of the scale.                                                 *)
(***************************************************************************)
EXTENDS WeightDecoder, FiniteSetTheorems, TLAPS

Bits == Seq({0, 1})

Types ==
  /\ queue \in Seq({"rise", "fall", "timeout", "restart"})
  /\ held \subseteq {"rise", "fall", "timeout", "restart"}
  /\ eeeArg \in Bits /\ bits \in Bits /\ frame \in Bits
  /\ pulse \in {0, 1}

\* A reading is only handed on by timeout(), which listens for the next one.
DeafInv == NeverDeaf /\ (eeeArg # <<>> => onRise)

\* The bits are the last ones of the frame.
Suffix(b, f) ==
  /\ Len(b) <= Len(f)
  /\ \A k \in 1..Len(b) : b[k] = f[Len(f) - Len(b) + k]

\* Bits have been received: t2 runs, and the next edge will be noticed.
Receiving == t2 /\ (IF high THEN onFall ELSE onRise)

Paused == t3 => ~t2 /\ ~onRise /\ ~onFall /\ bits = <<>>

\* Where the handlers are, as long as each was done before the next edge.
AtEdge ==
  \/ /\ Resting
     /\ Suffix(bits, frame)
     /\ bits # <<>> => Receiving
  \/ /\ queue = <<"rise">> /\ eeeArg = <<>>
     /\ high /\ ~t3
     /\ Suffix(bits, frame)
     /\ bits # <<>> => t2
  \/ /\ queue = <<"fall">> /\ eeeArg = <<>>
     /\ ~high /\ ~t3 /\ Len(frame) > 0
     /\ Suffix(Append(bits, pulse), frame)
  \/ /\ queue = <<"timeout">> /\ eeeArg = <<>>
     /\ ~t2 /\ ~t3 /\ Len(frame) = FrameBits
     /\ Suffix(bits, frame)
  \/ /\ queue = <<"restart">> /\ eeeArg = <<>>
     /\ ~t3 /\ bits = <<>>
  \/ /\ queue = <<>> /\ eeeArg # <<>>
     /\ eeeArg = frame
     /\ ~t2 /\ ~t3 /\ bits = <<>>

\* An assertion that fails, fails in an interrupt.
FrameInv == timely => IF halted THEN eeeArg = <<>> ELSE Paused /\ AtEdge

\* As long as handlers are in time, what is switched on has an event to post,
\* and never more than two are.
HeldInv ==
  /\ ~halted
  /\ "rise" \in held <=> onRise
  /\ "fall" \in held <=> onFall
  /\ "timeout" \in held <=> t2
  /\ "restart" \in held <=> t3
  /\ ~(onRise /\ onFall)
  /\ queue = <<"rise">> => onRise
  /\ queue = <<"fall">> => onFall
  /\ queue = <<"restart">> => ~onRise /\ ~onFall /\ ~t2
  /\ eeeArg # <<>> => ~onFall
MemoryInv == timely /\ QueueCapacity >= 3 => HeldInv

WeightInv == Types /\ DeafInv /\ FrameInv /\ MemoryInv

-----------------------------------------------------------------------------
\* Sequences of bits.

LEMMA EmptyIsSuffix ==
  ASSUME NEW f \in Bits
  PROVE  <<>> \in Bits /\ Suffix(<<>>, f)
BY DEF Bits, Suffix

LEMMA AppendToSuffix ==
  ASSUME NEW b \in Bits, NEW f \in Bits, NEW x \in {0, 1}, Suffix(b, f)
  PROVE  /\ Suffix(Append(b, x), Append(f, x))
         /\ Append(b, x) \in Bits /\ Append(b, x) # <<>>
         /\ Append(f, x) \in Bits /\ Len(Append(f, x)) > 0
PROOF
<1> DEFINE B == Append(b, x)
           F == Append(f, x)
<1>1. /\ b \in Seq({0, 1}) /\ f \in Seq({0, 1}) /\ Len(b) \in Nat /\ Len(f) \in Nat
      /\ Len(b) <= Len(f)
      /\ \A k \in 1..Len(b) : b[k] = f[Len(f) - Len(b) + k]
  BY DEF Bits, Suffix
<1>2. /\ B \in Seq({0, 1}) /\ Len(B) = Len(b) + 1
      /\ F \in Seq({0, 1}) /\ Len(F) = Len(f) + 1
  BY <1>1
<1>3. B # <<>> /\ Len(F) > 0
  BY <1>1, <1>2
<1>4. ASSUME NEW k \in 1..Len(B) PROVE B[k] = F[Len(F) - Len(B) + k]
  <2>1. CASE k = Len(B)
    BY <1>1, <1>2, <2>1
  <2>2. CASE k # Len(B)
    <3>1. k \in 1..Len(b) /\ Len(f) - Len(b) + k \in 1..Len(f)
      BY <1>1, <1>2, <2>2
    <3>2. B[k] = b[k] /\ F[Len(f) - Len(b) + k] = f[Len(f) - Len(b) + k]
      BY <1>1, <3>1
    <3>3. Len(F) - Len(B) + k = Len(f) - Len(b) + k
      BY <1>1, <1>2
    <3> QED BY <1>1, <3>1, <3>2, <3>3
  <2> QED BY <2>1, <2>2
<1>5. Len(B) <= Len(F)
  BY <1>1, <1>2
<1> QED BY <1>2, <1>3, <1>4, <1>5 DEF Suffix, Bits

LEMMA WholeSuffix ==
  ASSUME NEW b \in Bits, NEW f \in Bits, Suffix(b, f), Len(b) = Len(f)
  PROVE  b = f
PROOF
<1>1. b \in Seq({0, 1}) /\ f \in Seq({0, 1}) /\ Len(b) \in Nat
  BY DEF Bits
<1>2. ASSUME NEW k \in 1..Len(b) PROVE b[k] = f[k]
  BY <1>1 DEF Suffix
<1> QED BY <1>1, <1>2

-----------------------------------------------------------------------------
\* Types and deafness.

Handlers == {"rise", "fall", "timeout", "restart"}

LEMMA InitWeight == Init => WeightInv
PROOF
<1> SUFFICES ASSUME Init PROVE WeightInv
  OBVIOUS
<1>1. Types
  <2>1. <<>> \in Seq({0, 1}) /\ <<>> \in Seq(Handlers)
    OBVIOUS
  <2> QED BY <2>1 DEF Init, Types, Bits, Handlers
<1>2. DeafInv
  BY DEF Init, DeafInv, NeverDeaf
<1>3. Suffix(bits, frame)
  BY <1>1, EmptyIsSuffix DEF Init, Types
<1>4. FrameInv
  BY <1>3 DEF Init, FrameInv, Paused, AtEdge, Resting
<1>5. MemoryInv
  BY DEF Init, MemoryInv, HeldInv
<1> QED BY <1>1, <1>2, <1>4, <1>5 DEF WeightInv

LEMMA PostTypes ==
  ASSUME Types, NEW on, NEW h \in Handlers, Post(on, h)
  PROVE  queue' \in Seq({"rise", "fall", "timeout", "restart"})
PROOF
<1>1. queue \in Seq(Handlers)
  BY DEF Types, Handlers
<1>2. queue' = queue \/ queue' = Append(queue, h)
  BY DEF Post
<1>3. Append(queue, h) \in Seq(Handlers)
  BY <1>1
<1> QED BY <1>1, <1>2, <1>3 DEF Handlers

LEMMA NextTypes ==
  ASSUME Types, [Next]_vars PROVE Types'
PROOF
<1> USE WeightAssumption DEF Types, Bits
<1>1. CASE RisingEdge
  BY <1>1, PostTypes DEF RisingEdge, Handlers
<1>2. CASE FallingEdge
  BY <1>2, PostTypes DEF FallingEdge, Handlers
<1>3. CASE NextFrame
  BY <1>3 DEF NextFrame, handlerVars
<1>4. CASE Expire2
  BY <1>4, PostTypes DEF Expire2, line, Handlers
<1>5. CASE Expire3
  BY <1>5, PostTypes DEF Expire3, line, Handlers
<1>6. CASE rise
  BY <1>6 DEF rise, Dispatch, line, Attach
<1>7. CASE fall
  BY <1>7 DEF fall, Dispatch, line, Attach
<1>8. CASE timeout
  BY <1>8 DEF timeout, Dispatch, line, Attach
<1>9. CASE eee
  <2>1. held' \subseteq {"rise", "fall", "timeout", "restart"}
    BY <1>9 DEF eee, Attach
  <2>2. UNCHANGED <<queue, bits, frame, pulse>> /\ eeeArg' = <<>>
    BY <1>9 DEF eee, line
  <2> QED BY <2>1, <2>2
<1>10. CASE restart
  BY <1>10 DEF restart, Dispatch, line, Attach
<1>11. CASE UNCHANGED vars
  BY <1>11 DEF vars, handlerVars, line
<1> QED BY <1>1, <1>2, <1>3, <1>4, <1>5, <1>6, <1>7, <1>8, <1>9, <1>10, <1>11 DEF Next, Edge, Handler

LEMMA PostedIsNotEmpty ==
  ASSUME NEW s \in Seq(Handlers), NEW h \in Handlers
  PROVE  Append(s, h) # <<>>
BY DEF Handlers

LEMMA NextDeaf ==
  ASSUME Types, DeafInv, [Next]_vars PROVE DeafInv'
PROOF
<1> USE DEF DeafInv, NeverDeaf, Resting
<1>0. queue \in Seq(Handlers)
  BY DEF Types, Handlers
<1>1. CASE RisingEdge
  BY <1>0, <1>1, PostedIsNotEmpty DEF RisingEdge, Post, Handlers
<1>2. CASE FallingEdge
  BY <1>0, <1>2, PostedIsNotEmpty DEF FallingEdge, Post, Handlers
<1>3. CASE NextFrame
  BY <1>3 DEF NextFrame, handlerVars
<1>4. CASE Expire2
  BY <1>0, <1>4, PostedIsNotEmpty DEF Expire2, Post, Handlers
<1>5. CASE Expire3
  BY <1>0, <1>5, PostedIsNotEmpty DEF Expire3, Post, Handlers
<1>6. CASE rise
  BY <1>6 DEF rise, Dispatch
<1>7. CASE fall
  BY <1>7 DEF fall, Dispatch
<1>8. CASE timeout
  BY <1>8 DEF timeout, Dispatch
<1>9. CASE eee
  BY <1>9 DEF eee
<1>10. CASE restart
  BY <1>10 DEF restart, Dispatch
<1>11. CASE UNCHANGED vars
  BY <1>11 DEF vars, handlerVars
<1> QED BY <1>1, <1>2, <1>3, <1>4, <1>5, <1>6, <1>7, <1>8, <1>9, <1>10, <1>11 DEF Next, Edge, Handler

-----------------------------------------------------------------------------
\* The frame on the line.  A step after which every handler has still been in
\* time was taken when every handler had been.

LEMMA RisingEdgeFrame ==
  ASSUME Types, FrameInv, ~halted, RisingEdge, timely', ~halted' PROVE (Paused /\ AtEdge)'
PROOF
<1>1. /\ timely /\ queue = <<>> /\ eeeArg = <<>> /\ high' /\ ~high
      /\ queue' = (IF onRise THEN Append(<<>>, "rise") ELSE <<>>)
      /\ UNCHANGED <<onRise, onFall, t2, t3, eeeArg, bits, frame>>
  BY DEF RisingEdge, Post, Resting
<1>2. Paused /\ Suffix(bits, frame) /\ (bits # <<>> => t2 /\ onRise)
  BY <1>1 DEF FrameInv, AtEdge, Resting, Receiving
<1>3. Paused' /\ Suffix(bits, frame)' /\ (bits # <<>> => t2)'
  BY <1>1, <1>2 DEF Paused
<1>4. CASE onRise
  <2>1. queue' = <<"rise">> /\ ~t3'
    BY <1>1, <1>2, <1>4 DEF Paused
  <2> QED BY <1>1, <1>3, <2>1 DEF AtEdge
<1>5. CASE ~onRise
  <2>1. queue' = <<>> /\ ~(bits # <<>>)'
    BY <1>1, <1>2, <1>5
  <2> QED BY <1>1, <1>3, <2>1 DEF AtEdge, Resting
<1> QED BY <1>4, <1>5

LEMMA FallingEdgeFrame ==
  ASSUME Types, FrameInv, ~halted, FallingEdge, timely', ~halted' PROVE (Paused /\ AtEdge)'
PROOF
<1>1. /\ timely /\ queue = <<>> /\ eeeArg = <<>> /\ high /\ ~high'
      /\ queue' = (IF onFall THEN Append(<<>>, "fall") ELSE <<>>)
      /\ frame' = Append(frame, pulse)
      /\ UNCHANGED <<onRise, onFall, t2, t3, eeeArg, bits, pulse>>
  BY DEF FallingEdge, Post, Resting
<1>2. Paused /\ Suffix(bits, frame) /\ (bits # <<>> => onFall)
  BY <1>1 DEF FrameInv, AtEdge, Resting, Receiving
<1>3. Paused'
  BY <1>1, <1>2 DEF Paused
<1>4. /\ Suffix(Append(bits, pulse), frame') /\ frame' \in Bits /\ Len(frame') > 0
  BY <1>1, <1>2, AppendToSuffix DEF Types
<1>5. CASE onFall
  <2>1. queue' = <<"fall">> /\ ~t3'
    BY <1>1, <1>2, <1>5 DEF Paused
  <2>2. Suffix(Append(bits, pulse), frame)' /\ (Len(frame) > 0)'
    BY <1>1, <1>4
  <2> QED BY <1>1, <1>3, <2>1, <2>2 DEF AtEdge
<1>6. CASE ~onFall
  <2>1. queue' = <<>> /\ bits' = <<>>
    BY <1>1, <1>2, <1>6
  <2>2. Suffix(bits', frame')
    BY <1>4, <2>1, EmptyIsSuffix
  <2> QED BY <1>1, <1>3, <2>1, <2>2 DEF AtEdge, Resting
<1> QED BY <1>5, <1>6

LEMMA NextFrameFrame ==
  ASSUME Types, FrameInv, ~halted, NextFrame, timely', ~halted' PROVE (Paused /\ AtEdge)'
PROOF
<1>1. /\ timely /\ queue = <<>> /\ eeeArg = <<>> /\ ~t2
      /\ frame' = <<>> /\ UNCHANGED <<onRise, onFall, t2, t3, queue, eeeArg, bits>>
  BY DEF NextFrame, Resting, handlerVars
<1>2. Paused /\ bits = <<>>
  BY <1>1 DEF FrameInv, AtEdge, Resting, Receiving
<1>3. <<>> \in Bits
  BY EmptyIsSuffix DEF Types
<1>4. Suffix(bits', frame')
  BY <1>1, <1>2, <1>3, EmptyIsSuffix
<1> QED BY <1>1, <1>2, <1>4 DEF Paused, AtEdge, Resting

LEMMA Expire2Frame ==
  ASSUME Types, FrameInv, ~halted, Expire2, timely', ~halted' PROVE (Paused /\ AtEdge)'
PROOF
<1>1. /\ timely /\ queue = <<>> /\ eeeArg = <<>> /\ t2 /\ ~t2'
      /\ Len(frame) = FrameBits /\ queue' = Append(<<>>, "timeout")
      /\ UNCHANGED <<onRise, onFall, t3, eeeArg, bits, frame>>
  BY DEF Expire2, Post, Resting, line
<1>2. Paused /\ Suffix(bits, frame)
  BY <1>1 DEF FrameInv, AtEdge, Resting
<1>3. ~t3
  BY <1>1, <1>2 DEF Paused
<1>4. queue' = <<"timeout">> /\ Suffix(bits, frame)' /\ (Len(frame) = FrameBits)'
  BY <1>1, <1>2
<1> QED BY <1>1, <1>3, <1>4 DEF Paused, AtEdge

LEMMA Expire3Frame ==
  ASSUME Types, FrameInv, ~halted, Expire3, timely', ~halted' PROVE (Paused /\ AtEdge)'
PROOF
<1>1. /\ timely /\ queue = <<>> /\ eeeArg = <<>> /\ t3 /\ ~t3'
      /\ queue' = Append(<<>>, "restart") /\ UNCHANGED <<eeeArg, bits>>
  BY DEF Expire3, Post, Resting
<1>2. bits = <<>>
  BY <1>1 DEF FrameInv, Paused
<1>3. queue' = <<"restart">>
  BY <1>1
<1> QED BY <1>1, <1>2, <1>3 DEF Paused, AtEdge

\* The handler that is carried out was the only one, and was in time.
LEMMA OnlyHandler ==
  ASSUME Types, FrameInv, ~halted, timely, NEW h \in Handlers, Dispatch(h)
  PROVE  /\ queue = <<h>> /\ eeeArg = <<>> /\ queue' = <<>>
         /\ UNCHANGED <<high, pulse, frame>>
PROOF
<1>1. eeeArg = <<>> /\ queue # <<>> /\ Head(queue) = h /\ queue' = Tail(queue)
  BY DEF Dispatch
<1>2. queue \in {<<"rise">>, <<"fall">>, <<"timeout">>, <<"restart">>}
  BY <1>1 DEF FrameInv, AtEdge, Resting
<1>3. queue = <<h>> /\ queue' = <<>>
  BY <1>1, <1>2
<1> QED BY <1>1, <1>3 DEF Dispatch, line

LEMMA RiseFrame ==
  ASSUME Types, FrameInv, ~halted, rise, timely', ~halted' PROVE (Paused /\ AtEdge)'
PROOF
<1>1. timely /\ Dispatch("rise") /\ "rise" \in Handlers
  BY DEF rise, Dispatch, line, Handlers
<1>2. /\ queue = <<"rise">> /\ eeeArg = <<>> /\ queue' = <<>>
      /\ UNCHANGED <<high, pulse, frame>>
  BY <1>1, OnlyHandler
<1>3. high /\ ~t3 /\ Suffix(bits, frame) /\ (bits # <<>> => t2)
  BY <1>1, <1>2 DEF FrameInv, AtEdge, Resting
<1>4. onFall' /\ UNCHANGED <<t2, t3, eeeArg, bits>>
  BY DEF rise
<1> QED BY <1>2, <1>3, <1>4 DEF Paused, AtEdge, Resting, Receiving

LEMMA FallFrame ==
  ASSUME Types, FrameInv, ~halted, fall, timely', ~halted' PROVE (Paused /\ AtEdge)'
PROOF
<1>1. timely /\ Dispatch("fall") /\ "fall" \in Handlers
  BY DEF fall, Dispatch, line, Handlers
<1>2. /\ queue = <<"fall">> /\ eeeArg = <<>> /\ queue' = <<>>
      /\ UNCHANGED <<high, pulse, frame>>
  BY <1>1, OnlyHandler
<1>3. ~high /\ ~t3 /\ Suffix(Append(bits, pulse), frame)
  BY <1>1, <1>2 DEF FrameInv, AtEdge, Resting
<1>4. onRise' /\ t2' /\ bits' = Append(bits, pulse) /\ UNCHANGED <<t3, eeeArg>>
  BY DEF fall
<1>5. ~t3' /\ eeeArg' = <<>> /\ Suffix(bits', frame') /\ ~high'
  BY <1>2, <1>3, <1>4
<1> QED BY <1>2, <1>4, <1>5 DEF Paused, AtEdge, Resting, Receiving

LEMMA TimeoutFrame ==
  ASSUME Types, FrameInv, ~halted, timeout, timely', ~halted' PROVE (Paused /\ AtEdge)'
PROOF
<1>1. timely /\ Dispatch("timeout") /\ "timeout" \in Handlers
  BY DEF timeout, Dispatch, line, Handlers
<1>2. /\ queue = <<"timeout">> /\ eeeArg = <<>> /\ queue' = <<>>
      /\ UNCHANGED <<high, pulse, frame>>
  BY <1>1, OnlyHandler
<1>3. ~t2 /\ ~t3 /\ Len(frame) = FrameBits /\ Suffix(bits, frame)
  BY <1>1, <1>2 DEF FrameInv, AtEdge, Resting
<1>4. /\ eeeArg' = (IF Len(bits) = FrameBits THEN bits ELSE <<>>)
      /\ bits' = <<>> /\ UNCHANGED <<t2, t3>>
  BY DEF timeout
<1>5. Suffix(bits', frame')
  BY <1>2, <1>4, EmptyIsSuffix DEF Types
<1>6. eeeArg' # <<>> => eeeArg' = frame'
  BY <1>2, <1>3, <1>4, WholeSuffix DEF Types
<1>7. Paused'
  BY <1>3, <1>4 DEF Paused
<1> QED BY <1>2, <1>3, <1>4, <1>5, <1>6, <1>7 DEF AtEdge, Resting

LEMMA EeeFrame ==
  ASSUME Types, FrameInv, ~halted, eee, timely', ~halted' PROVE (Paused /\ AtEdge)'
PROOF
<1>1. timely /\ eeeArg # <<>> /\ UNCHANGED <<t2, queue, bits, high, pulse, frame>>
  BY DEF eee, line
<1>2. queue = <<>> /\ ~t2 /\ ~t3 /\ bits = <<>>
  BY <1>1 DEF FrameInv, AtEdge, Resting
<1>3. Suffix(bits', frame')
  BY <1>1, <1>2, EmptyIsSuffix DEF Types
<1>4. eeeArg' = <<>> /\ (t3' => ~onRise' /\ ~onFall')
  BY <1>2 DEF eee
<1> QED BY <1>1, <1>2, <1>3, <1>4 DEF Paused, AtEdge, Resting

LEMMA RestartFrame ==
  ASSUME Types, FrameInv, ~halted, restart, timely', ~halted' PROVE (Paused /\ AtEdge)'
PROOF
<1>1. timely /\ Dispatch("restart") /\ "restart" \in Handlers
  BY DEF restart, Dispatch, line, Handlers
<1>2. /\ queue = <<"restart">> /\ eeeArg = <<>> /\ queue' = <<>>
      /\ UNCHANGED <<high, pulse, frame>>
  BY <1>1, OnlyHandler
<1>3. ~t3 /\ bits = <<>>
  BY <1>1, <1>2 DEF FrameInv, AtEdge, Resting
<1>4. UNCHANGED <<t2, t3, eeeArg, bits>>
  BY DEF restart
<1>5. Suffix(bits', frame')
  BY <1>2, <1>3, <1>4, EmptyIsSuffix DEF Types
<1> QED BY <1>2, <1>3, <1>4, <1>5 DEF Paused, AtEdge, Resting

LEMMA NextFrameInv ==
  ASSUME Types, FrameInv, [Next]_vars PROVE FrameInv'
PROOF
<1> SUFFICES ASSUME timely' PROVE IF halted' THEN eeeArg' = <<>> ELSE (Paused /\ AtEdge)'
  BY DEF FrameInv
<1>1. CASE UNCHANGED vars
  <2>1. timely /\ UNCHANGED vars
    BY <1>1 DEF vars
  <2> QED BY <2>1 DEF FrameInv, Paused, AtEdge, Resting, Receiving, vars, handlerVars, line
<1>2. CASE Next /\ halted'
  <2>1. ~halted /\ (Edge \/ Expire2 \/ Expire3)
    BY <1>2 DEF Next, Handler, rise, fall, timeout, eee, restart, Dispatch
  <2>2. eeeArg = <<>> /\ UNCHANGED eeeArg
    BY <1>2, <2>1 DEF Edge, RisingEdge, FallingEdge, NextFrame, Expire2, Expire3, Resting, handlerVars
  <2> QED BY <1>2, <2>2
<1>3. CASE Next /\ ~halted'
  <2>1. ~halted
    BY <1>3 DEF Next
  <2>2. (Paused /\ AtEdge)'
    BY <1>3, <2>1, RisingEdgeFrame, FallingEdgeFrame, NextFrameFrame, Expire2Frame, Expire3Frame,
       RiseFrame, FallFrame, TimeoutFrame, EeeFrame, RestartFrame DEF Next, Edge, Handler
  <2> QED BY <1>3, <2>2
<1> QED BY <1>1, <1>2, <1>3

-----------------------------------------------------------------------------
\* The memory of the queue.

LEMMA AtMostTwo ==
  ASSUME NEW a, NEW b, NEW h, h \subseteq {a, b}
  PROVE  Cardinality(h) \in Nat /\ Cardinality(h) <= 2
PROOF
<1>1. IsFiniteSet({}) /\ Cardinality({}) = 0
  BY FS_EmptySet
<1>2. IsFiniteSet({} \cup {a}) /\ Cardinality({} \cup {a}) \in {0, 1}
  BY <1>1, FS_AddElement
<1>3. IsFiniteSet(({} \cup {a}) \cup {b}) /\ Cardinality(({} \cup {a}) \cup {b}) \in {0, 1, 2}
  BY <1>2, FS_AddElement
<1>4. ({} \cup {a}) \cup {b} = {a, b}
  OBVIOUS
<1>5. PICK T : T = {a, b} /\ IsFiniteSet(T) /\ Cardinality(T) \in {0, 1, 2}
  BY <1>3, <1>4
<1>6. IsFiniteSet(h) /\ Cardinality(h) <= Cardinality(T)
  BY <1>5, FS_Subset
<1>7. Cardinality(h) \in Nat
  BY <1>6, FS_CardinalityType
<1> QED BY <1>5, <1>6, <1>7

LEMMA AtMostOne ==
  ASSUME NEW a, NEW h, h \subseteq {a}
  PROVE  Cardinality(h) \in Nat /\ Cardinality(h) <= 1
PROOF
<1>1. IsFiniteSet({}) /\ Cardinality({}) = 0
  BY FS_EmptySet
<1>2. IsFiniteSet({} \cup {a}) /\ Cardinality({} \cup {a}) \in {0, 1} /\ {} \cup {a} = {a}
  BY <1>1, FS_AddElement
<1>3. PICK T : T = {a} /\ IsFiniteSet(T) /\ Cardinality(T) \in {0, 1}
  BY <1>2
<1>4. IsFiniteSet(h) /\ Cardinality(h) <= Cardinality(T)
  BY <1>3, FS_Subset
<1>5. Cardinality(h) \in Nat
  BY <1>4, FS_CardinalityType
<1> QED BY <1>3, <1>4, <1>5

\* Two attached events leave room for a third when nothing is in the queue,
\* and so does one when one is being carried out.
LEMMA RoomResting ==
  ASSUME QueueCapacity >= 3, Resting, NEW a, NEW b, NEW h, h \subseteq {a, b}
  PROVE  Room(h)
PROOF
<1>1. PICK n \in Nat : n = Cardinality(h) /\ n <= 2
  BY AtMostTwo
<1>2. Len(queue) = 0 /\ eeeArg = <<>> /\ QueueCapacity \in Nat
  BY WeightAssumption DEF Resting
<1> QED BY <1>1, <1>2 DEF Room

LEMMA RoomRunning ==
  ASSUME QueueCapacity >= 3, NEW a, NEW h, h \subseteq {a},
         \/ eeeArg = <<>> /\ \E e : queue = <<e>>
         \/ eeeArg # <<>> /\ queue = <<>>
  PROVE  Room(h)
PROOF
<1>1. PICK n \in Nat : n = Cardinality(h) /\ n <= 1
  BY AtMostOne
<1>2. CASE eeeArg = <<>>
  <2>1. Len(queue) = 1 /\ QueueCapacity \in Nat
    BY <1>2, WeightAssumption
  <2> QED BY <1>1, <1>2, <2>1 DEF Room
<1>3. CASE eeeArg # <<>>
  <2>1. Len(queue) = 0 /\ QueueCapacity \in Nat
    BY <1>3, WeightAssumption
  <2> QED BY <1>1, <1>3, <2>1 DEF Room
<1> QED BY <1>2, <1>3

\* What is switched on when nothing is in the queue.
LEMMA RestingHeld ==
  ASSUME Types, Paused, HeldInv, QueueCapacity >= 3, Resting
  PROVE  Room(held)
PROOF
<1>1. CASE t3
  <2>1. held \subseteq {"restart", "restart"}
    BY <1>1 DEF Types, HeldInv, Paused
  <2> QED BY <2>1, RoomResting
<1>2. CASE ~t3 /\ onRise
  <2>1. held \subseteq {"rise", "timeout"}
    BY <1>2 DEF Types, HeldInv
  <2> QED BY <2>1, RoomResting
<1>3. CASE ~t3 /\ ~onRise
  <2>1. held \subseteq {"fall", "timeout"}
    BY <1>3 DEF Types, HeldInv
  <2> QED BY <2>1, RoomResting
<1> QED BY <1>1, <1>2, <1>3

\* An interrupt in time finds memory.
LEMMA EdgeMemory ==
  ASSUME Types, FrameInv, timely, QueueCapacity >= 3, HeldInv, timely',
         RisingEdge \/ FallingEdge \/ NextFrame \/ Expire2 \/ Expire3
  PROVE  HeldInv'
PROOF
<1>1. Resting /\ ~halted
  BY DEF RisingEdge, FallingEdge, NextFrame, Expire2, Expire3, HeldInv
<1>2. Paused /\ Room(held)
  BY <1>1, RestingHeld DEF FrameInv
<1>3. eeeArg = <<>> /\ queue = <<>> /\ UNCHANGED eeeArg
  BY <1>1 DEF Resting, RisingEdge, FallingEdge, NextFrame, Expire2, Expire3, handlerVars
<1>4. CASE RisingEdge
  <2>1. ~halted' /\ queue' = (IF onRise THEN <<"rise">> ELSE <<>>) /\ UNCHANGED <<onRise, onFall, t2, t3, held>>
    BY <1>1, <1>2, <1>3, <1>4 DEF RisingEdge, Post, HeldInv
  <2> QED BY <1>3, <2>1 DEF HeldInv
<1>5. CASE FallingEdge
  <2>1. ~halted' /\ queue' = (IF onFall THEN <<"fall">> ELSE <<>>) /\ UNCHANGED <<onRise, onFall, t2, t3, held>>
    BY <1>1, <1>2, <1>3, <1>5 DEF FallingEdge, Post, HeldInv
  <2> QED BY <1>3, <2>1 DEF HeldInv
<1>6. CASE NextFrame
  BY <1>6 DEF NextFrame, handlerVars, HeldInv
<1>7. CASE Expire2
  <2>1. /\ ~halted' /\ queue' = <<"timeout">> /\ held' = held \ {"timeout"} /\ ~t2'
        /\ UNCHANGED <<onRise, onFall, t3>>
    BY <1>1, <1>2, <1>3, <1>7 DEF Expire2, Post, HeldInv
  <2> QED BY <1>3, <2>1 DEF HeldInv
<1>8. CASE Expire3
  <2>1. /\ ~halted' /\ queue' = <<"restart">> /\ held' = held \ {"restart"} /\ ~t3'
        /\ UNCHANGED <<onRise, onFall, t2>>
    BY <1>1, <1>2, <1>3, <1>8 DEF Expire3, Post, HeldInv
  <2>2. ~onRise /\ ~onFall /\ ~t2
    BY <1>2, <1>8 DEF Paused, Expire3
  <2> QED BY <1>3, <2>1, <2>2 DEF HeldInv
<1> QED BY <1>4, <1>5, <1>6, <1>7, <1>8

LEMMA HandlerMemory ==
  ASSUME Types, FrameInv, timely, QueueCapacity >= 3, HeldInv, timely', Handler
  PROVE  HeldInv'
PROOF
<1>0. ~halted /\ AtEdge
  BY DEF HeldInv, FrameInv
<1>1. CASE rise
  <2>1. Dispatch("rise") /\ "rise" \in Handlers
    BY <1>1 DEF rise, Handlers
  <2>2. queue = <<"rise">> /\ eeeArg = <<>> /\ queue' = <<>> /\ UNCHANGED halted
    BY <1>0, <2>1, OnlyHandler DEF Dispatch
  <2>3. ~t3
    BY <1>0, <2>2 DEF AtEdge, Resting
  <2>4. held \ {"rise"} \subseteq {"timeout", "fall"}
    BY <2>3 DEF Types, HeldInv
  <2>5. CASE ~onFall
    <3>1. Room(held \ {"rise"})
      <4>1. held \ {"rise"} \subseteq {"timeout"}
        BY <2>4, <2>5 DEF HeldInv
      <4> QED BY <2>2, <4>1, RoomRunning
    <3>2. held' = (held \ {"rise"}) \cup {"fall"}
      BY <1>1, <3>1 DEF rise, Attach
    <3> QED BY <1>0, <1>1, <2>2, <2>3, <3>2 DEF rise, HeldInv
  <2>6. onFall => FALSE
    BY <2>2 DEF HeldInv
  <2> QED BY <2>5, <2>6
<1>2. CASE fall
  <2>1. Dispatch("fall") /\ "fall" \in Handlers
    BY <1>2 DEF fall, Handlers
  <2>2. queue = <<"fall">> /\ eeeArg = <<>> /\ queue' = <<>> /\ UNCHANGED halted
    BY <1>0, <2>1, OnlyHandler DEF Dispatch
  <2>3. ~t3 /\ ~onRise
    BY <1>0, <2>2 DEF AtEdge, Resting, HeldInv
  <2>4. held \ {"fall"} \subseteq {"timeout"}
    BY <2>3 DEF Types, HeldInv
  <2>5. Room(held \ {"fall"})
    BY <2>2, <2>4, RoomRunning
  <2>6. Attach(held \ {"fall"}, "timeout") = {"timeout"}
    BY <2>4, <2>5 DEF Attach
  <2>7. Room({"timeout"})
    <3>1. {"timeout"} \subseteq {"timeout"}
      OBVIOUS
    <3> QED BY <2>2, <3>1, RoomRunning
  <2>8. held' = {"timeout"} \cup {"rise"}
    BY <1>2, <2>6, <2>7 DEF fall, Attach
  <2> QED BY <1>0, <1>2, <2>2, <2>3, <2>8 DEF fall, HeldInv
<1>3. CASE timeout
  <2>1. Dispatch("timeout") /\ "timeout" \in Handlers
    BY <1>3 DEF timeout, Handlers
  <2>2. queue = <<"timeout">> /\ eeeArg = <<>> /\ queue' = <<>> /\ UNCHANGED halted
    BY <1>0, <2>1, OnlyHandler DEF Dispatch
  <2>3. ~t2 /\ ~t3
    BY <1>0, <2>2 DEF AtEdge, Resting
  <2>4. held \ {"rise", "fall"} = {} /\ held \ {"rise", "fall"} \subseteq {"rise"}
    BY <2>3 DEF Types, HeldInv
  <2>5. Room(held \ {"rise", "fall"})
    BY <2>2, <2>4, RoomRunning
  <2>6. held' = {"rise"}
    BY <1>3, <2>4, <2>5 DEF timeout, Attach
  <2> QED BY <1>0, <1>3, <2>2, <2>3, <2>6 DEF timeout, HeldInv
<1>4. CASE eee
  <2>1. eeeArg # <<>> /\ queue = <<>> /\ ~t2 /\ ~t3 /\ ~onFall /\ UNCHANGED <<halted, queue, t2>> /\ eeeArg' = <<>>
    BY <1>0, <1>4 DEF eee, AtEdge, Resting, HeldInv
  <2>2. CASE eeeArg \in Stable
    <3>1. held \ {"rise", "fall"} = {} /\ held \ {"rise", "fall"} \subseteq {"rise"}
      BY <2>1 DEF Types, HeldInv
    <3>2. Room(held \ {"rise", "fall"})
      BY <2>1, <3>1, RoomRunning
    <3>3. held' = {"restart"}
      BY <1>4, <2>2, <3>1, <3>2 DEF eee, Attach
    <3> QED BY <1>0, <1>4, <2>1, <2>2, <3>3 DEF eee, HeldInv
  <2>3. CASE eeeArg \notin Stable
    BY <1>0, <1>4, <2>1, <2>3 DEF eee, HeldInv
  <2> QED BY <2>2, <2>3
<1>5. CASE restart
  <2>1. Dispatch("restart") /\ "restart" \in Handlers
    BY <1>5 DEF restart, Handlers
  <2>2. queue = <<"restart">> /\ eeeArg = <<>> /\ queue' = <<>> /\ UNCHANGED halted
    BY <1>0, <2>1, OnlyHandler DEF Dispatch
  <2>3. ~t3 /\ ~onRise /\ ~onFall /\ ~t2
    BY <1>0, <2>2 DEF AtEdge, Resting, HeldInv
  <2>4. held = {} /\ held \subseteq {"rise"}
    BY <2>3 DEF Types, HeldInv
  <2>5. Room(held)
    BY <2>2, <2>4, RoomRunning
  <2>6. held' = {"rise"}
    BY <1>5, <2>4, <2>5 DEF restart, Attach
  <2> QED BY <1>0, <1>5, <2>2, <2>3, <2>6 DEF restart, HeldInv
<1> QED BY <1>1, <1>2, <1>3, <1>4, <1>5 DEF Handler

LEMMA NextMemory ==
  ASSUME Types, FrameInv, MemoryInv, [Next]_vars PROVE MemoryInv'
PROOF
<1> SUFFICES ASSUME timely', QueueCapacity >= 3 PROVE HeldInv'
  BY DEF MemoryInv
<1>1. timely /\ HeldInv
  <2>1. timely
    BY DEF Next, Edge, Handler, RisingEdge, FallingEdge, NextFrame, Expire2, Expire3,
           rise, fall, timeout, eee, restart, vars
  <2> QED BY <2>1 DEF MemoryInv
<1>2. CASE UNCHANGED vars
  BY <1>1, <1>2 DEF vars, handlerVars, HeldInv
<1>3. CASE Next
  BY <1>1, <1>3, EdgeMemory, HandlerMemory DEF Next, Edge
<1> QED BY <1>2, <1>3

-----------------------------------------------------------------------------
\* The theorems.

LEMMA WeightInvariant == Spec => []WeightInv
PROOF
<1>1. WeightInv /\ [Next]_vars => WeightInv'
  BY NextTypes, NextDeaf, NextFrameInv, NextMemory DEF WeightInv
<1> QED BY <1>1, InitWeight, PTL DEF Spec

\* However late the handlers of Weight.cpp are, whatever the queue still holds
\* when eee() switches interrupts off, and with any amount of memory: unless
\* the assertion in Event::call() has stopped the program, an interrupt is on,
\* a timer runs or a handler is waiting, so that the decoder will listen again.
THEOREM DecoderNeverDeaf == Spec => []NeverDeaf
PROOF
<1>1. WeightInv => NeverDeaf
  BY DEF WeightInv, DeafInv
<1> QED BY <1>1, WeightInvariant, PTL

\* When handlers keep up with the line, memory for three events is enough for
\* every queue.event() of Weight.cpp and every Event::call() of its interrupts,
\* whatever is sent and however often the decoder is stopped and restarted.
THEOREM TimelyDecoderNeverHalts == Spec => []TimelyNeverHalts
PROOF
<1>1. WeightInv => TimelyNeverHalts
  BY DEF WeightInv, MemoryInv, HeldInv, TimelyNeverHalts
<1> QED BY <1>1, WeightInvariant, PTL

\* When handlers keep up with the line, what timeout() hands to eee() is the
\* frame the scale has just sent, for every frame length and wherever in a
\* frame the decoder was started or restarted.
THEOREM ReadingIsOneFrame == Spec => []ShownIsOneFrame
PROOF
<1>1. WeightInv => ShownIsOneFrame
  BY DEF WeightInv, FrameInv, AtEdge, Resting, ShownIsOneFrame
<1> QED BY <1>1, WeightInvariant, PTL
=============================================================================
