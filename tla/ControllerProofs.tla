-------------------------- MODULE ControllerProofs --------------------------
(***************************************************************************)
(* For every set of inputs, timer length, queue size and set of faulty     *)
(* devices.  First, during an iteration: the controller implements         *)
(* LockBox, the alarm and the lamp always have something that will switch  *)
(* them off, and the event queue never runs out of memory when the event   *)
(* thread is prompt.  Second, between iterations: the bolt, the bottom row *)
(* and the messages agree with the state.  Third, with the door: the bolt  *)
(* is out only while the door is shut.                                     *)
(***************************************************************************)
EXTENDS Door, TLAPS

\* What com_main may have pending: no servo command but the one for g_state.
ComOps(mode) ==
  {o \in Ops : o.op = "servo" => mode # "INIT" /\ o.arg = Box!Angle[mode]}

\* What the event thread may have pending.
EvOps == {o \in Ops : o.op \notin {"servo", "http", "attach"} /\ o.arg \notin {"50", "on", "UNLOCKED"}}

\* Every occurrence of o is followed by an Attach.
Covered(s, o) ==
  \A i \in 1..Len(s) : s[i] = o => \E j \in (i + 1)..Len(s) : s[j] = Attach

\* Operations that need no cover.
Plain == {o \in Ops : o # Kaiten("50") /\ o # Lamp("on")}

ThreadInv ==
  /\ com \in Seq(ComOps(g_state))
  /\ ev \in Seq(EvOps)
  /\ pc = "boot" <=> g_state = "INIT"

CoverInv ==
  /\ Covered(com, Kaiten("50"))
  /\ door_open_old \/ Covered(com, Lamp("on"))

-----------------------------------------------------------------------------

LEMMA OpKinds ==
  /\ \A a \in {"150", "70"} : Servo(a) \in Ops
  /\ \A d \in {"50", "0"} : Kaiten(d) \in Ops
  /\ \A l \in {"on", "off"} : Lamp(l) \in Ops
  /\ \A r \in Row : Clear(r) \in Ops /\ Cursor(r) \in Ops
  /\ \A t \in Texts : Text(t) \in Ops
  /\ \A n \in Requests : Http(n) \in Ops
  /\ Attach \in Ops
BY DEF Ops

\* The argument of an operation is one its device understands.
LEMMA OpArgs ==
  ASSUME NEW o \in Ops
  PROVE  /\ o = [op |-> o.op, arg |-> o.arg]
         /\ o.op = "servo" => o.arg \in {"150", "70"}
         /\ o.op = "kaiten" => o.arg \in {"50", "0"}
         /\ o.op = "lamp" => o.arg \in {"on", "off"}
         /\ o.op = "clear" => o.arg \in Row
         /\ o.op = "cursor" => o.arg \in Row
         /\ o.op = "text" => o.arg \in Texts
         /\ o.op = "http" => o.arg \in Requests
         /\ o.op \in {"servo", "kaiten", "lamp", "clear", "cursor", "text", "http", "attach"}
BY DEF Ops, Servo, Kaiten, Lamp, Clear, Cursor, Text, Http, Attach, Op

LEMMA PendingTail ==
  ASSUME NEW S, NEW s \in Seq(S), NEW o, s # <<>>, Pending(s, o), Head(s) # o
  PROVE  Pending(Tail(s), o)
PROOF
<1>1. PICK i \in 1..Len(s) : s[i] = o
  BY DEF Pending
<1>2. i # 1
  BY <1>1
<1>3. i - 1 \in 1..Len(Tail(s)) /\ Tail(s)[i - 1] = s[i]
  BY <1>1, <1>2
<1> QED BY <1>1, <1>3 DEF Pending

LEMMA CoveredTail ==
  ASSUME NEW S, NEW s \in Seq(S), NEW o, s # <<>>, Covered(s, o)
  PROVE  /\ Covered(Tail(s), o)
         /\ Head(s) = o => Pending(Tail(s), Attach)
PROOF
<1>1. Tail(s) \in Seq(S) /\ Len(Tail(s)) = Len(s) - 1 /\ Len(s) \in Nat \ {0}
  OBVIOUS
<1>2. \A k \in 1..Len(Tail(s)) : Tail(s)[k] = s[k + 1]
  OBVIOUS
<1>3. ASSUME NEW i \in 1..Len(Tail(s)), Tail(s)[i] = o
      PROVE  \E j \in (i + 1)..Len(Tail(s)) : Tail(s)[j] = Attach
  <2>1. i + 1 \in 1..Len(s) /\ s[i + 1] = o
    BY <1>1, <1>2, <1>3
  <2>2. PICK j \in (i + 2)..Len(s) : s[j] = Attach
    BY <2>1 DEF Covered
  <2>3. j - 1 \in (i + 1)..Len(Tail(s)) /\ Tail(s)[j - 1] = Attach
    BY <1>1, <1>2, <2>2
  <2> QED BY <2>3
<1>4. ASSUME Head(s) = o PROVE Pending(Tail(s), Attach)
  <2>1. PICK j \in 2..Len(s) : s[j] = Attach
    BY <1>1, <1>4 DEF Covered
  <2>2. j - 1 \in 1..Len(Tail(s)) /\ Tail(s)[j - 1] = Attach
    BY <1>1, <1>2, <2>1
  <2> QED BY <2>2 DEF Pending
<1> QED BY <1>3, <1>4 DEF Covered

\* Plain operations behind a covered sequence need no further cover.
LEMMA CoveredAppend ==
  ASSUME NEW o \in {Kaiten("50"), Lamp("on")},
         NEW s \in Seq(Ops), NEW t \in Seq(Plain), Covered(s, o)
  PROVE  s \o t \in Seq(Ops) /\ Covered(s \o t, o)
PROOF
<1>1. /\ s \o t \in Seq(Ops)
      /\ Len(s \o t) = Len(s) + Len(t)
      /\ \A k \in 1..Len(s) : (s \o t)[k] = s[k]
      /\ \A k \in (Len(s) + 1)..(Len(s) + Len(t)) : (s \o t)[k] = t[k - Len(s)]
      /\ Len(s) \in Nat /\ Len(t) \in Nat
  BY DEF Plain
<1>2. \A k \in 1..Len(t) : t[k] # o
  BY DEF Plain
<1>3. ASSUME NEW i \in 1..Len(s \o t), (s \o t)[i] = o
      PROVE  \E j \in (i + 1)..Len(s \o t) : (s \o t)[j] = Attach
  <2>1. i \in 1..Len(s) /\ s[i] = o
    BY <1>1, <1>2, <1>3
  <2>2. PICK j \in (i + 1)..Len(s) : s[j] = Attach
    BY <2>1 DEF Covered
  <2> QED BY <1>1, <2>1, <2>2
<1> QED BY <1>1, <1>3 DEF Covered

-----------------------------------------------------------------------------
\* The sequences the blocks of com_main produce.

\* Operations any block may produce, whatever the state.
Common == {o \in Plain : o.op # "servo"}

LEMMA CommonSubset ==
  /\ Common \subseteq Plain
  /\ Plain \subseteq Ops
  /\ \A mode : Common \subseteq ComOps(mode)
BY DEF Common, Plain, ComOps

LEMMA SeqSubset ==
  ASSUME NEW S, NEW T, S \subseteq T, NEW s \in Seq(S)
  PROVE  s \in Seq(T)
OBVIOUS

LEMMA ShowCommon ==
  ASSUME NEW row \in Row, NEW text \in Texts
  PROVE  Show(row, text) \in Seq(Common)
PROOF
<1>1. Clear(row) \in Common /\ Cursor(row) \in Common /\ Text(text) \in Common
  BY OpKinds DEF Common, Plain, Clear, Cursor, Text, Kaiten, Lamp, Op
<1> QED BY <1>1 DEF Show

LEMMA HttpCommon ==
  ASSUME NEW n \in Requests
  PROVE  Http(n) \in Common
BY OpKinds DEF Common, Plain, Http, Kaiten, Lamp, Op

LEMMA Concat ==
  ASSUME NEW S, NEW s \in Seq(S), NEW t \in Seq(S)
  PROVE  /\ s \o t \in Seq(S)
         /\ Len(s \o t) = Len(s) + Len(t)
         /\ \A k \in 1..Len(s) : (s \o t)[k] = s[k]
         /\ \A k \in (Len(s) + 1)..(Len(s) + Len(t)) : (s \o t)[k] = t[k - Len(s)]
OBVIOUS

\* Two operations in front of others.
LEMMA PairConcat ==
  ASSUME NEW S, NEW s \in Seq(S), NEW t \in Seq(S), Len(s) = 2, t # <<>>
  PROVE  /\ s \o t \in Seq(S) /\ Len(s \o t) = Len(t) + 2
         /\ (s \o t)[1] = s[1] /\ (s \o t)[2] = s[2] /\ (s \o t)[3] = t[1]
PROOF
<1>1. /\ s \o t \in Seq(S)
      /\ Len(s \o t) = Len(s) + Len(t)
      /\ \A k \in 1..Len(s) : (s \o t)[k] = s[k]
      /\ \A k \in (Len(s) + 1)..(Len(s) + Len(t)) : (s \o t)[k] = t[k - Len(s)]
  BY Concat, Zenon
<1>2. Len(t) \in Nat \ {0}
  OBVIOUS
<1>3. /\ 1 \in 1..Len(s) /\ 2 \in 1..Len(s)
      /\ 3 \in (Len(s) + 1)..(Len(s) + Len(t)) /\ 3 - Len(s) = 1
  BY <1>2
<1>4. /\ (s \o t)[1] = s[1] /\ (s \o t)[2] = s[2]
      /\ (s \o t)[3] = t[3 - Len(s)]
  BY <1>1, <1>3, Zenon
<1>5. (s \o t)[3] = t[1]
  BY <1>3, <1>4, Zenon
<1>6. Len(s \o t) = Len(t) + 2
  BY <1>1, <1>2
<1> QED BY <1>1, <1>4, <1>5, <1>6, Zenon

\* kaiten_stop() (main.cpp:233-243) begins with the write that stops the motor.
LEMMA StopScript ==
  /\ kaiten_stop \in Seq(EvOps)
  /\ kaiten_stop # <<>>
  /\ Pending(kaiten_stop, Kaiten("0"))
  /\ Pending(kaiten_stop, Lamp("off"))
PROOF
<1> DEFINE s == cmd_kaiten_lamp("0", "off")
           t == Show("status", "LOCKED")
<1>1. /\ Kaiten("0") \in EvOps /\ Lamp("off") \in EvOps
      /\ Clear("status") \in EvOps /\ Cursor("status") \in EvOps /\ Text("LOCKED") \in EvOps
  BY OpKinds DEF EvOps, Kaiten, Lamp, Clear, Cursor, Text, Op, Row, Texts, StatusTexts
<1>2. /\ s \in Seq(EvOps) /\ t \in Seq(EvOps)
      /\ Len(s) = 2 /\ s[1] = Kaiten("0") /\ s[2] = Lamp("off")
      /\ t # <<>>
  BY <1>1 DEF cmd_kaiten_lamp, Show
<1> HIDE DEF s, t
<1>3. s \o t \in Seq(EvOps) /\ Len(s \o t) = Len(t) + 2 /\ (s \o t)[1] = s[1] /\ (s \o t)[2] = s[2]
  BY <1>2, PairConcat, SMT
<1>4. kaiten_stop = s \o t
  BY DEF kaiten_stop, s, t
<1> QED BY <1>2, <1>3, <1>4 DEF Pending

\* A sequence for com_main in a given mode, with the alarm's switches covered.
Good(s, mode) ==
  /\ s \in Seq(ComOps(mode))
  /\ Covered(s, Kaiten("50")) /\ Covered(s, Lamp("on"))

LEMMA CommonGood ==
  ASSUME NEW s \in Seq(Common), NEW mode
  PROVE  Good(s, mode)
PROOF
<1>1. s \in Seq(ComOps(mode))
  BY CommonSubset, SeqSubset
<1>2. \A i \in 1..Len(s) : s[i] # Kaiten("50") /\ s[i] # Lamp("on")
  BY DEF Common, Plain
<1> QED BY <1>1, <1>2 DEF Good, Covered

LEMMA GoodAppend ==
  ASSUME NEW mode, NEW s, Good(s, mode), NEW t \in Seq(Common)
  PROVE  Good(s \o t, mode)
PROOF
<1>1. s \in Seq(ComOps(mode)) /\ t \in Seq(ComOps(mode))
  BY CommonSubset, SeqSubset DEF Good
<1>2. s \o t \in Seq(ComOps(mode))
  BY <1>1
<1>3. s \in Seq(Ops) /\ t \in Seq(Plain)
  BY <1>1, CommonSubset, SeqSubset DEF ComOps
<1>4. Covered(s \o t, Kaiten("50")) /\ Covered(s \o t, Lamp("on"))
  BY <1>3, CoveredAppend DEF Good
<1> QED BY <1>2, <1>4 DEF Good

\* unlock_failed() (main.cpp:198-231) arms the timer after it has switched the
\* alarm on.
LEMMA FailedGood ==
  ASSUME NEW mode, NEW pattern \in StatusTexts
  PROVE  Good(unlock_failed(pattern), mode)
PROOF
<1> DEFINE h == cmd_kaiten_lamp("50", "on") \o <<Attach>>
           n == CASE pattern = "INCORRECT" -> <<Http("NotifyUnlockFailedInvalidPass")>>
                  [] pattern = "DO_DIET"   -> <<Http("NotifyUnlockFailedDoDiet")>>
                  [] OTHER                 -> <<>>
<1>2. /\ Kaiten("50") \in ComOps(mode) /\ Lamp("on") \in ComOps(mode)
      /\ Attach \in ComOps(mode)
  BY OpKinds DEF ComOps, Kaiten, Lamp, Attach, Op
<1>3. /\ h \in Seq(ComOps(mode))
      /\ Len(h) = 3 /\ h[1] = Kaiten("50") /\ h[2] = Lamp("on") /\ h[3] = Attach
  <2> DEFINE a == cmd_kaiten_lamp("50", "on")
             b == <<Attach>>
  <2>1. /\ a \in Seq(ComOps(mode)) /\ b \in Seq(ComOps(mode))
        /\ Len(a) = 2 /\ a[1] = Kaiten("50") /\ a[2] = Lamp("on")
        /\ Len(b) = 1 /\ b # <<>> /\ b[1] = Attach
    BY <1>2 DEF cmd_kaiten_lamp
  <2> HIDE DEF a, b
  <2>2. /\ a \o b \in Seq(ComOps(mode)) /\ Len(a \o b) = Len(b) + 2
        /\ (a \o b)[1] = a[1] /\ (a \o b)[2] = a[2] /\ (a \o b)[3] = b[1]
    BY <2>1, PairConcat, SMT
  <2> QED BY <2>1, <2>2 DEF a, b
<1> HIDE DEF h
<1>8. Good(h, mode)
  BY <1>3 DEF Good, Covered, Kaiten, Lamp, Attach, Op
<1>4. Show("status", pattern) \in Seq(Common)
  BY ShowCommon DEF Row, Texts
<1>5. n \in Seq(Common)
  <2>1. /\ Http("NotifyUnlockFailedInvalidPass") \in Common
        /\ Http("NotifyUnlockFailedDoDiet") \in Common
    BY HttpCommon DEF Requests
  <2> QED BY <2>1
<1> HIDE DEF n
<1>6. Good(h \o Show("status", pattern), mode)
  BY <1>8, <1>4, GoodAppend
<1>7. Good((h \o Show("status", pattern)) \o n, mode)
  BY <1>5, <1>6, GoodAppend
<1> QED BY <1>7 DEF unlock_failed, h, n

\* LOCKED_init() and UNLOCKED_init() (main.cpp:257-292) drive the servo to the
\* angle of the state they are for.
LEMMA InitFuncGood ==
  ASSUME NEW mode \in {"LOCKED", "UNLOCKED"}
  PROVE  Good(init_func(mode), mode)
PROOF
<1>1. CASE mode = "LOCKED"
  <2> DEFINE h == cmd_kaiten_lamp("0", "off") \o <<Servo("150")>>
  <2>2. /\ Kaiten("0") \in ComOps(mode) /\ Lamp("off") \in ComOps(mode)
        /\ Servo("150") \in ComOps(mode)
    BY <1>1, OpKinds DEF ComOps, Kaiten, Lamp, Servo, Op, Box!Angle
  <2>1. /\ h \in Seq(ComOps(mode))
        /\ Len(h) = 3 /\ h[1] = Kaiten("0") /\ h[2] = Lamp("off") /\ h[3] = Servo("150")
    <3> DEFINE a == cmd_kaiten_lamp("0", "off")
               b == <<Servo("150")>>
    <3>1. /\ a \in Seq(ComOps(mode)) /\ b \in Seq(ComOps(mode))
          /\ Len(a) = 2 /\ a[1] = Kaiten("0") /\ a[2] = Lamp("off")
          /\ Len(b) = 1 /\ b # <<>> /\ b[1] = Servo("150")
      BY <2>2 DEF cmd_kaiten_lamp
    <3> HIDE DEF a, b
    <3>2. /\ a \o b \in Seq(ComOps(mode)) /\ Len(a \o b) = Len(b) + 2
          /\ (a \o b)[1] = a[1] /\ (a \o b)[2] = a[2] /\ (a \o b)[3] = b[1]
      BY <3>1, PairConcat, SMT
    <3> QED BY <3>1, <3>2 DEF a, b
  <2> HIDE DEF h
  <2>3. Good(h, mode)
    BY <2>1 DEF Good, Covered, Kaiten, Lamp, Servo, Attach, Op
  <2>4. Show("status", "LOCKED") \in Seq(Common) /\ <<Http("NotifyLocked")>> \in Seq(Common)
    BY ShowCommon, HttpCommon DEF Row, Texts, StatusTexts, Requests
  <2>5. Good((h \o Show("status", "LOCKED")) \o <<Http("NotifyLocked")>>, mode)
    BY <2>3, <2>4, GoodAppend
  <2> QED BY <1>1, <2>5 DEF init_func, LOCKED_init, h
<1>2. CASE mode = "UNLOCKED"
  <2> DEFINE h == <<Servo("70")>>
  <2>1. Servo("70") \in ComOps(mode)
    BY <1>2, OpKinds DEF ComOps, Servo, Op, Box!Angle
  <2>2. Good(h, mode)
    BY <2>1 DEF Good, Covered, Kaiten, Lamp, Servo, Attach, Op
  <2>3. Show("status", "UNLOCKED") \in Seq(Common) /\ <<Http("NotifyUnlocked")>> \in Seq(Common)
    BY ShowCommon, HttpCommon DEF Row, Texts, StatusTexts, Requests
  <2> HIDE DEF h
  <2>4. Good((h \o Show("status", "UNLOCKED")) \o <<Http("NotifyUnlocked")>>, mode)
    BY <2>2, <2>3, GoodAppend
  <2> QED BY <1>2, <2>4 DEF init_func, UNLOCKED_init, h
<1> QED BY <1>1, <1>2

-----------------------------------------------------------------------------
\* The inductive invariant.

ComTypes ==
  /\ pc \in {"boot", "poll", "weight", "door", "key", "goal", "state"}
  /\ door_open \in BOOLEAN /\ door_open_old \in BOOLEAN
  /\ weights \in Readings
  /\ weights_old \in Readings \cup {[stable |-> "start", weight |-> 0]}
  /\ key \in KeyEvents \cup {"none"}
  /\ target_weight \in Int /\ target_weight_old \in Int
  /\ g_state \in {"INIT", "LOCKED", "UNLOCKED"}
  /\ old_state \in {"INIT", "LOCKED", "UNLOCKED"}
  /\ told \in {"none", "NotifyLocked", "NotifyUnlocked"}
  /\ announced \in Int /\ crossed \in BOOLEAN

TimerTypes ==
  /\ timer \in 0..AlarmTicks /\ held \in BOOLEAN
  /\ posted \in 0..QueueCapacity /\ pool \in 0..QueueCapacity /\ halted \in BOOLEAN

DeviceTypes ==
  /\ servo \in {"none", "150", "70"} /\ duty \in {"50", "0"} /\ lamp \in {"on", "off"}
  /\ cursor \in Row /\ status \subseteq Texts

\* With a prompt event thread at most one stop is posted or being carried
\* out, and a running timer always has its event.
PromptInv ==
  Prompt /\ QueueCapacity >= 3 =>
     /\ ~halted
     /\ timer > 0 => held
     /\ posted + (IF ev # <<>> THEN 1 ELSE 0) <= 1

QueueInv == TimerTypes /\ PoolAccounted /\ PromptInv

AlarmInv == AlarmHasStopper /\ LampHasReason

Inv == ComTypes /\ DeviceTypes /\ ThreadInv /\ CoverInv /\ QueueInv /\ AlarmInv

LEMMA InvImplies == Inv => TypeOK /\ NeverHalts /\ PoolAccounted /\ AlarmHasStopper /\ LampHasReason
PROOF
<1> SUFFICES ASSUME Inv PROVE TypeOK /\ NeverHalts /\ PoolAccounted /\ AlarmHasStopper /\ LampHasReason
  OBVIOUS
<1>1. com \in Seq(Ops) /\ ev \in Seq(Ops)
  <2>1. ComOps(g_state) \subseteq Ops /\ EvOps \subseteq Ops
    BY DEF ComOps, EvOps
  <2> QED BY <2>1, SeqSubset DEF Inv, ThreadInv
<1>2. TypeOK
  BY <1>1 DEF Inv, QueueInv, ComTypes, TimerTypes, DeviceTypes, TypeOK
<1>3. NeverHalts
  BY DEF Inv, QueueInv, PromptInv, NeverHalts
<1> QED BY <1>2, <1>3 DEF Inv, QueueInv, AlarmInv

LEMMA InitInv == Init => Inv
PROOF
<1> SUFFICES ASSUME Init PROVE Inv
  OBVIOUS
<1>0. InitialTarget \in Int /\ 0 \in Int
  BY InputsAssumption
<1>1. ComTypes /\ DeviceTypes
  <2>1. ComTypes
    BY <1>0, InputsAssumption DEF Init, ComTypes
  <2>2. DeviceTypes
    BY DEF Init, DeviceTypes, Row
  <2> QED BY <2>1, <2>2
<1>2. Good(com, g_state)
  <2>1. Http("wifi") \in Common
    BY HttpCommon DEF Requests
  <2>2. <<Http("wifi")>> \in Seq(Common)
    BY <2>1
  <2> QED BY <2>2, CommonGood DEF Init
<1>3. ThreadInv /\ CoverInv
  BY <1>2 DEF Good, ThreadInv, CoverInv, Init
<1>4. QueueInv
  <2>1. ~held /\ ~halted /\ held \in BOOLEAN /\ halted \in BOOLEAN
    BY Zenon DEF Init
  <2>2. timer = 0 /\ posted = 0 /\ pool = 0 /\ ev = <<>>
    BY DEF Init
  <2>3. TimerTypes
    BY <2>1, <2>2, TimerAssumption DEF TimerTypes
  <2>4. PoolAccounted
    BY <2>1, <2>2 DEF PoolAccounted
  <2>5. PromptInv
    BY <2>1, <2>2 DEF PromptInv
  <2> QED BY <2>3, <2>4, <2>5 DEF QueueInv
<1>5. AlarmInv
  BY DEF Init, AlarmInv, AlarmHasStopper, LampHasReason
<1> QED BY <1>1, <1>3, <1>4, <1>5 DEF Inv

\* What one write does to the devices.
LEMMA WriteEffect ==
  ASSUME DeviceTypes, NEW o \in Ops, WriteOrLose(o)
  PROVE  /\ DeviceTypes'
         /\ servo' = servo \/ (o.op = "servo" /\ servo' = o.arg)
         /\ "kaiten" \notin Faulty =>
               /\ duty' = IF o.op = "kaiten" THEN o.arg ELSE duty
               /\ lamp' = IF o.op = "lamp" THEN o.arg ELSE lamp
PROOF
<1>1. CASE Write(o)
  <2>1. cursor' \in Row
    BY <1>1, OpArgs DEF Write, DeviceTypes, Row, RowBelow
  <2>2. status' \subseteq Texts
    BY <1>1, OpArgs DEF Write, DeviceTypes
  <2>3. /\ servo' \in {"none", "150", "70"} /\ duty' \in {"50", "0"} /\ lamp' \in {"on", "off"}
        /\ servo' = servo \/ (o.op = "servo" /\ servo' = o.arg)
        /\ duty' = IF o.op = "kaiten" THEN o.arg ELSE duty
        /\ lamp' = IF o.op = "lamp" THEN o.arg ELSE lamp
    BY <1>1, OpArgs DEF Write, DeviceTypes
  <2> QED BY <2>1, <2>2, <2>3 DEF DeviceTypes
<1>2. CASE DeviceOf(o) \in Faulty /\ UNCHANGED devices
  <2>1. "kaiten" \notin Faulty => o.op \notin {"kaiten", "lamp"}
    BY <1>2 DEF DeviceOf
  <2> QED BY <1>2, <2>1 DEF devices, DeviceTypes
<1> QED BY <1>1, <1>2 DEF WriteOrLose

-----------------------------------------------------------------------------
\* A block of com_main: it runs with nothing pending, touches no device and
\* no timer, and leaves behind a covered sequence; only the door block may
\* leave an uncovered Lamp("on"), and then the door is known to be open.
BlockEffect ==
  /\ com = <<>>
  /\ UNCHANGED <<evTimer, devices>>
  /\ ComTypes'
  /\ Good(com', g_state') \/ (door_open_old' /\ com' = <<Lamp("on")>>)
  /\ pc' # "boot" /\ g_state' # "INIT"
  /\ door_open_old' = door_open_old \/ door_open_old' \/ com' = <<Lamp("off")>>
  /\ [Box!Next]_(Box!vars)

LEMMA CommonConcat ==
  ASSUME NEW s \in Seq(Common), NEW t \in Seq(Common)
  PROVE  s \o t \in Seq(Common)
OBVIOUS

LEMMA EmptyGood == \A mode : Good(<<>>, mode)
PROOF
<1>1. <<>> \in Seq(Common)
  OBVIOUS
<1> QED BY <1>1, CommonGood

LEMMA PassShown == \A mode : Good(Show("pass", "PASS"), mode)
PROOF
<1>1. Show("pass", "PASS") \in Seq(Common)
  BY ShowCommon DEF Row, Texts
<1> QED BY <1>1, CommonGood

LEMMA BootEffect ==
  ASSUME Inv, Boot PROVE BlockEffect
PROOF
<1>1. Good(com', g_state')
  BY PassShown DEF Boot
<1>2. ComTypes'
  BY DEF Inv, ComTypes, Boot, At, statics, lockState, history
<1>3. [Box!Next]_(Box!vars)
  BY DEF Inv, ThreadInv, Boot, At, statics, devices, Box!Next, Box!Start
<1> QED BY <1>1, <1>2, <1>3 DEF BlockEffect, Boot, At, statics

LEMMA PollEffect ==
  ASSUME Inv, Poll PROVE BlockEffect
PROOF
<1>1. Good(com', g_state')
  BY EmptyGood DEF Poll, At
<1>2. ComTypes'
  BY DEF Inv, ComTypes, Poll, At, get_weight, get_key, statics, lockState, history
<1>3. g_state' # "INIT"
  BY DEF Inv, ThreadInv, Poll, At, lockState
<1>4. UNCHANGED Box!vars
  BY DEF Poll, statics, lockState, devices, Box!vars
<1> QED BY <1>1, <1>2, <1>3, <1>4 DEF BlockEffect, Poll, At, statics

LEMMA WeightEffect ==
  ASSUME Inv, WeightBlock PROVE BlockEffect
PROOF
<1> DEFINE n == IF weights.stable # "determined" THEN <<>>
                ELSE <<Http("ChannelUpdate"),
                       Http(IF weights.weight < target_weight
                            THEN "NotifyDietAchieved" ELSE "NotifyDietNotAchieved")>>
<1>1. n \in Seq(Common)
  <2>1. /\ Http("ChannelUpdate") \in Common
        /\ Http(IF weights.weight < target_weight
                THEN "NotifyDietAchieved" ELSE "NotifyDietNotAchieved") \in Common
    BY HttpCommon DEF Requests
  <2> QED BY <2>1
<1> HIDE DEF n
<1>2. Show("now", "NOW") \in Seq(Common)
  BY ShowCommon DEF Row, Texts
<1>3. Show("now", "NOW") \o n \in Seq(Common)
  BY <1>1, <1>2, CommonConcat
<1>4. com' = <<>> \/ com' = Show("now", "NOW") \o n
  BY DEF WeightBlock, n
<1>5. Good(com', g_state')
  BY <1>3, <1>4, CommonGood, EmptyGood
<1>6. ComTypes'
  BY DEF Inv, ComTypes, WeightBlock, At, locals, lockState, history
<1>7. g_state' # "INIT"
  BY DEF Inv, ThreadInv, WeightBlock, At, lockState
<1>8. UNCHANGED Box!vars
  BY DEF WeightBlock, lockState, devices, Box!vars
<1> QED BY <1>5, <1>6, <1>7, <1>8 DEF BlockEffect, WeightBlock, At

LEMMA DoorEffect ==
  ASSUME Inv, DoorBlock PROVE BlockEffect
PROOF
<1>1. Lamp("off") \in Common
  BY OpKinds DEF Common, Plain, Lamp, Kaiten, Op
<1>2. \A mode : Good(<<Lamp("off")>>, mode)
  <2>1. <<Lamp("off")>> \in Seq(Common)
    BY <1>1
  <2> QED BY <2>1, CommonGood
<1>3. /\ Good(com', g_state') \/ (door_open_old' /\ com' = <<Lamp("on")>>)
      /\ door_open_old' = door_open_old \/ door_open_old' \/ com' = <<Lamp("off")>>
  BY <1>2, EmptyGood DEF DoorBlock, Inv, ComTypes
<1>4. ComTypes'
  BY DEF Inv, ComTypes, DoorBlock, At, locals, history
<1>5. g_state' # "INIT" /\ g_state # "INIT"
  BY DEF Inv, ThreadInv, DoorBlock, At
<1>6. [Box!Next]_(Box!vars)
  BY <1>5 DEF Inv, ComTypes, DoorBlock, devices, Box!vars, Box!Next, Box!SeeOpen, Box!SeeClosed
<1> QED BY <1>3, <1>4, <1>5, <1>6 DEF BlockEffect, DoorBlock, At

LEMMA KeyEffect ==
  ASSUME Inv, KeyIgnored \/ KeyEdit \/ KeyGoal PROVE BlockEffect
PROOF
<1>1. Good(com', g_state')
  BY PassShown, EmptyGood DEF KeyIgnored, KeyEdit, KeyGoal, At
<1>2. ComTypes'
  BY InputsAssumption
     DEF Inv, ComTypes, KeyIgnored, KeyEdit, KeyGoal, At, KeyUnchanged, locals, statics, history
<1>3. g_state' # "INIT"
  BY DEF Inv, ThreadInv, KeyIgnored, KeyEdit, KeyGoal, At
<1>4. UNCHANGED Box!vars
  BY DEF KeyIgnored, KeyEdit, KeyGoal, KeyUnchanged, statics, devices, Box!vars
<1> QED BY <1>1, <1>2, <1>3, <1>4
        DEF BlockEffect, KeyIgnored, KeyEdit, KeyGoal, At, KeyUnchanged, statics

LEMMA AttemptEffect ==
  ASSUME Inv, KeyAttempt PROVE BlockEffect
PROOF
<1>1. Failure \in StatusTexts \cup {"none"}
  BY DEF Failure, StatusTexts
<1>2. Good(com', g_state')
  <2>1. CASE Failure = "none"
    BY <2>1, PassShown DEF KeyAttempt
  <2>2. CASE Failure # "none"
    <3>1. Good(unlock_failed(Failure), g_state')
      BY <1>1, <2>2, FailedGood
    <3>2. Show("pass", "PASS") \in Seq(Common)
      BY ShowCommon DEF Row, Texts
    <3>3. Good(unlock_failed(Failure) \o Show("pass", "PASS"), g_state')
      BY <3>1, <3>2, GoodAppend
    <3> QED BY <2>2, <3>3 DEF KeyAttempt
  <2> QED BY <2>1, <2>2
<1>3. g_state = "LOCKED" /\ g_state' \in {"LOCKED", "UNLOCKED"}
  BY DEF KeyAttempt
<1>4. ComTypes'
  BY <1>3 DEF Inv, ComTypes, KeyAttempt, At, KeyUnchanged, locals, statics, history
<1>5. [Box!Next]_(Box!vars)
  BY <1>3 DEF KeyAttempt, KeyUnchanged, statics, devices, Box!vars, Box!Next, Box!Authorise
<1> QED BY <1>2, <1>3, <1>4, <1>5 DEF BlockEffect, KeyAttempt, At, KeyUnchanged, statics

LEMMA GoalEffect ==
  ASSUME Inv, GoalBlock PROVE BlockEffect
PROOF
<1> DEFINE n == IF target_weight_old = 0 THEN <<>> ELSE <<Http("NotifyChangeTarget")>>
<1>1. n \in Seq(Common)
  <2>1. Http("NotifyChangeTarget") \in Common
    BY HttpCommon DEF Requests
  <2> QED BY <2>1
<1> HIDE DEF n
<1>2. Show("goal", "GOAL") \in Seq(Common)
  BY ShowCommon DEF Row, Texts
<1>3. Show("goal", "GOAL") \o n \in Seq(Common)
  BY <1>1, <1>2, CommonConcat
<1>4. com' = <<>> \/ com' = Show("goal", "GOAL") \o n
  BY DEF GoalBlock, n
<1>5. Good(com', g_state')
  BY <1>3, <1>4, CommonGood, EmptyGood
<1>6. ComTypes'
  BY DEF Inv, ComTypes, GoalBlock, At, locals, lockState, history
<1>7. g_state' # "INIT"
  BY DEF Inv, ThreadInv, GoalBlock, At, lockState
<1>8. UNCHANGED Box!vars
  BY DEF GoalBlock, lockState, devices, Box!vars
<1> QED BY <1>5, <1>6, <1>7, <1>8 DEF BlockEffect, GoalBlock, At

LEMMA StateEffect ==
  ASSUME Inv, StateBlock PROVE BlockEffect
PROOF
<1>1. g_state' = g_state /\ g_state \in {"LOCKED", "UNLOCKED"}
  BY DEF Inv, ThreadInv, ComTypes, StateBlock, At
<1>2. old_state' = g_state
  BY <1>1 DEF Inv, ComTypes, StateBlock, next_state, Successors
<1>3. Good(com', g_state')
  BY <1>1, <1>2, EmptyGood, InitFuncGood DEF StateBlock
<1>4. crossed' \in BOOLEAN
  BY DEF Inv, ComTypes, StateBlock
<1>5. ComTypes'
  BY <1>1, <1>2, <1>4 DEF Inv, ComTypes, StateBlock, At, locals, statics
<1>6. UNCHANGED Box!vars
  BY <1>1 DEF StateBlock, statics, devices, Box!vars
<1> QED BY <1>1, <1>3, <1>5, <1>6 DEF BlockEffect, StateBlock, At, statics

LEMMA BlocksEffect ==
  ASSUME Inv, ComBlock PROVE BlockEffect
BY BootEffect, PollEffect, WeightEffect, DoorEffect, KeyEffect, AttemptEffect, GoalEffect,
   StateEffect DEF ComBlock

-----------------------------------------------------------------------------
\* Every step preserves the invariant.

LEMMA BlockKeeps ==
  ASSUME Inv, ComBlock PROVE Inv'
PROOF
<1>1. BlockEffect
  BY BlocksEffect
<1>2. ~Pending(com, Kaiten("0")) /\ ~Pending(com, Lamp("off")) /\ ~Pending(com, Attach)
  BY <1>1 DEF BlockEffect, Pending
<1>3. UNCHANGED <<ev, timer, held, posted, pool, halted, servo, duty, lamp, cursor, status>>
  BY <1>1 DEF BlockEffect, evTimer, devices
<1>4. ThreadInv' /\ CoverInv'
  <2>1. CASE Good(com', g_state')
    BY <1>1, <1>3, <2>1 DEF Inv, ThreadInv, CoverInv, BlockEffect, Good
  <2>2. CASE door_open_old' /\ com' = <<Lamp("on")>>
    <3>1. Lamp("on") \in ComOps(g_state') /\ Lamp("on") # Kaiten("50")
      BY OpKinds DEF ComOps, Lamp, Kaiten, Op
    <3>2. com' \in Seq(ComOps(g_state')) /\ Covered(com', Kaiten("50"))
      BY <2>2, <3>1 DEF Covered
    <3> QED BY <1>1, <1>3, <2>2, <3>2 DEF Inv, ThreadInv, CoverInv, BlockEffect
  <2> QED BY <1>1, <2>1, <2>2 DEF BlockEffect
<1>5. QueueInv' /\ DeviceTypes'
  BY <1>3 DEF Inv, QueueInv, TimerTypes, PoolAccounted, PromptInv, DeviceTypes
<1>6. AlarmHasStopper'
  BY <1>2, <1>3 DEF Inv, AlarmInv, AlarmHasStopper
<1>7. LampHasReason'
  <2>1. com' = <<Lamp("off")>> => Pending(com', Lamp("off"))
    BY DEF Pending
  <2> QED BY <1>1, <1>2, <1>3, <2>1 DEF Inv, AlarmInv, LampHasReason, BlockEffect
<1> QED BY <1>1, <1>4, <1>5, <1>6, <1>7 DEF Inv, AlarmInv, BlockEffect

LEMMA ComHead ==
  ASSUME Inv, com # <<>>
  PROVE  /\ Head(com) \in Ops /\ Head(com) \in ComOps(g_state)
         /\ Tail(com) \in Seq(ComOps(g_state))
         /\ Covered(Tail(com), Kaiten("50"))
         /\ Head(com) = Kaiten("50") => Pending(Tail(com), Attach)
         /\ door_open_old \/ Covered(Tail(com), Lamp("on"))
         /\ door_open_old \/ (Head(com) = Lamp("on") => Pending(Tail(com), Attach))
         /\ \A o : Pending(com, o) /\ Head(com) # o => Pending(Tail(com), o)
PROOF
<1>1. com \in Seq(ComOps(g_state))
  BY DEF Inv, ThreadInv
<1>2. /\ Head(com) \in ComOps(g_state) /\ Tail(com) \in Seq(ComOps(g_state))
  BY <1>1
<1>3. Head(com) \in Ops
  BY <1>2 DEF ComOps
<1>4. /\ Covered(Tail(com), Kaiten("50"))
      /\ Head(com) = Kaiten("50") => Pending(Tail(com), Attach)
  BY <1>1, CoveredTail DEF Inv, CoverInv
<1>5. Covered(com, Lamp("on")) =>
        /\ Covered(Tail(com), Lamp("on"))
        /\ Head(com) = Lamp("on") => Pending(Tail(com), Attach)
  BY <1>1, CoveredTail
<1>6. door_open_old \/ Covered(com, Lamp("on"))
  BY DEF Inv, CoverInv
<1>7. \A o : Pending(com, o) /\ Head(com) # o => Pending(Tail(com), o)
  BY <1>1, PendingTail
<1> QED BY <1>2, <1>3, <1>4, <1>5, <1>6, <1>7

LEMMA ComWriteKeeps ==
  ASSUME Inv, ComWrite PROVE Inv' /\ [Box!Next]_(Box!vars)
PROOF
<1> DEFINE o == Head(com)
<1>1. /\ o \in Ops /\ o \in ComOps(g_state) /\ com' = Tail(com)
      /\ o # Attach
      /\ WriteOrLose(o)
  BY ComHead DEF ComWrite, DeviceOf, Attach, Op
<1>2. UNCHANGED <<pc, locals, statics, target_weight, lockState, history>> /\ UNCHANGED evTimer
  BY DEF ComWrite
<1>3. ComTypes'
  BY <1>2 DEF Inv, ComTypes, locals, statics, lockState, history
<1>4. DeviceTypes'
  BY <1>1, WriteEffect DEF Inv
<1>5. ThreadInv' /\ CoverInv'
  BY <1>1, <1>2, ComHead DEF Inv, ThreadInv, CoverInv, ComWrite, lockState, statics, evTimer
<1>6. QueueInv'
  BY <1>2 DEF Inv, QueueInv, TimerTypes, PoolAccounted, PromptInv, evTimer
<1>7. "kaiten" \notin Faulty =>
        /\ duty' = IF o.op = "kaiten" THEN o.arg ELSE duty
        /\ lamp' = IF o.op = "lamp" THEN o.arg ELSE lamp
  BY <1>1, WriteEffect DEF Inv
<1>8. /\ o = Kaiten("50") \/ o = Kaiten("0") \/ o.op # "kaiten"
      /\ o = Lamp("on") \/ o = Lamp("off") \/ o.op # "lamp"
      /\ Kaiten("0").op = "kaiten" /\ Kaiten("0").arg = "0"
      /\ Lamp("off").op = "lamp" /\ Lamp("off").arg = "off"
  BY <1>1, OpArgs DEF Kaiten, Lamp, Op
<1>9. AlarmHasStopper'
  <2> SUFFICES ASSUME "kaiten" \notin Faulty, ~halted', duty' = "50"
               PROVE  \/ timer' > 0 \/ posted' > 0
                      \/ Pending(ev', Kaiten("0")) \/ Pending(com', Kaiten("0"))
                      \/ Pending(com', Attach)
    BY DEF AlarmHasStopper
  <2>1. o # Kaiten("0")
    BY <1>7, <1>8
  <2>2. UNCHANGED <<timer, posted, ev, halted>>
    BY <1>2 DEF evTimer
  <2>3. CASE o = Kaiten("50")
    BY <1>1, <2>2, <2>3, ComHead DEF ComWrite
  <2>4. CASE o.op # "kaiten"
    <3>1. duty = "50" /\ ~halted
      BY <1>7, <2>2, <2>4
    <3>2. \/ timer > 0 \/ posted > 0
          \/ Pending(ev, Kaiten("0")) \/ Pending(com, Kaiten("0"))
          \/ Pending(com, Attach)
      BY <3>1 DEF Inv, AlarmInv, AlarmHasStopper
    <3>3. /\ Pending(com, Kaiten("0")) => Pending(com', Kaiten("0"))
          /\ Pending(com, Attach) => Pending(com', Attach)
      BY <1>1, <2>1, ComHead DEF ComWrite
    <3> QED BY <2>2, <3>2, <3>3
  <2> QED BY <1>8, <2>1, <2>3, <2>4
<1>10. LampHasReason'
  <2> SUFFICES ASSUME "kaiten" \notin Faulty, ~halted', lamp' = "on", ~door_open_old'
               PROVE  \/ timer' > 0 \/ posted' > 0
                      \/ Pending(ev', Lamp("off")) \/ Pending(com', Lamp("off"))
                      \/ Pending(com', Attach)
    BY DEF LampHasReason
  <2>1. o # Lamp("off")
    BY <1>7, <1>8
  <2>2. UNCHANGED <<timer, posted, ev, halted, door_open_old>>
    BY <1>2 DEF evTimer, statics
  <2>3. CASE o = Lamp("on")
    BY <1>1, <2>2, <2>3, ComHead DEF ComWrite
  <2>4. CASE o.op # "lamp"
    <3>1. lamp = "on" /\ ~halted
      BY <1>7, <2>2, <2>4
    <3>2. \/ timer > 0 \/ posted > 0
          \/ Pending(ev, Lamp("off")) \/ Pending(com, Lamp("off"))
          \/ Pending(com, Attach)
      BY <3>1, <2>2 DEF Inv, AlarmInv, LampHasReason
    <3>3. /\ Pending(com, Lamp("off")) => Pending(com', Lamp("off"))
          /\ Pending(com, Attach) => Pending(com', Attach)
      BY <1>1, <2>1, ComHead DEF ComWrite
    <3> QED BY <2>2, <3>2, <3>3
  <2> QED BY <1>8, <2>1, <2>3, <2>4
<1>11. [Box!Next]_(Box!vars)
  <2>1. servo' = servo \/ (o.op = "servo" /\ servo' = o.arg)
    BY <1>1, WriteEffect DEF Inv
  <2>2. o.op = "servo" => g_state # "INIT" /\ o.arg = Box!Angle[g_state]
    BY <1>1 DEF ComOps
  <2> QED BY <1>2, <2>1, <2>2 DEF statics, lockState, Box!vars, Box!Next, Box!Drive
<1> QED BY <1>3, <1>4, <1>5, <1>6, <1>9, <1>10, <1>11 DEF Inv, AlarmInv

LEMMA ComAttachKeeps ==
  ASSUME Inv, ComAttach PROVE Inv' /\ [Box!Next]_(Box!vars)
PROOF
<1>1. com # <<>> /\ com' = Tail(com) /\ Head(com) = Attach
  BY DEF ComAttach
<1>2. /\ UNCHANGED <<pc, locals, statics, target_weight, lockState, history>>
      /\ UNCHANGED <<ev, posted, halted>> /\ UNCHANGED devices
  BY DEF ComAttach
<1>3. ComTypes' /\ DeviceTypes'
  BY <1>2 DEF Inv, ComTypes, DeviceTypes, locals, statics, lockState, history, devices
<1>4. ThreadInv' /\ CoverInv'
  BY <1>1, <1>2, ComHead DEF Inv, ThreadInv, CoverInv, lockState, statics
<1>5. timer' = AlarmTicks /\ timer' > 0 /\ timer' \in 0..AlarmTicks
  BY TimerAssumption DEF ComAttach
<1>6. QueueInv'
  <2>1. held \in BOOLEAN /\ pool \in 0..QueueCapacity /\ posted \in 0..QueueCapacity
    BY DEF Inv, QueueInv, TimerTypes
  <2>2. pool = posted + (IF ev # <<>> THEN 1 ELSE 0) + (IF held THEN 1 ELSE 0)
    BY DEF Inv, QueueInv, PoolAccounted
  <2>3. CASE pool < QueueCapacity
    <3>1. held' /\ held' \in BOOLEAN
      BY <2>3 DEF ComAttach
    <3>2. pool' = pool + 1 - (IF held THEN 1 ELSE 0)
      BY <2>3 DEF ComAttach
    <3>3. pool' = posted' + (IF ev' # <<>> THEN 1 ELSE 0) + 1
      BY <1>2, <2>1, <2>2, <3>2, TimerAssumption
    <3>4. PoolAccounted'
      BY <1>5, <3>1, <3>3 DEF PoolAccounted
    <3>5. pool' \in 0..QueueCapacity
      BY <2>1, <2>3, <3>2, TimerAssumption
    <3>6. TimerTypes'
      BY <1>2, <1>5, <3>1, <3>5 DEF Inv, QueueInv, TimerTypes
    <3>7. PromptInv'
      BY <1>2, <3>1 DEF Inv, QueueInv, PromptInv
    <3> QED BY <3>4, <3>6, <3>7 DEF QueueInv
  <2>4. CASE ~(pool < QueueCapacity)
    <3>1. ~held' /\ held' \in BOOLEAN
      <4>1. held' = (pool < QueueCapacity)
        BY Zenon DEF ComAttach
      <4>2. (pool < QueueCapacity) \in BOOLEAN
        BY SMT
      <4> QED BY <2>4, <4>1, <4>2, Zenon
    <3>2. pool' = pool - (IF held THEN 1 ELSE 0)
      BY <2>1, <2>4, TimerAssumption DEF ComAttach
    <3>3. pool' = posted' + (IF ev' # <<>> THEN 1 ELSE 0) + 0
      BY <1>2, <2>1, <2>2, <3>2, TimerAssumption
    <3>4. PoolAccounted'
      <4>1. (IF held' THEN 1 ELSE 0) = 0
        BY <3>1
      <4> QED BY <3>1, <3>3, <4>1, Zenon DEF PoolAccounted
    <3>5. pool' \in 0..QueueCapacity
      BY <1>2, <2>1, <2>2, <3>2, TimerAssumption
    <3>6. TimerTypes'
      BY <1>2, <1>5, <3>1, <3>5 DEF Inv, QueueInv, TimerTypes
    <3>7. ~(Prompt /\ QueueCapacity >= 3)
      BY <2>1, <2>2, <2>4, TimerAssumption DEF Inv, QueueInv, PromptInv
    <3>8. PromptInv'
      BY <3>7 DEF PromptInv
    <3> QED BY <3>4, <3>6, <3>8 DEF QueueInv
  <2> QED BY <2>3, <2>4
<1>7. AlarmInv'
  BY <1>5 DEF AlarmInv, AlarmHasStopper, LampHasReason
<1>8. UNCHANGED Box!vars
  BY <1>2 DEF statics, lockState, devices, Box!vars
<1> QED BY <1>3, <1>4, <1>6, <1>7, <1>8 DEF Inv

LEMMA ComRequestKeeps ==
  ASSUME Inv, ComRequest PROVE Inv' /\ [Box!Next]_(Box!vars)
PROOF
<1>1. com # <<>> /\ com' = Tail(com) /\ Head(com).op = "http"
  BY DEF ComRequest
<1>2. /\ UNCHANGED <<pc, locals, statics, target_weight, lockState, crossed>>
      /\ UNCHANGED evTimer /\ UNCHANGED devices
  BY DEF ComRequest
<1>3. ComTypes' /\ DeviceTypes'
  BY <1>2 DEF Inv, ComTypes, DeviceTypes, locals, statics, lockState, devices, ComRequest
<1>4. ThreadInv' /\ CoverInv'
  BY <1>1, <1>2, ComHead DEF Inv, ThreadInv, CoverInv, lockState, statics, evTimer
<1>5. QueueInv'
  BY <1>2 DEF Inv, QueueInv, TimerTypes, PoolAccounted, PromptInv, evTimer
<1>6. Head(com) # Kaiten("0") /\ Head(com) # Lamp("off") /\ Head(com) # Attach
  BY <1>1 DEF Kaiten, Lamp, Attach, Op
<1>7. /\ Pending(com, Kaiten("0")) => Pending(com', Kaiten("0"))
      /\ Pending(com, Lamp("off")) => Pending(com', Lamp("off"))
      /\ Pending(com, Attach) => Pending(com', Attach)
  BY <1>1, <1>6, ComHead
<1>8. UNCHANGED <<ev, timer, posted, halted, duty, lamp, door_open_old>>
  BY <1>2 DEF evTimer, devices, statics
<1>9. AlarmInv'
  BY <1>7, <1>8 DEF Inv, AlarmInv, AlarmHasStopper, LampHasReason
<1>10. UNCHANGED Box!vars
  BY <1>2 DEF statics, lockState, devices, Box!vars
<1> QED BY <1>3, <1>4, <1>5, <1>9, <1>10 DEF Inv

LEMMA TickKeeps ==
  ASSUME Inv, Tick PROVE Inv' /\ [Box!Next]_(Box!vars)
PROOF
<1>1. /\ UNCHANGED <<pc, com, locals, statics, target_weight, lockState, history>>
      /\ UNCHANGED <<ev, held, posted, pool, halted>> /\ UNCHANGED devices
  BY DEF Tick
<1>2. timer' = timer - 1 /\ timer > 1
  BY DEF Tick
<1>3. timer' > 0 /\ timer' \in 0..AlarmTicks
  BY <1>2, TimerAssumption DEF Inv, QueueInv, TimerTypes
<1>4. ComTypes' /\ DeviceTypes' /\ ThreadInv' /\ CoverInv'
  BY <1>1 DEF Inv, ComTypes, DeviceTypes, ThreadInv, CoverInv, locals, statics, lockState,
              history, devices
<1>5. timer > 0
  BY <1>2 DEF Inv, QueueInv, TimerTypes
<1>6. QueueInv'
  BY <1>1, <1>3, <1>5 DEF Inv, QueueInv, TimerTypes, PoolAccounted, PromptInv
<1>7. AlarmInv'
  BY <1>3 DEF AlarmInv, AlarmHasStopper, LampHasReason
<1>8. UNCHANGED Box!vars
  BY <1>1 DEF statics, lockState, devices, Box!vars
<1> QED BY <1>4, <1>6, <1>7, <1>8 DEF Inv

LEMMA ExpireKeeps ==
  ASSUME Inv, ~halted, Expire PROVE Inv' /\ [Box!Next]_(Box!vars)
PROOF
<1>1. /\ UNCHANGED <<pc, com, locals, statics, target_weight, lockState, history>>
      /\ UNCHANGED ev /\ UNCHANGED devices
  BY DEF Expire
<1>2. timer = 1 /\ timer' = 0 /\ timer' \in 0..AlarmTicks
  BY TimerAssumption DEF Expire
<1>3. ComTypes' /\ DeviceTypes' /\ ThreadInv' /\ CoverInv'
  BY <1>1 DEF Inv, ComTypes, DeviceTypes, ThreadInv, CoverInv, locals, statics, lockState,
              history, devices
<1>4. UNCHANGED Box!vars
  BY <1>1 DEF statics, lockState, devices, Box!vars
<1>5. /\ held \in BOOLEAN /\ pool \in 0..QueueCapacity /\ posted \in 0..QueueCapacity
      /\ pool = posted + (IF ev # <<>> THEN 1 ELSE 0) + (IF held THEN 1 ELSE 0)
  BY DEF Inv, QueueInv, TimerTypes, PoolAccounted
<1>6. CASE held /\ pool < QueueCapacity
  <2>1. posted' = posted + 1 /\ pool' = pool
    BY <1>6 DEF Expire
  <2>2. ~held' /\ held' \in BOOLEAN /\ ~halted' /\ halted' \in BOOLEAN
    <3>1. held' = FALSE /\ halted' = halted
      BY <1>6, Zenon DEF Expire
    <3>2. halted \in BOOLEAN
      BY DEF Inv, QueueInv, TimerTypes
    <3> QED BY <3>1, <3>2, Zenon
  <2>3. pool' = posted' + (IF ev' # <<>> THEN 1 ELSE 0) + 0
    BY <1>1, <1>5, <1>6, <2>1, TimerAssumption
  <2>4. PoolAccounted'
    <3>1. (IF held' THEN 1 ELSE 0) = 0
      BY <2>2
    <3> QED BY <2>2, <2>3, <3>1, Zenon DEF PoolAccounted
  <2>5. posted' \in 0..QueueCapacity /\ pool' \in 0..QueueCapacity
    BY <1>5, <1>6, <2>1, TimerAssumption
  <2>6. TimerTypes'
    BY <1>2, <2>2, <2>5 DEF TimerTypes
  <2>7. PromptInv'
    <3>1. ASSUME Prompt PROVE posted' = 1 /\ ev' = <<>>
      BY <1>1, <2>1, <3>1 DEF Expire
    <3> QED BY <1>2, <2>2, <3>1 DEF PromptInv
  <2>8. posted' > 0
    BY <1>5, <2>1
  <2>9. AlarmInv'
    BY <2>8 DEF AlarmInv, AlarmHasStopper, LampHasReason
  <2> QED BY <1>3, <1>4, <2>4, <2>6, <2>7, <2>9 DEF Inv, QueueInv
<1>7. CASE ~(held /\ pool < QueueCapacity)
  <2>1. halted' /\ halted' \in BOOLEAN /\ UNCHANGED <<posted, held, pool>>
    BY <1>7, Zenon DEF Expire
  <2>2. PoolAccounted'
    BY <1>1, <1>5, <2>1 DEF PoolAccounted
  <2>3. TimerTypes'
    BY <1>2, <1>5, <2>1 DEF TimerTypes
  <2>4. ~(Prompt /\ QueueCapacity >= 3)
    <3>1. ASSUME Prompt, QueueCapacity >= 3 PROVE FALSE
      <4>1. posted = 0 /\ ev = <<>>
        BY <3>1 DEF Expire
      <4>2. held
        BY <1>2, <3>1 DEF Inv, QueueInv, PromptInv
      <4>3. pool <= 1
        BY <1>5, <4>1
      <4> QED BY <1>5, <1>7, <3>1, <4>2, <4>3, TimerAssumption
    <3> QED BY <3>1
  <2>5. PromptInv'
    BY <2>4 DEF PromptInv
  <2>6. AlarmInv'
    BY <2>1 DEF AlarmInv, AlarmHasStopper, LampHasReason
  <2> QED BY <1>3, <1>4, <2>2, <2>3, <2>5, <2>6 DEF Inv, QueueInv
<1> QED BY <1>6, <1>7

LEMMA DispatchKeeps ==
  ASSUME Inv, Dispatch PROVE Inv' /\ [Box!Next]_(Box!vars)
PROOF
<1>1. /\ UNCHANGED <<pc, com, locals, statics, target_weight, lockState, history>>
      /\ UNCHANGED <<timer, held, pool, halted>> /\ UNCHANGED devices
  BY DEF Dispatch
<1>2. ev = <<>> /\ posted > 0 /\ posted' = posted - 1 /\ ev' = kaiten_stop
  BY DEF Dispatch
<1>3. /\ ev' \in Seq(EvOps) /\ ev' # <<>>
      /\ Pending(ev', Kaiten("0")) /\ Pending(ev', Lamp("off"))
  BY <1>2, StopScript
<1>4. ComTypes' /\ DeviceTypes' /\ ThreadInv' /\ CoverInv'
  BY <1>1, <1>3 DEF Inv, ComTypes, DeviceTypes, ThreadInv, CoverInv, locals, statics, lockState,
              history, devices
<1>5. UNCHANGED Box!vars
  BY <1>1 DEF statics, lockState, devices, Box!vars
<1>6. posted \in 0..QueueCapacity /\ posted' \in 0..QueueCapacity
  BY <1>2, TimerAssumption DEF Inv, QueueInv, TimerTypes
<1>7. posted' + (IF ev' # <<>> THEN 1 ELSE 0) = posted + (IF ev # <<>> THEN 1 ELSE 0)
  BY <1>2, <1>3, <1>6
<1>8. QueueInv'
  <2>1. TimerTypes'
    BY <1>1, <1>6 DEF Inv, QueueInv, TimerTypes
  <2>2. PoolAccounted'
    BY <1>1, <1>7 DEF Inv, QueueInv, PoolAccounted
  <2>3. PromptInv'
    BY <1>1, <1>7 DEF Inv, QueueInv, PromptInv
  <2> QED BY <2>1, <2>2, <2>3 DEF QueueInv
<1>9. AlarmInv'
  BY <1>3 DEF AlarmInv, AlarmHasStopper, LampHasReason
<1> QED BY <1>4, <1>5, <1>8, <1>9 DEF Inv

LEMMA EvWriteKeeps ==
  ASSUME Inv, EvWrite PROVE Inv' /\ [Box!Next]_(Box!vars)
PROOF
<1> DEFINE o == Head(ev)
<1>1. ev # <<>> /\ ev' = Tail(ev) /\ WriteOrLose(o)
  BY DEF EvWrite
<1>2. /\ UNCHANGED <<pc, com, locals, statics, target_weight, lockState, history>>
      /\ UNCHANGED <<timer, held, posted, halted>>
  BY DEF EvWrite
<1>3. ev \in Seq(EvOps)
  BY DEF Inv, ThreadInv
<1>4. o \in EvOps /\ ev' \in Seq(EvOps)
  BY <1>1, <1>3
<1>5. o \in Ops /\ o.op \notin {"servo", "attach"} /\ o.arg \notin {"50", "on"}
  BY <1>4 DEF EvOps
<1>6. \A p : Pending(ev, p) /\ o # p => Pending(ev', p)
  BY <1>1, <1>3, PendingTail
<1>7. /\ DeviceTypes'
      /\ servo' = servo
      /\ "kaiten" \notin Faulty =>
            /\ duty' = IF o.op = "kaiten" THEN o.arg ELSE duty
            /\ lamp' = IF o.op = "lamp" THEN o.arg ELSE lamp
  BY <1>1, <1>5, WriteEffect DEF Inv
<1>8. ComTypes' /\ ThreadInv' /\ CoverInv'
  BY <1>2, <1>4 DEF Inv, ComTypes, ThreadInv, CoverInv, locals, statics, lockState, history
<1>9. UNCHANGED Box!vars
  BY <1>2, <1>7 DEF statics, lockState, Box!vars
<1>10. QueueInv'
  <2>1. /\ pool \in 0..QueueCapacity /\ posted \in 0..QueueCapacity /\ held \in BOOLEAN
        /\ pool = posted + 1 + (IF held THEN 1 ELSE 0)
    BY <1>1 DEF Inv, QueueInv, TimerTypes, PoolAccounted
  <2>2. pool' = IF ev' = <<>> THEN pool - 1 ELSE pool
    BY DEF EvWrite
  <2>3. /\ pool' \in 0..QueueCapacity
        /\ pool' = posted + (IF ev' # <<>> THEN 1 ELSE 0) + (IF held THEN 1 ELSE 0)
    BY <2>1, <2>2, TimerAssumption
  <2>4. PoolAccounted'
    BY <1>2, <2>3 DEF Inv, QueueInv, PoolAccounted
  <2>5. TimerTypes'
    BY <1>2, <2>3 DEF Inv, QueueInv, TimerTypes
  <2>6. PromptInv'
    BY <1>1, <1>2, <2>1 DEF Inv, QueueInv, PromptInv
  <2> QED BY <2>4, <2>5, <2>6 DEF QueueInv
<1>11. /\ o = Kaiten("0") \/ o.op # "kaiten"
       /\ o = Lamp("off") \/ o.op # "lamp"
       /\ Kaiten("0").op = "kaiten" /\ Kaiten("0").arg = "0"
       /\ Lamp("off").op = "lamp" /\ Lamp("off").arg = "off"
  BY <1>5, OpArgs DEF Kaiten, Lamp, Op
<1>12. AlarmHasStopper'
  <2> SUFFICES ASSUME "kaiten" \notin Faulty, ~halted', duty' = "50"
               PROVE  \/ timer' > 0 \/ posted' > 0
                      \/ Pending(ev', Kaiten("0")) \/ Pending(com', Kaiten("0"))
                      \/ Pending(com', Attach)
    BY DEF AlarmHasStopper
  <2>1. o # Kaiten("0") /\ duty = "50" /\ ~halted
    BY <1>2, <1>7, <1>11
  <2>2. \/ timer > 0 \/ posted > 0
        \/ Pending(ev, Kaiten("0")) \/ Pending(com, Kaiten("0"))
        \/ Pending(com, Attach)
    BY <2>1 DEF Inv, AlarmInv, AlarmHasStopper
  <2> QED BY <1>2, <1>6, <2>1, <2>2
<1>13. LampHasReason'
  <2> SUFFICES ASSUME "kaiten" \notin Faulty, ~halted', lamp' = "on", ~door_open_old'
               PROVE  \/ timer' > 0 \/ posted' > 0
                      \/ Pending(ev', Lamp("off")) \/ Pending(com', Lamp("off"))
                      \/ Pending(com', Attach)
    BY DEF LampHasReason
  <2>1. o # Lamp("off") /\ lamp = "on" /\ ~halted
    BY <1>2, <1>7, <1>11
  <2>2. ~door_open_old
    BY <1>2 DEF statics
  <2>3. \/ timer > 0 \/ posted > 0
        \/ Pending(ev, Lamp("off")) \/ Pending(com, Lamp("off"))
        \/ Pending(com, Attach)
    BY <2>1, <2>2 DEF Inv, AlarmInv, LampHasReason
  <2> QED BY <1>2, <1>6, <2>1, <2>3
<1> QED BY <1>7, <1>8, <1>9, <1>10, <1>12, <1>13 DEF Inv, AlarmInv

LEMMA NextInv ==
  ASSUME Inv, [Next]_vars PROVE Inv' /\ [Box!Next]_(Box!vars)
PROOF
<1>1. CASE UNCHANGED vars
  <2>1. UNCHANGED <<pc, com, locals, statics, target_weight, lockState, evTimer, devices, history>>
    BY <1>1 DEF vars
  <2>2. UNCHANGED Box!vars
    BY <2>1 DEF statics, lockState, devices, Box!vars
  <2>3. ComTypes' /\ DeviceTypes' /\ ThreadInv' /\ CoverInv'
    BY <2>1 DEF Inv, ComTypes, DeviceTypes, ThreadInv, CoverInv, locals, statics, lockState,
                evTimer, devices, history
  <2>4. QueueInv'
    BY <2>1 DEF Inv, QueueInv, TimerTypes, PoolAccounted, PromptInv, evTimer
  <2>5. AlarmInv'
    BY <2>1 DEF Inv, AlarmInv, AlarmHasStopper, LampHasReason, evTimer, devices, statics
  <2> QED BY <2>2, <2>3, <2>4, <2>5 DEF Inv
<1>2. CASE Next
  <2>1. CASE ComBlock
    BY <2>1, BlockKeeps, BlocksEffect DEF BlockEffect
  <2> QED BY <1>2, <2>1, ComWriteKeeps, ComAttachKeeps, ComRequestKeeps, TickKeeps,
             ExpireKeeps, DispatchKeeps, EvWriteKeeps DEF Next, Step
<1> QED BY <1>1, <1>2

-----------------------------------------------------------------------------
\* The results.

LEMMA Invariance == Spec => []Inv
PROOF
<1>1. Inv /\ [Next]_vars => Inv'
  BY NextInv
<1> QED BY InitInv, <1>1, PTL DEF Spec

\* Every variable keeps its type: in particular the queue's memory is never
\* over-committed and never given back twice, and com_main never commands an
\* unknown device, angle or row.
THEOREM TypeCorrect == Spec => []TypeOK
PROOF
<1>1. Inv => TypeOK
  BY InvImplies
<1> QED BY Invariance, <1>1, PTL

\* The spinning light is never left on (unlock_failed, kaiten_stop): whatever
\* the length of the timer, the size of the queue and the inputs.
THEOREM AlarmAlwaysStopped == Spec => []AlarmHasStopper
PROOF
<1>1. Inv => AlarmHasStopper
  BY InvImplies
<1> QED BY Invariance, <1>1, PTL

\* The lamp is on only for an open door or a running alarm.
THEOREM LampAlwaysHasReason == Spec => []LampHasReason
PROOF
<1>1. Inv => LampHasReason
  BY InvImplies
<1> QED BY Invariance, <1>1, PTL

\* The memory of the event queue is accounted for, event by event.
THEOREM PoolAlwaysAccounted == Spec => []PoolAccounted
PROOF
<1>1. Inv => PoolAccounted
  BY InvImplies
<1> QED BY Invariance, <1>1, PTL

\* The assertion in Event::call() never fails when the event thread is prompt
\* and the queue has memory for three events.
THEOREM PromptNeverHalts == Spec => []NeverHalts
PROOF
<1>1. Inv => NeverHalts
  BY InvImplies
<1> QED BY Invariance, <1>1, PTL

\* The controller implements LockBox: the bolt is withdrawn only for a box
\* that was authorised or started open, and only ever driven where g_state
\* says.
THEOREM RefinesLockBox == Spec => ImplementsLockBox
PROOF
<1>1. Init => Box!Init
  BY DEF Init, Box!Init
<1>2. Inv /\ [Next]_vars => [Box!Next]_(Box!vars)
  BY NextInv
<1> QED BY Invariance, <1>1, <1>2, PTL DEF Spec, ImplementsLockBox, Box!Spec

-----------------------------------------------------------------------------
\* What holds between two iterations of com_main.

\* The row each text is drawn on.
RowOf(text) ==
  CASE text = "GOAL" -> "goal" [] text = "NOW" -> "now" [] text = "PASS" -> "pass"
    [] OTHER -> "status"

\* Every text is drawn right after the cursor has been put on its row; the
\* first one finds the cursor there.
Placed(s, row) ==
  \A i \in 1..Len(s) :
     s[i].op = "text" => IF i = 1 THEN row = RowOf(s[i].arg)
                         ELSE s[i - 1] = Cursor(RowOf(s[i].arg))

\* A sequence of operations from S that puts the cursor in place for each text.
Script(s, S) ==
  /\ s \in Seq(S)
  /\ \A i \in 1..Len(s) :
        s[i].op = "text" => i > 1 /\ s[i - 1] = Cursor(RowOf(s[i].arg))

\* The request that reports a mode.
Report(mode) == IF mode = "LOCKED" THEN "NotifyLocked" ELSE "NotifyUnlocked"
Reports == {"NotifyLocked", "NotifyUnlocked"}

NewGoal == Http("NotifyChangeTarget")

\* Operations that belong to the mode entered last, or to none.
ModeOps(mode) ==
  {o \in Ops : /\ o.op = "servo" => mode # "INIT" /\ o.arg = Box!Angle[mode]
               /\ o.op = "http" /\ o.arg \in Reports => mode # "INIT" /\ o.arg = Report(mode)
               /\ o.op = "text" /\ o.arg = "UNLOCKED" => mode = "UNLOCKED"}

\* What a failed attempt leads to: nothing about the bolt or the goal.
AttemptOps ==
  {o \in Ops : /\ o.op # "servo" /\ o # NewGoal
               /\ o.op = "http" => o.arg \notin Reports
               /\ o.op = "text" => o.arg # "UNLOCKED"}

\* Operations that leave the timer and the bottom row alone, too.
Quiet ==
  {o \in AttemptOps : /\ o.op # "attach"
                      /\ o.op = "clear" => o.arg # "status"
                      /\ o.op = "text" => o.arg \notin StatusTexts}

BoltInv ==
  old_state # "INIT" =>
    /\ pc = "poll" => g_state = old_state
    /\ "servo" \notin Faulty => \/ servo = Box!Angle[old_state]
                                \/ Pending(com, Servo(Box!Angle[old_state]))
    /\ told = Report(old_state) \/ Pending(com, Http(Report(old_state)))

GoalInv ==
  /\ announced \in {0, target_weight_old} \/ Pending(com, NewGoal)
  /\ pc # "goal" => target_weight_old \in {0, target_weight}
  /\ pc = "state" => target_weight_old = target_weight

\* The box was unlocked with no alarm running and is not about to be locked.
Undisturbed ==
  /\ old_state = "UNLOCKED" /\ ~crossed
  /\ pc \in {"goal", "state"} => g_state = "UNLOCKED"

\* How far UNLOCKED_init has got with the bottom row.
Written ==
  \/ com = <<Servo("70"), Clear("status"), Cursor("status"), Text("UNLOCKED"),
             Http("NotifyUnlocked")>>
  \/ com = <<Clear("status"), Cursor("status"), Text("UNLOCKED"), Http("NotifyUnlocked")>>
  \/ com = <<Cursor("status"), Text("UNLOCKED"), Http("NotifyUnlocked")>> /\ status = {}
  \/ com = <<Text("UNLOCKED"), Http("NotifyUnlocked")>> /\ status = {}
  \/ com = <<Http("NotifyUnlocked")>> /\ status = {"UNLOCKED"}
  \/ com \in Seq(Quiet \cup {NewGoal}) /\ status = {"UNLOCKED"}

UnlockedInv ==
  Undisturbed /\ "led" \notin Faulty =>
    ~AlarmRunning /\ Placed(com, cursor) /\ Written

LockedInv ==
  old_state # "UNLOCKED" /\ "led" \notin Faulty =>
    "UNLOCKED" \notin status \/ Pending(com, Clear("status"))

ScriptInv ==
  /\ com \in Seq(ModeOps(old_state))
  /\ pc # "state" => com \in Seq(Ops \ {NewGoal})
  /\ pc = "boot" => old_state = "INIT"

RestInv == ScriptInv /\ BoltInv /\ GoalInv /\ UnlockedInv /\ LockedInv

-----------------------------------------------------------------------------
\* The sequences of the blocks once more, with the place of their texts.

LEMMA ScriptConcat ==
  ASSUME NEW S, NEW s, NEW t, Script(s, S), Script(t, S)
  PROVE  Script(s \o t, S)
PROOF
<1>1. s \in Seq(S) /\ t \in Seq(S)
  BY DEF Script
<1>2. /\ s \o t \in Seq(S)
      /\ Len(s \o t) = Len(s) + Len(t)
      /\ \A k \in 1..Len(s) : (s \o t)[k] = s[k]
      /\ \A k \in (Len(s) + 1)..(Len(s) + Len(t)) : (s \o t)[k] = t[k - Len(s)]
      /\ Len(s) \in Nat /\ Len(t) \in Nat
  BY <1>1, Concat
<1>3. ASSUME NEW i \in 1..Len(s \o t), (s \o t)[i].op = "text"
      PROVE  i > 1 /\ (s \o t)[i - 1] = Cursor(RowOf((s \o t)[i].arg))
  <2>1. CASE i \in 1..Len(s)
    <3>1. (s \o t)[i] = s[i]
      BY <1>2, <2>1
    <3>2. i > 1 /\ s[i - 1] = Cursor(RowOf(s[i].arg))
      BY <1>3, <2>1, <3>1 DEF Script
    <3>3. (s \o t)[i - 1] = s[i - 1]
      BY <1>2, <2>1, <3>2
    <3> QED BY <3>1, <3>2, <3>3
  <2>2. CASE i \in (Len(s) + 1)..(Len(s) + Len(t))
    <3>1. (s \o t)[i] = t[i - Len(s)] /\ i - Len(s) \in 1..Len(t)
      BY <1>2, <2>2
    <3>2. i - Len(s) > 1 /\ t[(i - Len(s)) - 1] = Cursor(RowOf(t[i - Len(s)].arg))
      BY <1>3, <3>1 DEF Script
    <3>3. (s \o t)[i - 1] = t[(i - 1) - Len(s)] /\ (i - 1) - Len(s) = (i - Len(s)) - 1
      BY <1>2, <2>2, <3>2
    <3> QED BY <1>2, <3>1, <3>2, <3>3
  <2> QED BY <1>2, <2>1, <2>2
<1> QED BY <1>2, <1>3 DEF Script

LEMMA ScriptWeaken ==
  ASSUME NEW S, NEW T, S \subseteq T, NEW s, Script(s, S)
  PROVE  Script(s, T)
BY SeqSubset DEF Script

LEMMA EmptyScript == \A S : Script(<<>>, S)
BY DEF Script

LEMMA SingleScript ==
  ASSUME NEW S, NEW o \in S, o.op # "text"
  PROVE  Script(<<o>>, S)
BY DEF Script

LEMMA ShowScript ==
  ASSUME NEW S, NEW text, Clear(RowOf(text)) \in S, Cursor(RowOf(text)) \in S, Text(text) \in S
  PROVE  Script(Show(RowOf(text), text), S)
PROOF
<1>1. /\ Clear(RowOf(text)).op = "clear" /\ Cursor(RowOf(text)).op = "cursor"
      /\ Text(text).arg = text
  BY DEF Clear, Cursor, Text, Op
<1> QED BY <1>1 DEF Script, Show

\* The texts of the upper rows.
LEMMA QuietShows ==
  /\ Script(Show("pass", "PASS"), Quiet)
  /\ Script(Show("now", "NOW"), Quiet)
  /\ Script(Show("goal", "GOAL"), Quiet)
PROOF
<1>1. ASSUME NEW text \in {"PASS", "NOW", "GOAL"}
      PROVE  Script(Show(RowOf(text), text), Quiet)
  <2>1. RowOf(text) \in Row \ {"status"} /\ text \in Texts \ StatusTexts
    BY DEF RowOf, Row, Texts, StatusTexts
  <2>2. /\ Clear(RowOf(text)) \in Quiet /\ Cursor(RowOf(text)) \in Quiet
        /\ Text(text) \in Quiet
    BY <2>1, OpKinds DEF Quiet, AttemptOps, NewGoal, Clear, Cursor, Text, Http, Op, StatusTexts
  <2> QED BY <2>2, ShowScript
<1>2. RowOf("PASS") = "pass" /\ RowOf("NOW") = "now" /\ RowOf("GOAL") = "goal"
  BY DEF RowOf
<1>3. /\ Script(Show(RowOf("PASS"), "PASS"), Quiet)
      /\ Script(Show(RowOf("NOW"), "NOW"), Quiet)
      /\ Script(Show(RowOf("GOAL"), "GOAL"), Quiet)
  BY <1>1
<1> QED BY <1>2, <1>3

\* A failed attempt draws on the bottom row, but never UNLOCKED.
LEMMA FailedScript ==
  ASSUME NEW pattern \in {"INCORRECT", "INITIAL", "DO_DIET"}
  PROVE  Script(unlock_failed(pattern), AttemptOps)
PROOF
<1> DEFINE n == CASE pattern = "INCORRECT" -> <<Http("NotifyUnlockFailedInvalidPass")>>
                  [] pattern = "DO_DIET"   -> <<Http("NotifyUnlockFailedDoDiet")>>
                  [] OTHER                 -> <<>>
           a == cmd_kaiten_lamp("50", "on")
           b == <<Attach>>
           c == Show("status", pattern)
<1>1. /\ Kaiten("50") \in AttemptOps /\ Lamp("on") \in AttemptOps /\ Attach \in AttemptOps
      /\ Clear("status") \in AttemptOps /\ Cursor("status") \in AttemptOps
      /\ Text(pattern) \in AttemptOps
      /\ Http("NotifyUnlockFailedInvalidPass") \in AttemptOps
      /\ Http("NotifyUnlockFailedDoDiet") \in AttemptOps
  BY OpKinds DEF AttemptOps, NewGoal, Kaiten, Lamp, Attach, Clear, Cursor, Text, Http, Op, Row,
                 Texts, StatusTexts, Requests, Reports
<1>2. Script(a, AttemptOps)
  BY <1>1 DEF cmd_kaiten_lamp, Script, Kaiten, Lamp, Op
<1>3. Script(b, AttemptOps)
  BY <1>1, SingleScript DEF Attach, Op
<1>4. Script(c, AttemptOps)
  <2>1. RowOf(pattern) = "status"
    BY DEF RowOf
  <2> QED BY <1>1, <2>1, ShowScript
<1>5. Script(n, AttemptOps)
  BY <1>1, SingleScript, EmptyScript DEF Http, Op
<1> HIDE DEF n, a, b, c
<1>6. Script(((a \o b) \o c) \o n, AttemptOps)
  BY <1>2, <1>3, <1>4, <1>5, ScriptConcat
<1> QED BY <1>6 DEF unlock_failed, n, a, b, c

LEMMA SeqEqual ==
  ASSUME NEW S, NEW s \in Seq(S), NEW t \in Seq(S), Len(s) = Len(t),
         \A k \in 1..Len(s) : s[k] = t[k]
  PROVE  s = t
OBVIOUS

\* UNLOCKED_init() (main.cpp:281-292), operation by operation.
LEMMA UnlockedScript ==
  UNLOCKED_init = <<Servo("70"), Clear("status"), Cursor("status"), Text("UNLOCKED"),
                    Http("NotifyUnlocked")>>
PROOF
<1> DEFINE a == <<Servo("70")>>
           b == Show("status", "UNLOCKED")
           c == <<Http("NotifyUnlocked")>>
           u == <<Servo("70"), Clear("status"), Cursor("status"), Text("UNLOCKED"),
                    Http("NotifyUnlocked")>>
<1>1. /\ Servo("70") \in Ops /\ Clear("status") \in Ops /\ Cursor("status") \in Ops
      /\ Text("UNLOCKED") \in Ops /\ Http("NotifyUnlocked") \in Ops
  BY OpKinds DEF Row, Texts, StatusTexts, Requests
<1>2. /\ a \in Seq(Ops) /\ b \in Seq(Ops) /\ c \in Seq(Ops) /\ u \in Seq(Ops)
      /\ Len(a) = 1 /\ Len(b) = 3 /\ Len(c) = 1 /\ Len(u) = 5
  BY <1>1 DEF Show
<1>3. /\ a[1] = u[1] /\ b[1] = u[2] /\ b[2] = u[3] /\ b[3] = u[4] /\ c[1] = u[5]
  BY DEF Show
<1> HIDE DEF a, b, c, u
<1> DEFINE d == a \o b
<1>4. /\ d \in Seq(Ops) /\ Len(d) = 4
      /\ d[1] = u[1] /\ d[2] = u[2] /\ d[3] = u[3] /\ d[4] = u[4]
  <2>1. /\ d \in Seq(Ops)
        /\ Len(d) = Len(a) + Len(b)
        /\ \A k \in 1..Len(a) : d[k] = a[k]
        /\ \A k \in (Len(a) + 1)..(Len(a) + Len(b)) : d[k] = b[k - Len(a)]
    BY <1>2, Concat, Zenon
  <2> HIDE DEF d
  <2> QED BY <1>2, <1>3, <2>1
<1> HIDE DEF d
<1>5. /\ d \o c \in Seq(Ops) /\ Len(d \o c) = 5
      /\ \A k \in 1..5 : (d \o c)[k] = u[k]
  <2>1. /\ d \o c \in Seq(Ops)
        /\ Len(d \o c) = Len(d) + Len(c)
        /\ \A k \in 1..Len(d) : (d \o c)[k] = d[k]
        /\ \A k \in (Len(d) + 1)..(Len(d) + Len(c)) : (d \o c)[k] = c[k - Len(d)]
    BY <1>2, <1>4, Concat, Zenon
  <2> QED BY <1>2, <1>3, <1>4, <2>1
<1>6. d \o c = u
  BY <1>2, <1>5, SeqEqual
<1> QED BY <1>6 DEF UNLOCKED_init, a, b, c, d, u

LEMMA PendingConcat ==
  ASSUME NEW S, NEW s \in Seq(S), NEW t \in Seq(S), NEW o, Pending(s, o) \/ Pending(t, o)
  PROVE  Pending(s \o t, o)
PROOF
<1>1. /\ Len(s \o t) = Len(s) + Len(t)
      /\ \A k \in 1..Len(s) : (s \o t)[k] = s[k]
      /\ \A k \in (Len(s) + 1)..(Len(s) + Len(t)) : (s \o t)[k] = t[k - Len(s)]
      /\ Len(s) \in Nat /\ Len(t) \in Nat
  BY Concat
<1>2. CASE Pending(s, o)
  BY <1>1, <1>2 DEF Pending
<1>3. CASE Pending(t, o)
  <2>1. PICK k \in 1..Len(t) : t[k] = o
    BY <1>3 DEF Pending
  <2>2. Len(s) + k \in (Len(s) + 1)..(Len(s) + Len(t)) /\ (Len(s) + k) - Len(s) = k
    BY <1>1, <2>1
  <2>3. (s \o t)[Len(s) + k] = o
    BY <1>1, <2>1, <2>2
  <2> QED BY <1>1, <2>2, <2>3 DEF Pending
<1> QED BY <1>2, <1>3

\* LOCKED_init() (main.cpp:257-269) throws the bolt, clears the bottom row and
\* reports it.
LEMMA LockedScript ==
  /\ LOCKED_init \in Seq(ModeOps("LOCKED") \ {NewGoal})
  /\ Pending(LOCKED_init, Servo("150"))
  /\ Pending(LOCKED_init, Clear("status"))
  /\ Pending(LOCKED_init, Http("NotifyLocked"))
PROOF
<1> DEFINE S == ModeOps("LOCKED") \ {NewGoal}
           a == cmd_kaiten_lamp("0", "off")
           b == <<Servo("150")>>
           c == Show("status", "LOCKED")
           d == <<Http("NotifyLocked")>>
<1>1. /\ Kaiten("0") \in S /\ Lamp("off") \in S /\ Servo("150") \in S
      /\ Clear("status") \in S /\ Cursor("status") \in S /\ Text("LOCKED") \in S
      /\ Http("NotifyLocked") \in S
  BY OpKinds DEF ModeOps, NewGoal, Kaiten, Lamp, Servo, Clear, Cursor, Text, Http, Op, Row, Texts,
                 StatusTexts, Requests, Reports, Report, Box!Angle
<1> HIDE DEF S
<1>2. a \in Seq(S) /\ b \in Seq(S) /\ c \in Seq(S) /\ d \in Seq(S)
  BY <1>1 DEF cmd_kaiten_lamp, Show
<1>3. Pending(b, Servo("150")) /\ Pending(c, Clear("status")) /\ Pending(d, Http("NotifyLocked"))
  BY DEF Pending, Show
<1> HIDE DEF a, b, c, d
<1>4. a \o b \in Seq(S) /\ (a \o b) \o c \in Seq(S) /\ ((a \o b) \o c) \o d \in Seq(S)
  BY <1>2
<1>5. Pending(a \o b, Servo("150"))
  BY <1>2, <1>3, PendingConcat
<1>6. Pending((a \o b) \o c, Servo("150")) /\ Pending((a \o b) \o c, Clear("status"))
  BY <1>2, <1>3, <1>4, <1>5, PendingConcat
<1>7. /\ Pending(((a \o b) \o c) \o d, Servo("150"))
      /\ Pending(((a \o b) \o c) \o d, Clear("status"))
      /\ Pending(((a \o b) \o c) \o d, Http("NotifyLocked"))
  BY <1>2, <1>3, <1>4, <1>6, PendingConcat
<1> QED BY <1>4, <1>7 DEF LOCKED_init, S, a, b, c, d

LEMMA OpSubsets ==
  /\ Quiet \subseteq AttemptOps /\ AttemptOps \subseteq Ops \ {NewGoal}
  /\ \A mode : AttemptOps \subseteq ModeOps(mode)
  /\ \A mode : Quiet \cup {NewGoal} \subseteq ModeOps(mode)
PROOF
<1>1. NewGoal \in Ops /\ NewGoal.op = "http" /\ NewGoal.arg \notin Reports
  BY OpKinds DEF NewGoal, Http, Op, Requests, Reports
<1> QED BY <1>1 DEF Quiet, AttemptOps, ModeOps

\* Where no text has been drawn yet, it does not matter where the cursor is.
LEMMA ScriptPlaced ==
  ASSUME NEW S, NEW s, Script(s, S), NEW row
  PROVE  Placed(s, row)
BY DEF Script, Placed

-----------------------------------------------------------------------------
\* The blocks of com_main.

\* What most blocks do: they leave the bolt, the reports and the bottom row
\* alone and enter no other state.
QuietBlock ==
  /\ com = <<>> /\ Script(com', Quiet)
  /\ pc \notin {"goal", "state"} /\ pc' \notin {"boot", "state"}
  /\ pc' = "poll" => old_state = "INIT"
  /\ UNCHANGED <<old_state, crossed, told, announced, target_weight_old, evTimer, devices>>
  /\ pc' # "goal" => target_weight' = target_weight

LEMMA QuietBlocks ==
  ASSUME Inv, RestInv,
         \/ Boot \/ Poll \/ WeightBlock \/ DoorBlock \/ KeyIgnored \/ KeyEdit \/ KeyGoal
         \/ (KeyAttempt /\ Failure = "none")
  PROVE  QuietBlock
PROOF
<1>1. CASE Boot
  BY <1>1, QuietShows
     DEF Boot, At, QuietBlock, RestInv, ScriptInv, statics, history
<1>2. CASE Poll
  BY <1>2, EmptyScript DEF Poll, At, QuietBlock, statics, lockState, history
<1>3. CASE WeightBlock
  <2> DEFINE n == IF weights.stable # "determined" THEN <<>>
                  ELSE <<Http("ChannelUpdate"),
                         Http(IF weights.weight < target_weight
                              THEN "NotifyDietAchieved" ELSE "NotifyDietNotAchieved")>>
  <2>1. Script(n, Quiet)
    <3>1. /\ Http("ChannelUpdate") \in Quiet
          /\ Http("NotifyDietAchieved") \in Quiet /\ Http("NotifyDietNotAchieved") \in Quiet
      BY OpKinds DEF Quiet, AttemptOps, NewGoal, Http, Op, Requests, Reports
    <3>2. \A m : Http(m).op # "text"
      BY DEF Http, Op
    <3>3. n \in Seq(Quiet)
      BY <3>1
    <3>4. \A i \in 1..Len(n) : n[i].op # "text"
      BY <3>2
    <3> QED BY <3>3, <3>4 DEF Script
  <2> HIDE DEF n
  <2>2. Script(Show("now", "NOW") \o n, Quiet)
    BY <2>1, QuietShows, ScriptConcat
  <2>3. com' = <<>> \/ com' = Show("now", "NOW") \o n
    BY <1>3 DEF WeightBlock, n
  <2>4. Script(com', Quiet)
    BY <2>2, <2>3, EmptyScript
  <2> QED BY <1>3, <2>4 DEF WeightBlock, At, QuietBlock, lockState, history
<1>4. CASE DoorBlock
  <2>1. /\ Lamp("on") \in Quiet /\ Lamp("off") \in Quiet
        /\ Lamp("on").op # "text" /\ Lamp("off").op # "text"
    BY OpKinds DEF Quiet, AttemptOps, NewGoal, Lamp, Http, Op
  <2>2. Script(<<Lamp("on")>>, Quiet) /\ Script(<<Lamp("off")>>, Quiet)
    BY <2>1, SingleScript
  <2>3. Script(com', Quiet)
    BY <1>4, <2>2, EmptyScript DEF DoorBlock
  <2> QED BY <1>4, <2>3 DEF DoorBlock, At, QuietBlock, history
<1>5. CASE KeyIgnored \/ KeyEdit \/ KeyGoal
  <2>1. Script(com', Quiet)
    BY <1>5, QuietShows, EmptyScript DEF KeyIgnored, KeyEdit, KeyGoal, At
  <2> QED BY <1>5, <2>1
          DEF KeyIgnored, KeyEdit, KeyGoal, At, KeyUnchanged, QuietBlock, statics, history
<1>6. CASE KeyAttempt /\ Failure = "none"
  <2>1. Script(com', Quiet)
    BY <1>6, QuietShows DEF KeyAttempt
  <2> QED BY <1>6, <2>1 DEF KeyAttempt, At, KeyUnchanged, QuietBlock, statics, history
<1> QED BY <1>1, <1>2, <1>3, <1>4, <1>5, <1>6

\* Nothing is pending when a block begins.
LEMMA NothingPending ==
  ASSUME com = <<>>
  PROVE  /\ \A o : ~Pending(com, o)
         /\ RestInv /\ Undisturbed /\ "led" \notin Faulty => status = {"UNLOCKED"}
PROOF
<1>1. \A o : ~Pending(com, o)
  BY DEF Pending
<1>2. Written => status = {"UNLOCKED"}
  BY DEF Written
<1> QED BY <1>1, <1>2 DEF RestInv, UnlockedInv

LEMMA QuietKeeps ==
  ASSUME Inv, RestInv, QuietBlock PROVE RestInv'
PROOF
<1>1. /\ com = <<>> /\ Script(com', Quiet)
      /\ pc \notin {"goal", "state"} /\ pc' \notin {"boot", "state"}
      /\ UNCHANGED <<old_state, crossed, told, announced, target_weight_old>>
      /\ UNCHANGED <<ev, timer, posted, servo, status, cursor>>
  BY DEF QuietBlock, evTimer, devices
<1>2. com' \in Seq(Quiet)
  BY <1>1 DEF Script
<1>3. ScriptInv'
  <2>1. com' \in Seq(ModeOps(old_state')) /\ com' \in Seq(Ops \ {NewGoal})
    BY <1>2, OpSubsets, SeqSubset
  <2> QED BY <1>1, <2>1 DEF ScriptInv
<1>4. BoltInv'
  BY <1>1, NothingPending DEF RestInv, BoltInv, QuietBlock
<1>5. GoalInv'
  BY <1>1, NothingPending DEF RestInv, GoalInv, QuietBlock
<1>6. UnlockedInv'
  <2> SUFFICES ASSUME Undisturbed', "led" \notin Faulty
               PROVE  ~AlarmRunning' /\ Placed(com', cursor') /\ Written'
    BY DEF UnlockedInv
  <2>1. Undisturbed
    BY <1>1 DEF Undisturbed
  <2>2. ~AlarmRunning /\ status = {"UNLOCKED"}
    BY <1>1, <2>1, NothingPending DEF RestInv, UnlockedInv
  <2>3. com' \in Seq(Quiet \cup {NewGoal})
    BY <1>2, SeqSubset
  <2>4. Placed(com', cursor')
    BY <1>1, ScriptPlaced
  <2> QED BY <1>1, <2>2, <2>3, <2>4 DEF AlarmRunning, Written
<1>7. LockedInv'
  BY <1>1, NothingPending DEF RestInv, LockedInv
<1> QED BY <1>3, <1>4, <1>5, <1>6, <1>7 DEF RestInv

LEMMA FailureScript ==
  ASSUME KeyAttempt, Failure # "none" PROVE com' \in Seq(AttemptOps)
PROOF
<1>1. com' = unlock_failed(Failure) \o Show("pass", "PASS")
  BY DEF KeyAttempt
<1>2. Failure \in {"INCORRECT", "INITIAL", "DO_DIET"}
  BY DEF Failure
<1>3. Script(unlock_failed(Failure), AttemptOps) /\ Script(Show("pass", "PASS"), AttemptOps)
  BY <1>2, FailedScript, QuietShows, OpSubsets, ScriptWeaken
<1>4. Script(com', AttemptOps)
  BY <1>1, <1>3, ScriptConcat
<1> QED BY <1>4 DEF Script

\* An attempt that fails: the box is locked, so that nothing is said here about
\* the bottom row but that it does not say UNLOCKED.
LEMMA FailureKeeps ==
  ASSUME Inv, RestInv, KeyAttempt, Failure # "none" PROVE RestInv'
PROOF
<1>1. /\ com = <<>> /\ pc = "key" /\ pc' = "goal" /\ g_state' = "LOCKED"
      /\ com' = unlock_failed(Failure) \o Show("pass", "PASS")
      /\ UNCHANGED <<old_state, crossed, told, announced, target_weight, target_weight_old>>
      /\ UNCHANGED <<servo, status>>
  BY DEF KeyAttempt, At, KeyUnchanged, statics, devices, history
<1>2. com' \in Seq(AttemptOps)
  BY FailureScript
<1>3. ScriptInv'
  <2>1. com' \in Seq(ModeOps(old_state')) /\ com' \in Seq(Ops \ {NewGoal})
    BY <1>2, OpSubsets, SeqSubset
  <2> QED BY <1>1, <2>1 DEF ScriptInv
<1>4. BoltInv' /\ GoalInv' /\ LockedInv'
  BY <1>1, NothingPending DEF RestInv, BoltInv, GoalInv, LockedInv
<1>5. UnlockedInv'
  BY <1>1 DEF UnlockedInv, Undisturbed
<1> QED BY <1>3, <1>4, <1>5 DEF RestInv

LEMMA GoalScript ==
  ASSUME GoalBlock
  PROVE  /\ Script(com', Quiet \cup {NewGoal})
         /\ target_weight # target_weight_old /\ target_weight_old # 0 => Pending(com', NewGoal)
PROOF
<1> DEFINE S == Quiet \cup {NewGoal}
           n == IF target_weight_old = 0 THEN <<>> ELSE <<NewGoal>>
<1>1. com' = IF target_weight = target_weight_old THEN <<>> ELSE Show("goal", "GOAL") \o n
  BY DEF GoalBlock, NewGoal
<1>2. Script(Show("goal", "GOAL"), S) /\ Script(n, S)
  <2>1. NewGoal.op # "text"
    BY DEF NewGoal, Http, Op
  <2> QED BY <2>1, QuietShows, ScriptWeaken, SingleScript, EmptyScript
<1> HIDE DEF S
<1>3. Script(com', S)
  <2>1. Script(Show("goal", "GOAL") \o n, S)
    BY <1>2, ScriptConcat
  <2> QED BY <1>1, <2>1, EmptyScript
<1>4. ASSUME target_weight # target_weight_old, target_weight_old # 0
      PROVE  Pending(com', NewGoal)
  <2>1. n \in Seq(S) /\ Show("goal", "GOAL") \in Seq(S)
    BY <1>2 DEF Script
  <2>2. Pending(n, NewGoal)
    BY <1>4 DEF Pending
  <2> HIDE DEF n
  <2> QED BY <1>1, <1>4, <2>1, <2>2, PendingConcat
<1> QED BY <1>3, <1>4 DEF S

LEMMA GoalKeeps ==
  ASSUME Inv, RestInv, GoalBlock PROVE RestInv'
PROOF
<1>1. /\ com = <<>> /\ pc = "goal" /\ pc' = "state"
      /\ target_weight_old' = target_weight
      /\ UNCHANGED <<old_state, g_state, crossed, told, announced, target_weight>>
      /\ UNCHANGED <<ev, timer, posted, servo, status, cursor>>
  BY DEF GoalBlock, At, lockState, evTimer, devices, history
<1>2. Script(com', Quiet \cup {NewGoal})
  BY GoalScript
<1>3. ScriptInv'
  <2>1. com' \in Seq(ModeOps(old_state'))
    BY <1>2, OpSubsets, SeqSubset DEF Script
  <2> QED BY <1>1, <2>1 DEF ScriptInv
<1>4. BoltInv' /\ LockedInv'
  BY <1>1, NothingPending DEF RestInv, BoltInv, LockedInv
<1>5. GoalInv'
  <2>1. target_weight # target_weight_old /\ target_weight_old # 0 => Pending(com', NewGoal)
    BY GoalScript
  <2>2. announced \in {0, target_weight_old}
    BY <1>1, NothingPending DEF RestInv, GoalInv
  <2>3. announced' \in {0, target_weight_old'} \/ Pending(com', NewGoal)
    BY <1>1, <2>1, <2>2
  <2> QED BY <1>1, <2>3 DEF GoalInv
<1>6. UnlockedInv'
  <2> SUFFICES ASSUME Undisturbed', "led" \notin Faulty
               PROVE  ~AlarmRunning' /\ Placed(com', cursor') /\ Written'
    BY DEF UnlockedInv
  <2>1. Undisturbed
    BY <1>1 DEF Undisturbed
  <2>2. ~AlarmRunning /\ status = {"UNLOCKED"}
    BY <1>1, <2>1, NothingPending DEF RestInv, UnlockedInv
  <2>3. com' \in Seq(Quiet \cup {NewGoal})
    BY <1>2 DEF Script
  <2>4. Placed(com', cursor')
    BY <1>2, ScriptPlaced
  <2> QED BY <1>1, <2>2, <2>3, <2>4 DEF AlarmRunning, Written
<1> QED BY <1>3, <1>4, <1>5, <1>6 DEF RestInv

\* state_main() (StateMachine.cpp) enters the state asked for.
LEMMA StateKeeps ==
  ASSUME Inv, RestInv, StateBlock PROVE RestInv'
PROOF
<1>1. /\ com = <<>> /\ pc = "state" /\ pc' = "poll"
      /\ UNCHANGED <<g_state, told, announced, target_weight, target_weight_old>>
      /\ UNCHANGED <<ev, timer, posted, servo, status, cursor>>
      /\ g_state \in {"LOCKED", "UNLOCKED"}
  BY DEF Inv, ThreadInv, ComTypes, StateBlock, At, statics, evTimer, devices
<1>2. old_state' = g_state
  BY <1>1 DEF Inv, ComTypes, StateBlock, next_state, Successors
<1>3. GoalInv'
  BY <1>1, NothingPending DEF RestInv, GoalInv
<1>4. CASE old_state = g_state
  <2>1. com' = <<>> /\ crossed' = crossed
    BY <1>4 DEF StateBlock
  <2>2. ScriptInv'
    BY <1>1, <2>1 DEF ScriptInv
  <2>3. BoltInv' /\ LockedInv'
    BY <1>1, <1>2, <1>4, NothingPending DEF RestInv, BoltInv, LockedInv
  <2>4. UnlockedInv'
    <3> SUFFICES ASSUME Undisturbed', "led" \notin Faulty
                 PROVE  ~AlarmRunning' /\ Placed(com', cursor') /\ Written'
      BY DEF UnlockedInv
    <3>1. Undisturbed
      BY <1>2, <1>4, <2>1 DEF Undisturbed
    <3>2. ~AlarmRunning /\ status = {"UNLOCKED"}
      BY <1>1, <3>1, NothingPending DEF RestInv, UnlockedInv
    <3>3. com' \in Seq(Quiet \cup {NewGoal}) /\ Placed(com', cursor')
      BY <2>1 DEF Placed
    <3> QED BY <1>1, <3>2, <3>3 DEF AlarmRunning, Written
  <2> QED BY <1>3, <2>2, <2>3, <2>4 DEF RestInv
<1>5. CASE old_state # g_state /\ g_state = "LOCKED"
  <2>1. com' = LOCKED_init
    BY <1>2, <1>5 DEF StateBlock, init_func
  <2>2. /\ com' \in Seq(ModeOps(old_state')) /\ com' \in Seq(Ops \ {NewGoal})
    <3>1. /\ ModeOps("LOCKED") \ {NewGoal} \subseteq ModeOps("LOCKED")
          /\ ModeOps("LOCKED") \ {NewGoal} \subseteq Ops \ {NewGoal}
      BY DEF ModeOps
    <3> QED BY <1>2, <1>5, <2>1, <3>1, LockedScript, SeqSubset
  <2>3. ScriptInv'
    BY <1>1, <2>2 DEF ScriptInv
  <2>4. BoltInv'
    <3>1. Box!Angle["LOCKED"] = "150" /\ Report("LOCKED") = "NotifyLocked"
      BY DEF Box!Angle, Report
    <3> QED BY <1>1, <1>2, <1>5, <2>1, <3>1, LockedScript DEF BoltInv
  <2>5. LockedInv'
    BY <2>1, LockedScript DEF LockedInv
  <2>6. UnlockedInv'
    BY <1>2, <1>5 DEF UnlockedInv, Undisturbed
  <2> QED BY <1>3, <2>3, <2>4, <2>5, <2>6 DEF RestInv
<1>6. CASE old_state # g_state /\ g_state = "UNLOCKED"
  <2>1. /\ com' = UNLOCKED_init
        /\ ~crossed' => ~AlarmRunning
    BY <1>2, <1>6 DEF StateBlock, init_func
  <2> DEFINE u == <<Servo("70"), Clear("status"), Cursor("status"), Text("UNLOCKED"),
                    Http("NotifyUnlocked")>>
  <2>2. com' = u
    BY <2>1, UnlockedScript
  <2>3. /\ com' \in Seq(ModeOps(old_state')) /\ com' \in Seq(Ops \ {NewGoal})
    <3>1. ASSUME NEW o \in {Servo("70"), Clear("status"), Cursor("status"), Text("UNLOCKED"),
                            Http("NotifyUnlocked")}
          PROVE  o \in ModeOps("UNLOCKED") /\ o \in Ops \ {NewGoal}
      BY <3>1, OpKinds DEF ModeOps, NewGoal, Servo, Clear, Cursor, Text, Http, Op, Row, Texts,
                 StatusTexts, Requests, Reports, Report, Box!Angle
    <3>2. u \in Seq(ModeOps("UNLOCKED")) /\ u \in Seq(Ops \ {NewGoal})
      BY <3>1
    <3> QED BY <1>2, <1>6, <2>2, <3>2
  <2>4. ScriptInv'
    BY <1>1, <2>3 DEF ScriptInv
  <2>5. BoltInv'
    <3>1. Box!Angle["UNLOCKED"] = "70" /\ Report("UNLOCKED") = "NotifyUnlocked"
      BY DEF Box!Angle, Report
    <3>2. Pending(u, Servo("70")) /\ Pending(u, Http("NotifyUnlocked"))
      BY DEF Pending
    <3> QED BY <1>1, <1>2, <1>6, <2>2, <3>1, <3>2 DEF BoltInv
  <2>6. LockedInv'
    BY <1>2, <1>6 DEF LockedInv
  <2>7. UnlockedInv'
    <3>1. Placed(u, cursor')
      BY DEF Placed, Servo, Clear, Cursor, Text, Http, Op, RowOf
    <3>2. Written'
      BY <2>2 DEF Written
    <3>3. Undisturbed' => ~AlarmRunning'
      BY <1>1, <2>1 DEF Undisturbed, AlarmRunning
    <3> QED BY <2>2, <3>1, <3>2, <3>3 DEF UnlockedInv
  <2> QED BY <1>3, <2>4, <2>5, <2>6, <2>7 DEF RestInv
<1> QED BY <1>1, <1>4, <1>5, <1>6

LEMMA BlockRest ==
  ASSUME Inv, RestInv, ComBlock PROVE RestInv'
PROOF
<1>1. CASE KeyAttempt
  BY <1>1, QuietBlocks, QuietKeeps, FailureKeeps
<1> QED BY <1>1, QuietBlocks, QuietKeeps, GoalKeeps, StateKeeps DEF ComBlock

\* Only state_main() leads to a servo command.
LEMMA NoServo ==
  ASSUME Inv, RestInv, ComBlock, ~StateBlock
  PROVE  \A a : ~Pending(com', Servo(a))
PROOF
<1>1. com' \in Seq(AttemptOps \cup {NewGoal})
  <2>1. QuietBlock => com' \in Seq(AttemptOps \cup {NewGoal})
    BY OpSubsets, SeqSubset DEF QuietBlock, Script
  <2>2. KeyAttempt /\ Failure # "none" => com' \in Seq(AttemptOps \cup {NewGoal})
    BY FailureScript, SeqSubset
  <2>3. GoalBlock => com' \in Seq(AttemptOps \cup {NewGoal})
    BY GoalScript, OpSubsets, SeqSubset DEF Script
  <2> QED BY <2>1, <2>2, <2>3, QuietBlocks DEF ComBlock
<1>2. \A a : Servo(a) \notin AttemptOps \cup {NewGoal}
  BY DEF AttemptOps, NewGoal, Servo, Http, Op
<1> QED BY <1>1, <1>2 DEF Pending

-----------------------------------------------------------------------------
\* The other steps of com_main.

\* The cursor follows the operations carried out.
LEMMA PlacedTail ==
  ASSUME NEW S, NEW s \in Seq(S), s # <<>>, NEW row, Placed(s, row),
         NEW row2, Head(s).op = "cursor" => row2 = Head(s).arg
  PROVE  /\ Placed(Tail(s), row2)
         /\ Head(s).op = "text" => row = RowOf(Head(s).arg)
PROOF
<1>1. /\ Tail(s) \in Seq(S) /\ Len(Tail(s)) = Len(s) - 1 /\ Len(s) \in Nat \ {0}
      /\ Head(s) = s[1]
  OBVIOUS
<1>2. \A k \in 1..Len(Tail(s)) : Tail(s)[k] = s[k + 1]
  OBVIOUS
<1>3. ASSUME NEW i \in 1..Len(Tail(s)), Tail(s)[i].op = "text"
      PROVE  IF i = 1 THEN row2 = RowOf(Tail(s)[i].arg)
             ELSE Tail(s)[i - 1] = Cursor(RowOf(Tail(s)[i].arg))
  <2>1. /\ i + 1 \in 1..Len(s) /\ i + 1 # 1 /\ (i + 1) - 1 = i
        /\ Tail(s)[i] = s[i + 1]
    BY <1>1, <1>2
  <2>2. s[i] = Cursor(RowOf(Tail(s)[i].arg))
    BY <1>3, <2>1 DEF Placed
  <2>3. CASE i = 1
    <3>1. Head(s).op = "cursor" /\ Head(s).arg = RowOf(Tail(s)[i].arg)
      BY <1>1, <2>2, <2>3 DEF Cursor, Op
    <3> QED BY <2>3, <3>1
  <2>4. CASE i # 1
    BY <1>1, <1>2, <2>2, <2>4
  <2> QED BY <2>3, <2>4
<1>4. Head(s).op = "text" => row = RowOf(Head(s).arg)
  BY <1>1 DEF Placed
<1> QED BY <1>3, <1>4 DEF Placed

\* One operation less to do.
LEMMA Popped ==
  ASSUME RestInv, com # <<>>, com' = Tail(com), UNCHANGED <<pc, old_state>>
  PROVE  /\ ScriptInv'
         /\ Head(com) \in ModeOps(old_state)
         /\ pc # "state" => Head(com) # NewGoal
         /\ \A o : Pending(com, o) /\ Head(com) # o => Pending(com', o)
PROOF
<1>1. com \in Seq(ModeOps(old_state)) /\ (pc # "state" => com \in Seq(Ops \ {NewGoal}))
  BY DEF RestInv, ScriptInv
<1>2. /\ com' \in Seq(ModeOps(old_state)) /\ Head(com) \in ModeOps(old_state)
      /\ pc # "state" => com' \in Seq(Ops \ {NewGoal}) /\ Head(com) # NewGoal
  BY <1>1
<1>3. \A o : Pending(com, o) /\ Head(com) # o => Pending(com', o)
  BY <1>1, PendingTail
<1>4. ScriptInv'
  BY <1>2 DEF RestInv, ScriptInv
<1> QED BY <1>2, <1>3, <1>4

\* What an operation does to the panel.
Panel(o) ==
  /\ cursor' = CASE o.op = "cursor" -> o.arg
                 [] o.op = "text" -> RowBelow[cursor]
                 [] OTHER -> cursor
  /\ status' = CASE o = Clear("status") -> {}
                 [] o.op = "text" /\ cursor = "status" -> status \cup {o.arg}
                 [] OTHER -> status

LEMMA PanelWritten ==
  ASSUME NEW o, WriteOrLose(o), "led" \notin Faulty
  PROVE  Panel(o)
PROOF
<1>1. CASE Write(o)
  BY <1>1 DEF Write, Panel
<1>2. CASE DeviceOf(o) \in Faulty /\ UNCHANGED devices
  <2>1. o.op \notin {"clear", "cursor", "text"}
    BY <1>2 DEF DeviceOf
  <2>2. o # Clear("status")
    BY <2>1 DEF Clear, Op
  <2> QED BY <1>2, <2>1, <2>2 DEF devices, Panel
<1> QED BY <1>1, <1>2 DEF WriteOrLose

\* A quiet operation leaves the bottom row alone when its text is in place.
LEMMA QuietPanel ==
  ASSUME NEW o \in Quiet \cup {NewGoal}, Panel(o),
         o.op = "text" => cursor = RowOf(o.arg)
  PROVE  status' = status /\ o # Attach
PROOF
<1>1. o # Clear("status") /\ o # Attach
  BY DEF Quiet, NewGoal, Clear, Attach, Http, Op
<1>2. ASSUME o.op = "text" PROVE cursor # "status"
  <2>1. o \in Ops /\ o.arg \notin StatusTexts
    BY <1>2 DEF Quiet, AttemptOps, NewGoal, Http, Op
  <2>2. o.arg \in {"GOAL", "NOW", "PASS"}
    BY <1>2, <2>1, OpArgs DEF Texts
  <2> QED BY <1>2, <2>2 DEF RowOf
<1> QED BY <1>1, <1>2 DEF Panel

\* UNLOCKED_init undisturbed: the row is cleared, then the text is drawn on it.
LEMMA WrittenStep ==
  ASSUME RestInv, Undisturbed, "led" \notin Faulty, com # <<>>, com' = Tail(com),
         Panel(Head(com))
  PROVE  Written' /\ Placed(com', cursor') /\ Head(com) # Attach
PROOF
<1> DEFINE o == Head(com)
<1>1. com \in Seq(ModeOps(old_state)) /\ Placed(com, cursor) /\ Written
  BY DEF RestInv, ScriptInv, UnlockedInv
<1>2. o.op = "cursor" => cursor' = o.arg
  BY DEF Panel
<1>3. Placed(com', cursor') /\ (o.op = "text" => cursor = RowOf(o.arg))
  BY <1>1, <1>2, PlacedTail
<1>4. CASE com = <<Servo("70"), Clear("status"), Cursor("status"), Text("UNLOCKED"),
                   Http("NotifyUnlocked")>>
  <2>1. /\ o = Servo("70")
        /\ com' = <<Clear("status"), Cursor("status"), Text("UNLOCKED"), Http("NotifyUnlocked")>>
    BY <1>4
  <2>2. o # Attach
    BY <2>1 DEF Servo, Attach, Op
  <2> QED BY <1>3, <2>1, <2>2 DEF Written
<1>5. CASE com = <<Clear("status"), Cursor("status"), Text("UNLOCKED"), Http("NotifyUnlocked")>>
  <2>1. /\ o = Clear("status")
        /\ com' = <<Cursor("status"), Text("UNLOCKED"), Http("NotifyUnlocked")>>
    BY <1>5
  <2>2. o # Attach /\ status' = {}
    BY <2>1 DEF Panel, Clear, Attach, Op
  <2> QED BY <1>3, <2>1, <2>2 DEF Written
<1>6. CASE com = <<Cursor("status"), Text("UNLOCKED"), Http("NotifyUnlocked")>> /\ status = {}
  <2>1. /\ o = Cursor("status")
        /\ com' = <<Text("UNLOCKED"), Http("NotifyUnlocked")>>
    BY <1>6
  <2>2. o # Attach /\ status' = {}
    BY <1>6, <2>1 DEF Panel, Clear, Cursor, Attach, Op
  <2> QED BY <1>3, <2>1, <2>2 DEF Written
<1>7. CASE com = <<Text("UNLOCKED"), Http("NotifyUnlocked")>> /\ status = {}
  <2>1. o = Text("UNLOCKED") /\ com' = <<Http("NotifyUnlocked")>>
    BY <1>7
  <2>2. cursor = "status"
    BY <1>3, <2>1 DEF Text, Op, RowOf
  <2>3. o # Attach /\ status' = {"UNLOCKED"}
    BY <1>7, <2>1, <2>2 DEF Panel, Clear, Text, Attach, Op
  <2> QED BY <1>3, <2>1, <2>3 DEF Written
<1>8. CASE com = <<Http("NotifyUnlocked")>> /\ status = {"UNLOCKED"}
  <2>1. o = Http("NotifyUnlocked") /\ com' = <<>>
    BY <1>8
  <2>2. o # Attach /\ status' = {"UNLOCKED"}
    BY <1>8, <2>1 DEF Panel, Clear, Http, Attach, Op
  <2>3. <<>> \in Seq(Quiet \cup {NewGoal})
    OBVIOUS
  <2>4. com' \in Seq(Quiet \cup {NewGoal})
    BY <2>1, <2>3, Zenon
  <2> QED BY <1>3, <2>2, <2>4 DEF Written
<1>9. CASE com \in Seq(Quiet \cup {NewGoal}) /\ status = {"UNLOCKED"}
  <2>1. o \in Quiet \cup {NewGoal} /\ com' \in Seq(Quiet \cup {NewGoal})
    BY <1>9
  <2>2. status' = {"UNLOCKED"} /\ o # Attach
    BY <1>3, <1>9, <2>1, QuietPanel
  <2> QED BY <1>3, <2>1, <2>2 DEF Written
<1> QED BY <1>1, <1>4, <1>5, <1>6, <1>7, <1>8, <1>9 DEF Written

LEMMA ComWriteRest ==
  ASSUME Inv, RestInv, ComWrite PROVE RestInv'
PROOF
<1> DEFINE o == Head(com)
<1>1. /\ com # <<>> /\ com' = Tail(com) /\ WriteOrLose(o)
      /\ DeviceOf(o) # "none"
      /\ UNCHANGED <<pc, g_state, old_state, told, announced, crossed, target_weight,
                     target_weight_old, ev, timer, posted>>
  BY DEF ComWrite, statics, lockState, evTimer, history
<1>2. /\ ScriptInv'
      /\ o \in ModeOps(old_state)
      /\ \A p : Pending(com, p) /\ o # p => Pending(com', p)
  BY <1>1, Popped
<1>3. o \in Ops /\ o.op # "http"
  BY <1>1, <1>2 DEF ModeOps, DeviceOf
<1>4. \A n : Pending(com, Http(n)) => Pending(com', Http(n))
  <2>1. \A n : o # Http(n)
    BY <1>3 DEF Http, Op
  <2> QED BY <1>2, <2>1
<1>5. BoltInv'
  <2>1. ASSUME old_state # "INIT", "servo" \notin Faulty
        PROVE  servo' = Box!Angle[old_state] \/ Pending(com', Servo(Box!Angle[old_state]))
    <3>1. CASE o.op = "servo"
      <4>1. Write(o)
        BY <1>1, <2>1, <3>1 DEF WriteOrLose, DeviceOf
      <4>2. servo' = o.arg
        BY <3>1, <4>1 DEF Write
      <4> QED BY <1>2, <3>1, <4>2 DEF ModeOps
    <3>2. CASE o.op # "servo"
      <4>1. servo' = servo
        BY <1>1, <1>3, <3>2, WriteEffect DEF Inv
      <4>2. o # Servo(Box!Angle[old_state])
        BY <3>2 DEF Servo, Op
      <4> QED BY <1>2, <2>1, <4>1, <4>2 DEF RestInv, BoltInv
    <3> QED BY <3>1, <3>2
  <2> QED BY <1>1, <1>4, <2>1 DEF RestInv, BoltInv
<1>6. GoalInv'
  BY <1>1, <1>4 DEF RestInv, GoalInv, NewGoal
<1>7. "led" \notin Faulty => Panel(o)
  BY <1>1, PanelWritten
<1>8. UnlockedInv'
  <2> SUFFICES ASSUME Undisturbed', "led" \notin Faulty
               PROVE  ~AlarmRunning' /\ Placed(com', cursor') /\ Written'
    BY DEF UnlockedInv
  <2>1. Undisturbed
    BY <1>1 DEF Undisturbed
  <2>2. ~AlarmRunning
    BY <2>1 DEF RestInv, UnlockedInv
  <2> QED BY <1>1, <1>7, <2>1, <2>2, WrittenStep DEF AlarmRunning
<1>9. LockedInv'
  <2> SUFFICES ASSUME old_state # "UNLOCKED", "led" \notin Faulty, "UNLOCKED" \in status'
               PROVE  Pending(com', Clear("status"))
    BY <1>1 DEF LockedInv
  <2>1. o # Clear("status")
    BY <1>7 DEF Panel, Clear, Op
  <2>2. o.op = "text" => o.arg # "UNLOCKED"
    BY <1>2 DEF ModeOps
  <2>3. "UNLOCKED" \in status
    BY <1>7, <2>1, <2>2 DEF Panel
  <2> QED BY <1>2, <2>1, <2>3 DEF RestInv, LockedInv
<1> QED BY <1>2, <1>5, <1>6, <1>8, <1>9 DEF RestInv

LEMMA ComAttachRest ==
  ASSUME Inv, RestInv, ComAttach PROVE RestInv'
PROOF
<1>1. /\ com # <<>> /\ com' = Tail(com) /\ Head(com) = Attach
      /\ UNCHANGED <<pc, g_state, old_state, told, announced, crossed, target_weight,
                     target_weight_old, servo, status, cursor>>
  BY DEF ComAttach, statics, lockState, devices, history
<1>2. /\ ScriptInv'
      /\ \A p : Pending(com, p) /\ Head(com) # p => Pending(com', p)
  BY <1>1, Popped
<1>3. /\ Attach # Clear("status") /\ \A n : Attach # Http(n)
      /\ \A a : Attach # Servo(a)
  BY DEF Attach, Clear, Http, Servo, Op
<1>4. BoltInv' /\ GoalInv' /\ LockedInv'
  BY <1>1, <1>2, <1>3 DEF RestInv, BoltInv, GoalInv, LockedInv, NewGoal
<1>5. UnlockedInv'
  <2> SUFFICES ASSUME Undisturbed', "led" \notin Faulty PROVE FALSE
    BY DEF UnlockedInv
  <2>1. Undisturbed
    BY <1>1 DEF Undisturbed
  <2>2. Panel(Attach)
    BY <1>1, <1>3 DEF Panel, Attach, Op
  <2> QED BY <1>1, <2>1, <2>2, WrittenStep
<1> QED BY <1>2, <1>4, <1>5 DEF RestInv

LEMMA ComRequestRest ==
  ASSUME Inv, RestInv, ComRequest PROVE RestInv'
PROOF
<1> DEFINE o == Head(com)
<1>1. /\ com # <<>> /\ com' = Tail(com) /\ o.op = "http"
      /\ told' = IF o.arg \in Reports THEN o.arg ELSE told
      /\ announced' = IF o.arg = "NotifyChangeTarget" THEN target_weight ELSE announced
      /\ UNCHANGED <<pc, g_state, old_state, crossed, target_weight, target_weight_old,
                     servo, status, cursor, ev, timer, posted>>
  BY DEF ComRequest, Reports, statics, lockState, devices, evTimer
<1>2. /\ ScriptInv'
      /\ o \in ModeOps(old_state)
      /\ pc # "state" => o # NewGoal
      /\ \A p : Pending(com, p) /\ o # p => Pending(com', p)
  BY <1>1, Popped
<1>3. /\ o # Clear("status") /\ \A a : o # Servo(a)
      /\ \A n : o = Http(n) <=> o.arg = n
  <2>1. o = [op |-> o.op, arg |-> o.arg]
    BY <1>2, OpArgs DEF ModeOps
  <2> QED BY <1>1, <2>1 DEF Clear, Http, Servo, Op
<1>4. BoltInv'
  <2>1. ASSUME old_state # "INIT"
        PROVE  told' = Report(old_state) \/ Pending(com', Http(Report(old_state)))
    <3>1. Report(old_state) \in Reports
      BY DEF Report, Reports
    <3>2. CASE o.arg \in Reports
      BY <1>1, <1>2, <2>1, <3>2 DEF ModeOps
    <3>3. CASE o.arg \notin Reports
      <4>1. o # Http(Report(old_state)) /\ told' = told
        BY <1>1, <1>3, <3>1, <3>3
      <4> QED BY <1>2, <2>1, <4>1 DEF RestInv, BoltInv
    <3> QED BY <3>2, <3>3
  <2> QED BY <1>1, <1>2, <1>3, <2>1 DEF RestInv, BoltInv
<1>5. GoalInv'
  <2>1. CASE o.arg = "NotifyChangeTarget"
    <3>1. pc = "state"
      BY <1>2, <1>3, <2>1 DEF NewGoal
    <3> QED BY <1>1, <2>1, <3>1 DEF RestInv, GoalInv
  <2>2. CASE o.arg # "NotifyChangeTarget"
    <3>1. o # NewGoal
      BY <1>3, <2>2 DEF NewGoal
    <3> QED BY <1>1, <1>2, <2>2, <3>1 DEF RestInv, GoalInv
  <2> QED BY <2>1, <2>2
<1>6. UnlockedInv'
  <2> SUFFICES ASSUME Undisturbed', "led" \notin Faulty
               PROVE  ~AlarmRunning' /\ Placed(com', cursor') /\ Written'
    BY DEF UnlockedInv
  <2>1. Undisturbed
    BY <1>1 DEF Undisturbed
  <2>2. ~AlarmRunning
    BY <2>1 DEF RestInv, UnlockedInv
  <2>3. Panel(o)
    BY <1>1, <1>3 DEF Panel
  <2> QED BY <1>1, <2>1, <2>2, <2>3, WrittenStep DEF AlarmRunning
<1>7. LockedInv'
  BY <1>1, <1>2, <1>3 DEF RestInv, LockedInv
<1> QED BY <1>2, <1>4, <1>5, <1>6, <1>7 DEF RestInv

-----------------------------------------------------------------------------
\* The event thread and the timer.

LEMMA EventRest ==
  ASSUME Inv, RestInv, Tick \/ Expire \/ Dispatch \/ EvWrite PROVE RestInv'
PROOF
<1>1. UNCHANGED <<pc, com, g_state, old_state, told, announced, crossed, target_weight,
                  target_weight_old>>
  BY DEF Tick, Expire, Dispatch, EvWrite, statics, lockState, history
<1>2. timer \in Nat /\ posted \in Nat
  BY TimerAssumption DEF Inv, QueueInv, TimerTypes
<1>3. AlarmRunning
  BY <1>2 DEF Tick, Expire, Dispatch, EvWrite, AlarmRunning
<1>4. /\ servo' = servo
      /\ "led" \notin Faulty /\ "UNLOCKED" \notin status => "UNLOCKED" \notin status'
  <2>1. CASE Tick \/ Expire \/ Dispatch
    BY <2>1 DEF Tick, Expire, Dispatch, devices
  <2>2. CASE EvWrite
    <3>1. ev # <<>> /\ WriteOrLose(Head(ev)) /\ ev \in Seq(EvOps)
      BY <2>2 DEF EvWrite, Inv, ThreadInv
    <3> DEFINE o == Head(ev)
    <3>2. o \in Ops /\ o.op # "servo" /\ o.arg # "UNLOCKED"
      <4>1. o \in EvOps
        BY <3>1
      <4> QED BY <4>1 DEF EvOps
    <3>3. servo' = servo
      BY <3>1, <3>2, WriteEffect DEF Inv
    <3>4. "led" \notin Faulty => Panel(o)
      BY <3>1, PanelWritten
    <3> QED BY <3>2, <3>3, <3>4 DEF Panel
  <2> QED BY <2>1, <2>2
<1>5. ScriptInv' /\ GoalInv'
  BY <1>1 DEF RestInv, ScriptInv, GoalInv
<1>6. BoltInv' /\ LockedInv'
  BY <1>1, <1>4 DEF RestInv, BoltInv, LockedInv
<1>7. UnlockedInv'
  BY <1>1, <1>3 DEF RestInv, UnlockedInv, Undisturbed
<1> QED BY <1>5, <1>6, <1>7 DEF RestInv

LEMMA NextRest ==
  ASSUME Inv, RestInv, [Next]_vars PROVE RestInv'
PROOF
<1>1. CASE UNCHANGED vars
  BY <1>1 DEF vars, statics, lockState, evTimer, devices, history, RestInv, ScriptInv, BoltInv,
              GoalInv, UnlockedInv, Undisturbed, AlarmRunning, Placed, Written, LockedInv, Pending
<1>2. CASE Next
  BY <1>2, BlockRest, ComWriteRest, ComAttachRest, ComRequestRest, EventRest DEF Next, Step
<1> QED BY <1>1, <1>2

LEMMA InitRest == Init => RestInv
PROOF
<1> SUFFICES ASSUME Init PROVE RestInv
  OBVIOUS
<1>1. com = <<Http("wifi")>> /\ old_state = "INIT" /\ pc = "boot" /\ status = {}
  BY DEF Init
<1>2. announced = 0 /\ target_weight_old = 0
  BY DEF Init
<1>3. Http("wifi") \in ModeOps("INIT") /\ Http("wifi") \in Ops \ {NewGoal}
  BY OpKinds DEF ModeOps, NewGoal, Http, Op, Requests, Reports
<1>4. com \in Seq(ModeOps(old_state)) /\ com \in Seq(Ops \ {NewGoal})
  BY <1>1, <1>3
<1>5. ScriptInv
  BY <1>1, <1>4 DEF ScriptInv
<1> QED BY <1>1, <1>2, <1>5 DEF RestInv, BoltInv, GoalInv, UnlockedInv, Undisturbed, LockedInv

LEMMA RestInvariance == Spec => []RestInv
PROOF
<1>1. Inv /\ RestInv /\ [Next]_vars => RestInv'
  BY NextRest
<1> QED BY InitRest, <1>1, Invariance, PTL DEF Spec

\* Nothing is pending at rest.
LEMMA AtRestFacts ==
  ASSUME Inv, RestInv, AtRest
  PROVE  /\ BoltAndMessageAgree
         /\ GoalNotOutdated
         /\ StatusHonest
PROOF
<1>1. pc = "poll" /\ com = <<>> /\ old_state # "INIT"
  BY DEF AtRest
<1>2. g_state = old_state /\ g_state \in {"LOCKED", "UNLOCKED"}
  BY <1>1 DEF RestInv, BoltInv, Inv, ComTypes
<1>3. BoltAndMessageAgree
  <2>1. /\ "servo" \notin Faulty => servo = Box!Angle[old_state]
        /\ told = Report(old_state)
    BY <1>1, NothingPending DEF RestInv, BoltInv
  <2>2. Box!Angle[old_state] = IF g_state = "LOCKED" THEN "150" ELSE "70"
    BY <1>2 DEF Box!Angle
  <2> QED BY <1>2, <2>1, <2>2 DEF BoltAndMessageAgree, Report
<1>4. GoalNotOutdated
  BY <1>1, NothingPending DEF RestInv, GoalInv, GoalNotOutdated
<1>5. StatusHonest
  <2> SUFFICES ASSUME "led" \notin Faulty
               PROVE  /\ g_state = "UNLOCKED" /\ ~crossed => status = {"UNLOCKED"}
                      /\ g_state = "LOCKED" => "UNLOCKED" \notin status
    BY DEF StatusHonest
  <2>1. g_state = "UNLOCKED" /\ ~crossed => Undisturbed
    BY <1>2 DEF Undisturbed
  <2>2. g_state = "LOCKED" => "UNLOCKED" \notin status
    BY <1>1, <1>2, NothingPending DEF RestInv, LockedInv
  <2> QED BY <1>1, <2>1, <2>2, NothingPending
<1> QED BY <1>3, <1>4, <1>5

\* At the end of every iteration the bolt, the last report to the owner and
\* g_state agree, whatever order writes and requests of the two threads had
\* (LOCKED_init, UNLOCKED_init, state_main).
THEOREM BoltAndMessageAlwaysAgree == Spec => []BoltAndMessageAgree
PROOF
<1>1. Inv /\ RestInv => BoltAndMessageAgree
  BY AtRestFacts DEF BoltAndMessageAgree
<1> QED BY Invariance, RestInvariance, <1>1, PTL

\* The goal announced last is the one in force, unless it is 0 or none was
\* announced (the block of main.cpp that compares target_weight with its old
\* value).
THEOREM GoalNeverOutdated == Spec => []GoalNotOutdated
PROOF
<1>1. Inv /\ RestInv => GoalNotOutdated
  BY AtRestFacts DEF GoalNotOutdated
<1> QED BY Invariance, RestInvariance, <1>1, PTL

\* The bottom row never calls a locked box unlocked, and says UNLOCKED and
\* nothing else of one that was unlocked with no alarm running, although both
\* threads draw on it through one shared cursor.
THEOREM StatusAlwaysHonest == Spec => []StatusHonest
PROOF
<1>1. Inv /\ RestInv => StatusHonest
  BY AtRestFacts DEF StatusHonest
<1> QED BY Invariance, RestInvariance, <1>1, PTL

-----------------------------------------------------------------------------
\* The bolt and the door.

DoorTypes == door \in BOOLEAN /\ samples \in 0..Enough /\ shortest \in 0..Enough

\* The door is shut and has been seen so once at most; or some position was
\* too short.  A door that is opened from here makes shortest less than two.
JustShut == shortest < Enough \/ (~door /\ samples <= 1)

\* The last sample com_main has taken.
LastSample == IF pc \in {"weight", "door"} THEN door_open ELSE door_open_old

SampleInv ==
  /\ door # LastSample => samples = 0
  /\ pc = "boot" \/ (pc = "poll" /\ old_state = "INIT") => samples = 0
  /\ pc \in {"weight", "door"} /\ door_open_old /\ ~door_open => JustShut

\* The box is about to be locked: it has been started shut, or the door was
\* seen closing in this iteration.
Locking ==
  /\ g_state = "LOCKED" /\ old_state # "LOCKED"
  /\ old_state = "INIT" \/ pc \in {"key", "goal", "state"}

LockingInv ==
  /\ pc \in {"weight", "door"} /\ old_state # "INIT" => g_state = old_state
  /\ Locking \/ Pending(com, Servo("150")) => JustShut
  /\ BoltMeansShut

DoorInv == DoorTypes /\ SampleInv /\ LockingInv

-----------------------------------------------------------------------------
\* The controller with its door is the controller.

LEMMA DoorStep ==
  ASSUME [DoorNext]_allVars PROVE [Next]_vars
BY DEF DoorNext, ProgramStep, DoorMoves, allVars

\* The door adds nothing to what the controller does: every theorem about the
\* controller holds with the door as well.
THEOREM DoorIsController == DoorSpec => Spec
PROOF
<1>1. DoorInit => Init
  BY DEF DoorInit
<1>2. [DoorNext]_allVars => [Next]_vars
  BY DoorStep
<1> QED BY <1>1, <1>2, PTL DEF DoorSpec, Spec

-----------------------------------------------------------------------------
\* Every step keeps DoorInv.

LEMMA InitDoor == DoorInit => DoorInv
PROOF
<1> SUFFICES ASSUME DoorInit PROVE DoorInv
  OBVIOUS
<1>1. door \in BOOLEAN /\ samples = 0 /\ shortest = Enough
  BY DEF DoorInit
<1>2. pc = "boot" /\ g_state = "INIT" /\ servo = "none" /\ com = <<Http("wifi")>>
  BY DEF DoorInit, Init
<1>3. ~Pending(com, Servo("150"))
  BY <1>2 DEF Pending, Http, Servo, Op
<1> QED BY <1>1, <1>2, <1>3 DEF DoorInv, DoorTypes, SampleInv, LockingInv, Locking, BoltMeansShut, Enough

LEMMA MovesKeeps ==
  ASSUME DoorInv, DoorMoves PROVE DoorInv'
PROOF
<1>1. /\ door \in BOOLEAN /\ samples \in 0..2 /\ shortest \in 0..2
      /\ door' = ~door /\ samples' = 0
      /\ shortest' = IF samples < shortest THEN samples ELSE shortest
      /\ door \/ servo # "150"
      /\ UNCHANGED vars
  BY DEF DoorMoves, DoorInv, DoorTypes, Enough
<1>2. UNCHANGED <<pc, com, door_open, door_open_old, g_state, old_state, servo>>
  BY <1>1 DEF vars, locals, statics, lockState, devices
<1>3. DoorTypes'
  BY <1>1 DEF DoorTypes, Enough
<1>4. JustShut => JustShut'
  BY <1>1 DEF JustShut, Enough
<1>5. SampleInv'
  BY <1>1, <1>2, <1>4 DEF DoorInv, SampleInv
<1>6. BoltMeansShut'
  BY <1>1, <1>2 DEF DoorInv, LockingInv, BoltMeansShut
<1>7. LockingInv'
  BY <1>2, <1>4, <1>6 DEF DoorInv, LockingInv, Locking, Pending
<1> QED BY <1>3, <1>5, <1>7 DEF DoorInv

\* A step that neither samples the door nor begins or ends a block.
LEMMA WithinKeeps ==
  ASSUME DoorInv, UNCHANGED <<pc, door_open, door_open_old, g_state, old_state, door, samples, shortest>>,
         Pending(com', Servo("150")) => Pending(com, Servo("150")),
         servo' = servo \/ servo' # "150" \/ Pending(com, Servo("150"))
  PROVE  DoorInv'
PROOF
<1>1. DoorTypes' /\ SampleInv' /\ (JustShut <=> JustShut')
  BY DEF DoorInv, DoorTypes, SampleInv, LastSample, JustShut
<1>2. BoltMeansShut'
  <2>1. CASE servo' = "150" /\ servo # "150"
    <3>1. JustShut
      BY <2>1 DEF DoorInv, LockingInv
    <3> QED BY <3>1 DEF DoorInv, DoorTypes, JustShut, BoltMeansShut, Enough
  <2>2. CASE servo' = servo \/ servo' # "150"
    BY <2>2 DEF DoorInv, LockingInv, BoltMeansShut
  <2> QED BY <2>1, <2>2
<1>3. LockingInv'
  BY <1>1, <1>2 DEF DoorInv, LockingInv, Locking
<1> QED BY <1>1, <1>3 DEF DoorInv

\* A step of the program that is no sample leaves the door's variables alone.
LEMMA StepFacts ==
  ASSUME Inv, RestInv, ProgramStep
  PROVE  /\ UNCHANGED <<door, shortest>>
         /\ ~(pc = "poll" /\ pc' = "weight") => samples' = samples
         /\ ComBlock => com = <<>> /\ servo' = servo
PROOF
<1>1. ComBlock => com = <<>> /\ servo' = servo
  BY BlocksEffect DEF BlockEffect, devices
<1> QED BY <1>1 DEF ProgramStep, Sampling

LEMMA BootDoor ==
  ASSUME Inv, RestInv, DoorInv, ProgramStep, Boot PROVE DoorInv'
PROOF
<1>1. /\ pc = "boot" /\ pc' = "poll" /\ servo' = servo
      /\ UNCHANGED <<door, samples, shortest, door_open_old, old_state>>
      /\ g_state' = IF door_open' THEN "UNLOCKED" ELSE "LOCKED"
      /\ door_open' = door
  BY StepFacts DEF Boot, At, ComBlock, statics, ProgramStep
<1>2. samples = 0 /\ old_state = "INIT"
  BY <1>1 DEF DoorInv, SampleInv, RestInv, ScriptInv
<1>3. ~Pending(com', Servo("150"))
  BY <1>1, NoServo DEF ComBlock, StateBlock, At
<1>4. DoorTypes' /\ SampleInv'
  BY <1>1, <1>2 DEF DoorInv, DoorTypes, SampleInv, LastSample
<1>5. BoltMeansShut'
  BY <1>1 DEF DoorInv, LockingInv, BoltMeansShut
<1>6. LockingInv'
  BY <1>1, <1>2, <1>3, <1>5 DEF LockingInv, Locking, JustShut
<1> QED BY <1>4, <1>6 DEF DoorInv

\* The first sample of a door that has closed since the last one.
LEMMA PollDoor ==
  ASSUME Inv, RestInv, DoorInv, ProgramStep, Poll PROVE DoorInv'
PROOF
<1>1. /\ pc = "poll" /\ pc' = "weight" /\ servo' = servo
      /\ UNCHANGED <<door, shortest, door_open_old, g_state, old_state>>
      /\ door_open' = door
      /\ samples' = IF samples < Enough THEN samples + 1 ELSE samples
      /\ door \in BOOLEAN /\ samples \in 0..2 /\ shortest \in 0..2
      /\ door_open_old \in BOOLEAN
  BY StepFacts DEF Poll, At, ComBlock, statics, lockState, ProgramStep, Sampling, DoorInv,
                   DoorTypes, Enough, Inv, ComTypes
<1>2. samples = 0 => samples' = 1
  BY <1>1 DEF Enough
<1>3. ~Pending(com', Servo("150"))
  BY <1>1, NoServo DEF ComBlock, StateBlock, At
<1>4. DoorTypes'
  BY <1>1 DEF DoorTypes, Enough
<1>5. ASSUME door_open_old, ~door PROVE JustShut'
  <2>1. samples = 0
    BY <1>1, <1>5 DEF DoorInv, SampleInv, LastSample
  <2> QED BY <1>1, <1>2, <1>5, <2>1 DEF JustShut
<1>6. SampleInv'
  BY <1>1, <1>5 DEF SampleInv, LastSample
<1>7. BoltMeansShut'
  BY <1>1 DEF DoorInv, LockingInv, BoltMeansShut
<1>8. ASSUME Locking' PROVE JustShut'
  <2>1. Locking /\ old_state = "INIT"
    BY <1>1, <1>8 DEF Locking
  <2>2. JustShut /\ samples = 0
    BY <1>1, <2>1 DEF DoorInv, LockingInv, SampleInv
  <2> QED BY <1>1, <1>2, <2>2 DEF JustShut
<1>9. old_state # "INIT" => g_state = old_state
  BY <1>1 DEF RestInv, BoltInv
<1> QED BY <1>1, <1>3, <1>4, <1>6, <1>7, <1>8, <1>9 DEF DoorInv, LockingInv

\* The block that sees the door close (main.cpp:186).
LEMMA DoorBlockDoor ==
  ASSUME Inv, RestInv, DoorInv, ProgramStep, DoorBlock PROVE DoorInv'
PROOF
<1>1. /\ pc = "door" /\ pc' = "key" /\ servo' = servo
      /\ UNCHANGED <<door, samples, shortest, old_state>>
      /\ door_open_old' = door_open
      /\ g_state' = IF door_open_old /\ ~door_open THEN "LOCKED" ELSE g_state
  BY StepFacts DEF DoorBlock, At, ComBlock
<1>2. ~Pending(com', Servo("150"))
  BY <1>1, NoServo DEF ComBlock, StateBlock, At
<1>3. DoorTypes' /\ SampleInv' /\ (JustShut' <=> JustShut)
  BY <1>1 DEF DoorInv, DoorTypes, SampleInv, LastSample, JustShut
<1>4. BoltMeansShut'
  BY <1>1 DEF DoorInv, LockingInv, BoltMeansShut
<1>5. ASSUME Locking' PROVE JustShut
  <2>1. CASE door_open_old /\ ~door_open
    BY <1>1, <2>1 DEF DoorInv, SampleInv
  <2>2. CASE ~(door_open_old /\ ~door_open)
    <3>1. Locking
      BY <1>1, <1>5, <2>2 DEF Locking, DoorInv, LockingInv
    <3> QED BY <3>1 DEF DoorInv, LockingInv
  <2> QED BY <2>1, <2>2
<1>6. LockingInv'
  BY <1>1, <1>2, <1>3, <1>4, <1>5 DEF LockingInv
<1> QED BY <1>3, <1>6 DEF DoorInv

LEMMA OtherBlocksDoor ==
  ASSUME Inv, RestInv, DoorInv, ProgramStep,
         WeightBlock \/ KeyIgnored \/ KeyEdit \/ KeyGoal \/ KeyAttempt \/ GoalBlock
  PROVE  DoorInv'
PROOF
<1>1. /\ UNCHANGED <<door, shortest, door_open, door_open_old, old_state, servo>>
      /\ <<pc, pc'>> \in {<<"weight", "door">>, <<"key", "goal">>, <<"goal", "state">>}
      /\ g_state' = g_state \/ (g_state' = "UNLOCKED" /\ pc = "key")
  BY StepFacts DEF WeightBlock, KeyIgnored, KeyEdit, KeyGoal, KeyAttempt, GoalBlock, KeyUnchanged, At,
                   ComBlock, locals, statics, lockState
<1>2. samples' = samples
  BY <1>1, StepFacts
<1>3. ~Pending(com', Servo("150"))
  BY <1>1, NoServo DEF ComBlock, StateBlock, At
<1>4. JustShut' <=> JustShut
  BY <1>1, <1>2 DEF JustShut
<1>5. DoorTypes' /\ SampleInv'
  BY <1>1, <1>2, <1>4 DEF DoorInv, DoorTypes, SampleInv, LastSample
<1>6. BoltMeansShut'
  BY <1>1 DEF DoorInv, LockingInv, BoltMeansShut
<1>7. Locking' => Locking
  BY <1>1 DEF Locking
<1>8. LockingInv'
  BY <1>1, <1>3, <1>4, <1>6, <1>7 DEF DoorInv, LockingInv
<1> QED BY <1>5, <1>8 DEF DoorInv

LEMMA StateDoor ==
  ASSUME Inv, RestInv, DoorInv, ProgramStep, StateBlock PROVE DoorInv'
PROOF
<1>1. /\ pc = "state" /\ pc' = "poll" /\ servo' = servo
      /\ UNCHANGED <<door, samples, shortest, door_open, door_open_old, g_state>>
      /\ g_state \in {"LOCKED", "UNLOCKED"}
  BY StepFacts DEF StateBlock, At, ComBlock, locals, statics, Inv, ThreadInv, ComTypes
<1>2. old_state' = g_state
  BY <1>1 DEF Inv, ComTypes, StateBlock, next_state, Successors
<1>3. JustShut' <=> JustShut
  BY <1>1 DEF JustShut
<1>4. DoorTypes' /\ SampleInv'
  BY <1>1, <1>2 DEF DoorInv, DoorTypes, SampleInv, LastSample
<1>5. BoltMeansShut'
  BY <1>1 DEF DoorInv, LockingInv, BoltMeansShut
<1>6. ASSUME Pending(com', Servo("150")) PROVE JustShut
  <2>1. com' \in Seq(ModeOps(g_state))
    BY <1>2, StateKeeps DEF RestInv, ScriptInv
  <2>2. Servo("150") \in ModeOps(g_state)
    BY <1>6, <2>1 DEF Pending
  <2>3. g_state = "LOCKED"
    BY <1>1, <2>2 DEF ModeOps, Servo, Op, Box!Angle
  <2>4. com' # <<>>
    BY <1>6 DEF Pending
  <2>5. old_state # g_state
    BY <2>4 DEF StateBlock
  <2> QED BY <1>1, <2>3, <2>5 DEF DoorInv, LockingInv, Locking
<1>7. ~Locking'
  BY <1>1, <1>2 DEF Locking
<1>8. LockingInv'
  BY <1>1, <1>3, <1>5, <1>6, <1>7 DEF LockingInv
<1> QED BY <1>4, <1>8 DEF DoorInv

LEMMA ComDoor ==
  ASSUME Inv, RestInv, DoorInv, ProgramStep, ComWrite \/ ComAttach \/ ComRequest PROVE DoorInv'
PROOF
<1>1. /\ UNCHANGED <<pc, door_open, door_open_old, g_state, old_state, door, shortest>>
      /\ com # <<>> /\ com' = Tail(com) /\ com \in Seq(ModeOps(old_state))
  BY StepFacts DEF ComWrite, ComAttach, ComRequest, locals, statics, lockState, RestInv, ScriptInv
<1>2. samples' = samples
  BY <1>1, StepFacts
<1>3. Pending(com', Servo("150")) => Pending(com, Servo("150"))
  <2>1. /\ Len(com') = Len(com) - 1 /\ Len(com) \in Nat
        /\ \A k \in 1..Len(com') : com'[k] = com[k + 1]
    BY <1>1
  <2> QED BY <2>1 DEF Pending
<1>4. servo' = servo \/ servo' # "150" \/ Pending(com, Servo("150"))
  <2>1. CASE ComAttach \/ ComRequest
    BY <2>1 DEF ComAttach, ComRequest, devices
  <2>2. CASE ComWrite
    <3>1. Head(com) \in ModeOps(old_state) /\ Head(com) = com[1] /\ 1 \in 1..Len(com)
      BY <1>1
    <3>2. Head(com) \in Ops
      BY <3>1 DEF ModeOps
    <3>3. servo' = servo \/ (Head(com).op = "servo" /\ servo' = Head(com).arg)
      BY <2>2, <3>2, WriteEffect DEF ComWrite, Inv
    <3>4. Head(com).op = "servo" /\ Head(com).arg = "150" => Head(com) = Servo("150")
      BY <3>2, OpArgs DEF Servo, Op
    <3> QED BY <3>1, <3>3, <3>4 DEF Pending
  <2> QED BY <2>1, <2>2
<1> QED BY <1>1, <1>2, <1>3, <1>4, WithinKeeps

LEMMA EventDoor ==
  ASSUME Inv, RestInv, DoorInv, ProgramStep, Tick \/ Expire \/ Dispatch \/ EvWrite PROVE DoorInv'
PROOF
<1>1. /\ UNCHANGED <<pc, com, door_open, door_open_old, g_state, old_state, door, shortest>>
  BY StepFacts DEF Tick, Expire, Dispatch, EvWrite, locals, statics, lockState
<1>2. samples' = samples
  BY <1>1, StepFacts
<1>3. servo' = servo
  <2>1. CASE Tick \/ Expire \/ Dispatch
    BY <2>1 DEF Tick, Expire, Dispatch, devices
  <2>2. CASE EvWrite
    <3>1. ev # <<>> /\ WriteOrLose(Head(ev)) /\ ev \in Seq(EvOps)
      BY <2>2 DEF EvWrite, Inv, ThreadInv
    <3>2. Head(ev) \in Ops /\ Head(ev).op # "servo"
      BY <3>1 DEF EvOps
    <3> QED BY <3>1, <3>2, WriteEffect DEF Inv
  <2> QED BY <2>1, <2>2
<1> QED BY <1>1, <1>2, <1>3, WithinKeeps DEF Pending

LEMMA NextDoor ==
  ASSUME Inv, RestInv, DoorInv, [DoorNext]_allVars PROVE DoorInv'
PROOF
<1>1. CASE UNCHANGED allVars
  <2>1. UNCHANGED <<pc, com, door_open, door_open_old, g_state, old_state, servo, door, samples,
                    shortest>>
    BY <1>1 DEF allVars, doorVars, vars, locals, statics, lockState, devices
  <2> QED BY <2>1, WithinKeeps DEF Pending
<1>2. CASE ProgramStep
  BY <1>2, BootDoor, PollDoor, DoorBlockDoor, OtherBlocksDoor, StateDoor, ComDoor, EventDoor
     DEF ProgramStep, Next, Step, ComBlock
<1>3. CASE DoorMoves
  BY <1>3, MovesKeeps
<1> QED BY <1>1, <1>2, <1>3 DEF DoorNext

\* The bolt is never thrown into the open: when each position of the door was
\* sampled twice, a thrown bolt means that the door is shut, however the door
\* moves while com_main is busy with requests.
THEOREM BoltAlwaysMeansShut == DoorSpec => []BoltMeansShut
PROOF
<1>1. Inv /\ RestInv /\ DoorInv /\ [DoorNext]_allVars => DoorInv'
  BY NextDoor
<1>2. DoorInv => BoltMeansShut
  BY DEF DoorInv, LockingInv
<1> QED BY InitDoor, <1>1, <1>2, DoorIsController, Invariance, RestInvariance, PTL DEF DoorSpec
=============================================================================
