----------------------------- MODULE Controller -----------------------------
(***************************************************************************)
(* The running program of src/main.cpp: the com_main thread, which polls   *)
(* door, scale and keys and drives the lock, and the event thread, which   *)
(* stops the alarm five seconds after a failed attempt.                    *)
(*                                                                         *)
(* Both threads talk to the same devices.  One I2C write is atomic (the    *)
(* driver holds a mutex), a command made of several writes is not: each    *)
(* thread has a sequence of writes, requests and timer calls it still has  *)
(* to make, carries out the head of it, and goes on with its code when the *)
(* sequence is empty.  State that only com_main touches is updated with    *)
(* the block of code that assigns it.                                      *)
(***************************************************************************)
EXTENDS Integers, Sequences, StateMachine

CONSTANTS
  Readings,        \* what get_weight() may return: [stable, weight]
  KeyEvents,       \* what the keypad may do in one poll, see Key
  Goals,           \* goals that can be typed
  InitialTarget,   \* 100 in the program
  AlarmTicks,      \* ticks between attach() and the timeout (five seconds)
  QueueCapacity,   \* events the queue has memory for (about 32)
  Prompt,          \* the event thread carries out a stop within AlarmTicks
  Faulty           \* devices that may lose a write without anyone noticing

Device == {"servo", "kaiten", "led"}

\* get_weight() and get_key(): a failed read leaves arbitrary data, which is
\* no more than the devices can deliver anyway.
get_weight == Readings
get_key == KeyEvents

\* One poll of the keypad: nothing pushed; a character, '#' or '*' with a
\* new password; '*' with a new goal; '*' with the right or a wrong password.
\* Keypad.tla says which keys lead to which.
Key == {"none", "edit", "goal", "match", "mismatch"}

ASSUME InputsAssumption ==
  /\ Readings \subseteq [stable : {"start", "determined", "initial"}, weight : Int]
  /\ KeyEvents \subseteq Key
  /\ Goals \subseteq Int
  /\ InitialTarget \in Int
ASSUME TimerAssumption ==
  /\ AlarmTicks \in Nat \ {0}
  /\ QueueCapacity \in Nat \ {0}
  /\ Prompt \in BOOLEAN
ASSUME FaultyAssumption == Faulty \subseteq Device

VARIABLES
  \* com_main
  pc,                 \* the block it runs next
  com,                \* what it still has to do before that
  door_open, weights, key,                              \* sampled by the poll
  weights_old, door_open_old, target_weight_old,        \* static variables
  target_weight, g_state, old_state,
  \* the event thread and the timer
  ev,                 \* what kaiten_stop still has to do
  timer,              \* ticks until the timeout; 0 when not armed
  held,               \* timeout1 has an event to post
  posted,             \* kaiten_stop events in the queue
  pool,               \* events allocated from the queue's memory
  halted,             \* an assertion has failed
  \* devices
  servo, duty, lamp,
  cursor,             \* row of the panel the next text goes to
  status,             \* texts drawn over one another on the bottom row
  \* history
  told,               \* last of NotifyLocked and NotifyUnlocked requested
  announced,          \* goal in the last NotifyChangeTarget; 0 before any
  crossed             \* UNLOCKED was entered with an alarm still running

locals  == <<door_open, weights, key>>
statics == <<weights_old, door_open_old, target_weight_old>>
lockState == <<g_state, old_state>>
evTimer == <<ev, timer, held, posted, pool, halted>>
devices == <<servo, duty, lamp, cursor, status>>
history == <<told, announced, crossed>>
vars == <<pc, com, locals, statics, target_weight, lockState, evTimer, devices, history>>

-----------------------------------------------------------------------------
\* What a thread can have to do.

Op(op, arg) == [op |-> op, arg |-> arg]

Servo(angle) == Op("servo", angle)
Kaiten(d)    == Op("kaiten", d)
Lamp(l)      == Op("lamp", l)
Clear(row)   == Op("clear", row)
Cursor(row)  == Op("cursor", row)
Text(text)   == Op("text", text)
Http(name)   == Op("http", name)
Attach       == Op("attach", "kaiten_stop")

\* Rows of the panel, top to bottom, and what is below it.
Row == {"goal", "now", "pass", "status", "below"}
RowBelow == [goal |-> "now", now |-> "pass", pass |-> "status",
             status |-> "below", below |-> "below"]
StatusTexts == {"LOCKED", "UNLOCKED", "INCORRECT", "INITIAL", "DO_DIET"}
Texts == StatusTexts \cup {"GOAL", "NOW", "PASS"}
Requests == {"wifi", "ChannelUpdate", "NotifyDietAchieved", "NotifyDietNotAchieved",
             "NotifyUnlockFailedInvalidPass", "NotifyUnlockFailedDoDiet",
             "NotifyChangeTarget", "NotifyLocked", "NotifyUnlocked"}

Ops ==
  {Servo(a) : a \in {"150", "70"}} \cup {Kaiten(d) : d \in {"50", "0"}}
    \cup {Lamp(l) : l \in {"on", "off"}} \cup {Clear(r) : r \in Row}
    \cup {Cursor(r) : r \in Row} \cup {Text(t) : t \in Texts}
    \cup {Http(n) : n \in Requests} \cup {Attach}

cmd_kaiten_lamp(d, l) == <<Kaiten(d), Lamp(l)>>

\* cmd_set_line(row), cmd_set_text_color() and cmd_print_text(): three
\* writes that matter, the colour being always the same.
Show(row, text) == <<Clear(row), Cursor(row), Text(text)>>

\* The device of an operation; "none" for a request or the timer.
DeviceOf(op) ==
  CASE op.op = "servo" -> "servo"
    [] op.op \in {"kaiten", "lamp"} -> "kaiten"
    [] op.op \in {"clear", "cursor", "text"} -> "led"
    [] OTHER -> "none"

\* One write to a device.  cmd_print_text() draws over what is there and its
\* '\n' moves the cursor a row down.
Write(op) ==
  /\ servo' = IF op.op = "servo" THEN op.arg ELSE servo
  /\ duty'  = IF op.op = "kaiten" THEN op.arg ELSE duty
  /\ lamp'  = IF op.op = "lamp" THEN op.arg ELSE lamp
  /\ cursor' = CASE op.op = "cursor" -> op.arg
                 [] op.op = "text" -> RowBelow[cursor]
                 [] OTHER -> cursor
  /\ status' = CASE op = Clear("status") -> {}
                 [] op.op = "text" /\ cursor = "status" -> status \cup {op.arg}
                 [] OTHER -> status

\* The return code of master.write() is ignored everywhere.
WriteOrLose(op) ==
  \/ Write(op)
  \/ DeviceOf(op) \in Faulty /\ UNCHANGED devices

-----------------------------------------------------------------------------
\* The code of the blocks, as the operations it leads to.

\* Mutant: kaiten_stop() stops the motor and forgets the lamp.
kaiten_stopMotorOnly == <<Kaiten("0")>> \o Show("status", "LOCKED")

kaiten_stop == cmd_kaiten_lamp("0", "off") \o Show("status", "LOCKED")

\* Mutant: the timer is armed before the light is switched on.
unlock_failedTimerFirst(pattern) ==
  <<Attach>> \o cmd_kaiten_lamp("50", "on") \o Show("status", pattern)

\* unlock_failed(pattern); a pattern is named by its text.
unlock_failed(pattern) ==
  cmd_kaiten_lamp("50", "on") \o <<Attach>> \o Show("status", pattern)
    \o (CASE pattern = "INCORRECT" -> <<Http("NotifyUnlockFailedInvalidPass")>>
          [] pattern = "DO_DIET"   -> <<Http("NotifyUnlockFailedDoDiet")>>
          [] OTHER                 -> <<>>)

\* Mutant: LOCKED_init() without the servo command.
LOCKED_initNoServo ==
  cmd_kaiten_lamp("0", "off") \o Show("status", "LOCKED") \o <<Http("NotifyLocked")>>

LOCKED_init ==
  cmd_kaiten_lamp("0", "off") \o <<Servo("150")>>
    \o Show("status", "LOCKED") \o <<Http("NotifyLocked")>>

\* Mutant: the row is not cleared before UNLOCKED is printed on it.
UNLOCKED_initNoClear ==
  <<Servo("70"), Cursor("status"), Text("UNLOCKED"), Http("NotifyUnlocked")>>

UNLOCKED_init ==
  <<Servo("70")>> \o Show("status", "UNLOCKED") \o <<Http("NotifyUnlocked")>>

\* The init functions of the table in main.cpp; INIT and SETTING only print
\* to the console, and so do all do and end functions.
init_func(state) ==
  CASE state = "LOCKED"   -> LOCKED_init
    [] state = "UNLOCKED" -> UNLOCKED_init
    [] OTHER              -> <<>>

AlarmRunning == timer > 0 \/ posted > 0 \/ ev # <<>>

Init ==
  /\ pc = "boot"
  /\ com = <<Http("wifi")>>
  /\ door_open = FALSE
  /\ weights \in Readings
  /\ key = "none"
  /\ weights_old = [stable |-> "start", weight |-> 0]
  /\ door_open_old = FALSE
  /\ target_weight_old = 0
  /\ target_weight = InitialTarget
  /\ g_state = "INIT" /\ old_state = "INIT"
  /\ ev = <<>> /\ timer = 0 /\ held = FALSE /\ posted = 0 /\ pool = 0 /\ halted = FALSE
  /\ servo = "none" /\ duty = "0" /\ lamp = "off"
  /\ cursor = "goal" /\ status = {}
  /\ told = "none" /\ announced = 0 /\ crossed = FALSE

\* com_main reaches a block when it has nothing left to do for the last one.
At(block, next) ==
  /\ pc = block
  /\ com = <<>>
  /\ pc' = next

Boot ==
  /\ At("boot", "poll")
  /\ door_open' \in BOOLEAN
  /\ g_state' = IF door_open' THEN "UNLOCKED" ELSE "LOCKED"
  /\ com' = Show("pass", "PASS")
  /\ UNCHANGED <<weights, key, statics, target_weight, old_state, evTimer, devices, history>>

\* The top of the loop: the door switch, the scale and the keys are sampled.
Poll ==
  /\ At("poll", "weight")
  /\ door_open' \in BOOLEAN
  /\ weights' \in get_weight
  /\ key' \in get_key
  /\ UNCHANGED <<com, statics, target_weight, lockState, evTimer, devices, history>>

WeightBlock ==
  /\ At("weight", "door")
  /\ com' = IF weights.stable = weights_old.stable THEN <<>>
            ELSE Show("now", "NOW") \o
                 (IF weights.stable # "determined" THEN <<>>
                  ELSE <<Http("ChannelUpdate"),
                         Http(IF weights.weight < target_weight
                              THEN "NotifyDietAchieved" ELSE "NotifyDietNotAchieved")>>)
  /\ weights_old' = weights
  /\ UNCHANGED <<locals, door_open_old, target_weight_old, target_weight, lockState,
                 evTimer, devices, history>>

\* Mutant: a closed door locks, not only a closing one.
DoorBlockLevel ==
  /\ At("door", "key")
  /\ com' = IF door_open = door_open_old THEN <<>>
            ELSE <<Lamp(IF door_open THEN "on" ELSE "off")>>
  /\ g_state' = IF ~door_open THEN "LOCKED" ELSE g_state
  /\ door_open_old' = door_open
  /\ UNCHANGED <<locals, weights_old, target_weight_old, target_weight, old_state,
                 evTimer, devices, history>>

\* Mutant: an opening door locks as well.
DoorBlockAnyChange ==
  /\ At("door", "key")
  /\ com' = IF door_open = door_open_old THEN <<>>
            ELSE <<Lamp(IF door_open THEN "on" ELSE "off")>>
  /\ g_state' = IF door_open_old # door_open THEN "LOCKED" ELSE g_state
  /\ door_open_old' = door_open
  /\ UNCHANGED <<locals, weights_old, target_weight_old, target_weight, old_state,
                 evTimer, devices, history>>

\* Mutant: an open door is never remembered.
DoorBlockForgets ==
  /\ At("door", "key")
  /\ com' = IF door_open = door_open_old THEN <<>>
            ELSE <<Lamp(IF door_open THEN "on" ELSE "off")>>
  /\ g_state' = IF door_open_old /\ ~door_open THEN "LOCKED" ELSE g_state
  /\ door_open_old' = (door_open_old /\ door_open)
  /\ UNCHANGED <<locals, weights_old, target_weight_old, target_weight, old_state,
                 evTimer, devices, history>>

DoorBlock ==
  /\ At("door", "key")
  /\ com' = IF door_open = door_open_old THEN <<>>
            ELSE <<Lamp(IF door_open THEN "on" ELSE "off")>>
  /\ g_state' = IF door_open_old /\ ~door_open THEN "LOCKED" ELSE g_state
  /\ door_open_old' = door_open
  /\ UNCHANGED <<locals, weights_old, target_weight_old, target_weight, old_state,
                 evTimer, devices, history>>

\* keypadEvent() and what follows it for the state; every push ends with the
\* guess being shown.
KeyUnchanged == <<locals, statics, old_state, evTimer, devices, history>>

KeyIgnored ==
  /\ At("key", "goal")
  /\ g_state # "LOCKED" \/ key = "none"
  /\ UNCHANGED <<com, g_state, target_weight, KeyUnchanged>>

KeyEdit ==
  /\ At("key", "goal")
  /\ g_state = "LOCKED" /\ key = "edit"
  /\ com' = Show("pass", "PASS")
  /\ UNCHANGED <<g_state, target_weight, KeyUnchanged>>

KeyGoal ==
  /\ At("key", "goal")
  /\ g_state = "LOCKED" /\ key = "goal"
  /\ target_weight' \in Goals
  /\ com' = Show("pass", "PASS")
  /\ UNCHANGED <<g_state, KeyUnchanged>>

\* checkPassword(): why the attempt fails, or "none".
Failure ==
  IF key = "mismatch" THEN "INCORRECT"
  ELSE IF weights.stable = "initial" THEN "INITIAL"
  ELSE IF weights.weight < target_weight THEN "none"
  ELSE "DO_DIET"

KeyAttempt ==
  /\ At("key", "goal")
  /\ g_state = "LOCKED" /\ key \in {"match", "mismatch"}
  /\ IF Failure = "none"
     THEN g_state' = "UNLOCKED" /\ com' = Show("pass", "PASS")
     ELSE g_state' = g_state /\ com' = unlock_failed(Failure) \o Show("pass", "PASS")
  /\ UNCHANGED <<target_weight, KeyUnchanged>>

\* Mutant: only a goal that was raised is announced.
GoalBlockRaised ==
  /\ At("goal", "state")
  /\ com' = IF target_weight = target_weight_old THEN <<>>
            ELSE Show("goal", "GOAL") \o
                 (IF target_weight_old = 0 \/ target_weight < target_weight_old THEN <<>>
                  ELSE <<Http("NotifyChangeTarget")>>)
  /\ target_weight_old' = target_weight
  /\ UNCHANGED <<locals, weights_old, door_open_old, target_weight, lockState,
                 evTimer, devices, history>>

\* target_weight_int: the goal is a float without a fraction, so that int is
\* exact, but for 2147483648.0, which is announced as 2147483647.
GoalBlock ==
  /\ At("goal", "state")
  /\ com' = IF target_weight = target_weight_old THEN <<>>
            ELSE Show("goal", "GOAL") \o
                 (IF target_weight_old = 0 THEN <<>> ELSE <<Http("NotifyChangeTarget")>>)
  /\ target_weight_old' = target_weight
  /\ UNCHANGED <<locals, weights_old, door_open_old, target_weight, lockState,
                 evTimer, devices, history>>

\* state_main(), and the wait that ends the iteration.
StateBlock ==
  /\ At("state", "poll")
  /\ old_state' = next_state(old_state, g_state)
  /\ com' = IF old_state = g_state THEN <<>> ELSE init_func(old_state')
  /\ crossed' = IF old_state = g_state THEN crossed
                ELSE old_state' = "UNLOCKED" /\ AlarmRunning
  /\ UNCHANGED <<locals, statics, target_weight, g_state, evTimer, devices, told, announced>>

\* com_main makes its next write.
ComWrite ==
  /\ com # <<>> /\ DeviceOf(Head(com)) # "none"
  /\ WriteOrLose(Head(com))
  /\ com' = Tail(com)
  /\ UNCHANGED <<pc, locals, statics, target_weight, lockState, evTimer, history>>

\* Mutant: the event of a timer that is armed again is never given back.
ComAttachLeaks ==
  /\ com # <<>> /\ Head(com) = Attach
  /\ timer' = AlarmTicks
  /\ held' = (pool < QueueCapacity)
  /\ pool' = IF pool < QueueCapacity THEN pool + 1 ELSE pool
  /\ com' = Tail(com)
  /\ UNCHANGED <<pc, locals, statics, target_weight, lockState, ev, posted, halted,
                 devices, history>>

\* timeout1.attach(queue.event(...)): queue.event() takes memory for the new
\* event, if there is any, before attach() gives back the one of a timer that
\* is still running; such a timer starts again.
ComAttach ==
  /\ com # <<>> /\ Head(com) = Attach
  /\ timer' = AlarmTicks
  /\ held' = (pool < QueueCapacity)
  /\ pool' = pool + (IF pool < QueueCapacity THEN 1 ELSE 0) - (IF held THEN 1 ELSE 0)
  /\ com' = Tail(com)
  /\ UNCHANGED <<pc, locals, statics, target_weight, lockState, ev, posted, halted,
                 devices, history>>

\* A request ends, with an answer or without; it may also never end.
ComRequest ==
  /\ com # <<>> /\ Head(com).op = "http"
  /\ told' = IF Head(com).arg \in {"NotifyLocked", "NotifyUnlocked"}
             THEN Head(com).arg ELSE told
  /\ announced' = IF Head(com).arg = "NotifyChangeTarget" THEN target_weight ELSE announced
  /\ com' = Tail(com)
  /\ UNCHANGED <<pc, locals, statics, target_weight, lockState, evTimer, devices, crossed>>

Tick ==
  /\ timer > 1
  /\ timer' = timer - 1
  /\ UNCHANGED <<pc, com, locals, statics, target_weight, lockState, ev, held, posted,
                 pool, halted, devices, history>>

\* Mutant: events are posted whether there is memory for them or not.
ExpireUnchecked ==
  /\ timer = 1
  /\ Prompt => posted = 0 /\ ev = <<>>
  /\ timer' = 0
  /\ held' = FALSE
  /\ posted' = posted + 1
  /\ UNCHANGED <<pc, com, locals, statics, target_weight, lockState, ev, pool, halted,
                 devices, history>>

\* The timeout: the handler posts a copy of the event and drops its own.  When
\* there is no event or no memory for the copy, Event::call() asserts.
Expire ==
  /\ timer = 1
  /\ Prompt => posted = 0 /\ ev = <<>>
  /\ timer' = 0
  /\ IF held /\ pool < QueueCapacity
     THEN posted' = posted + 1 /\ held' = FALSE /\ UNCHANGED <<pool, halted>>
     ELSE halted' = TRUE /\ UNCHANGED <<posted, held, pool>>
  /\ UNCHANGED <<pc, com, locals, statics, target_weight, lockState, ev, devices, history>>

\* The event thread takes an event off the queue ...
Dispatch ==
  /\ ev = <<>> /\ posted > 0
  /\ posted' = posted - 1
  /\ ev' = kaiten_stop
  /\ UNCHANGED <<pc, com, locals, statics, target_weight, lockState, timer, held, pool,
                 halted, devices, history>>

\* ... carries it out, and then gives its memory back.
EvWrite ==
  /\ ev # <<>>
  /\ WriteOrLose(Head(ev))
  /\ ev' = Tail(ev)
  /\ pool' = IF ev' = <<>> THEN pool - 1 ELSE pool
  /\ UNCHANGED <<pc, com, locals, statics, target_weight, lockState, timer, held, posted,
                 halted, history>>

ComBlock ==
  \/ Boot \/ Poll \/ WeightBlock \/ DoorBlock
  \/ KeyIgnored \/ KeyEdit \/ KeyGoal \/ KeyAttempt
  \/ GoalBlock \/ StateBlock

Step ==
  \/ ComBlock \/ ComWrite \/ ComAttach \/ ComRequest
  \/ Tick \/ Expire \/ Dispatch \/ EvWrite

\* mbed_die() stops both threads.
Next == ~halted /\ Step

Spec == Init /\ [][Next]_vars

\* The scheduler runs both threads and time passes; a request need not end.
Fairness ==
  /\ WF_vars(~halted /\ ComBlock) /\ WF_vars(~halted /\ ComWrite)
  /\ WF_vars(~halted /\ ComAttach) /\ WF_vars(~halted /\ Tick)
  /\ WF_vars(~halted /\ Expire) /\ WF_vars(~halted /\ Dispatch)
  /\ WF_vars(~halted /\ EvWrite)

\* The network answers or gives up.
NetworkFairness == WF_vars(~halted /\ ComRequest)

-----------------------------------------------------------------------------

TypeOK ==
  /\ pc \in {"boot", "poll", "weight", "door", "key", "goal", "state"}
  /\ com \in Seq(Ops) /\ ev \in Seq(Ops)
  /\ door_open \in BOOLEAN /\ door_open_old \in BOOLEAN
  /\ weights \in Readings
  /\ weights_old \in Readings \cup {[stable |-> "start", weight |-> 0]}
  /\ key \in KeyEvents \cup {"none"}
  /\ target_weight \in Int /\ target_weight_old \in Int
  /\ g_state \in {"INIT", "LOCKED", "UNLOCKED"}
  /\ old_state \in {"INIT", "LOCKED", "UNLOCKED"}
  /\ timer \in 0..AlarmTicks /\ held \in BOOLEAN
  /\ posted \in 0..QueueCapacity /\ pool \in 0..QueueCapacity /\ halted \in BOOLEAN
  /\ servo \in {"none", "150", "70"} /\ duty \in {"50", "0"} /\ lamp \in {"on", "off"}
  /\ cursor \in Row /\ status \subseteq Texts
  /\ told \in {"none", "NotifyLocked", "NotifyUnlocked"}
  /\ announced \in Int /\ crossed \in BOOLEAN

Pending(thread, op) == \E i \in 1..Len(thread) : thread[i] = op

\* The spinning light is never left on: while it turns, the timer is armed,
\* the event is queued, or one of the threads is about to stop it or to arm
\* the timer.  A timer restarted by another failed attempt, several events in
\* the queue and a stop that overtakes the next attempt are covered.
AlarmHasStopper ==
  "kaiten" \notin Faulty /\ ~halted /\ duty = "50" =>
     \/ timer > 0 \/ posted > 0
     \/ Pending(ev, Kaiten("0")) \/ Pending(com, Kaiten("0"))
     \/ Pending(com, Attach)

\* The memory of the queue, event by event: one for each event posted, being
\* carried out, or held by the timer.
PoolAccounted ==
  /\ held /\ ~halted => timer > 0
  /\ pool = posted + (IF ev # <<>> THEN 1 ELSE 0) + (IF held THEN 1 ELSE 0)

\* If the event thread is prompt, memory for three events is enough for the
\* assertion in Event::call() never to fail, however often attempts fail
\* while a timer is running or a stop is under way.
NeverHalts == Prompt /\ QueueCapacity >= 3 => ~halted

\* The lamp, which the door and the alarm share, is on only for one of them.
LampHasReason ==
  "kaiten" \notin Faulty /\ ~halted /\ lamp = "on" =>
     \/ door_open_old
     \/ timer > 0 \/ posted > 0
     \/ Pending(ev, Lamp("off")) \/ Pending(com, Lamp("off"))
     \/ Pending(com, Attach)

\* com_main has finished an iteration.
AtRest == pc = "poll" /\ com = <<>> /\ old_state # "INIT"

\* After every iteration, whatever happened in it, the bolt, the message to
\* the owner and the state of the program agree.
BoltAndMessageAgree ==
  AtRest =>
     /\ g_state = old_state
     /\ "servo" \notin Faulty => servo = (IF g_state = "LOCKED" THEN "150" ELSE "70")
     /\ told = (IF g_state = "LOCKED" THEN "NotifyLocked" ELSE "NotifyUnlocked")

\* The bottom row of the panel between iterations: an unlocked box says so and
\* nothing else, unless an alarm was still running when it was unlocked; a
\* locked one never says UNLOCKED.
StatusHonest ==
  AtRest /\ "led" \notin Faulty =>
     /\ g_state = "UNLOCKED" /\ ~crossed => status = {"UNLOCKED"}
     /\ g_state = "LOCKED" => "UNLOCKED" \notin status

\* The owner is never left with an outdated goal: the last one announced is
\* the one in force, or none, or 0, from which a change is not announced.
GoalNotOutdated == AtRest => announced \in {0, target_weight}

\* Once no attempt fails any more the light stops for good, also when
\* com_main hangs in a request.
AlarmStops == <>[](~Pending(com, Attach)) => <>[](duty = "0")

\* A box that is meant to be locked gets its bolt thrown, if requests end,
\* unless it is unlocked again first.
BoltFollows ==
  NetworkFairness =>
    ((g_state = "LOCKED" /\ servo # "150") ~> (servo = "150" \/ g_state = "UNLOCKED"))

Box == INSTANCE LockBox WITH
  mode <- g_state, bolt <- servo, doorSeen <- door_open_old

\* The controller implements the box.
ImplementsLockBox == Box!Spec
=============================================================================
