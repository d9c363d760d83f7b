# The diet lock box: models, checks and proofs

The program (`src/*.cpp`, an mbed application for the GR-LYCHEE board) runs a
box that opens for someone who knows the password *and* weighs less than a
goal. It polls a door switch, a scale and a key matrix over I2C, drives a bolt
servo, a rotating light, a lamp and a four-row LED panel over the same bus, and
reports what happens to ThingSpeak and IFTTT over an ESP32 Wi-Fi module.

The repository has no specification, no tests and no documentation; the
comments in the code and the headers of the libraries it calls are all that is
written about what it should do. The rest of `src/` is mbed-os, the GR boards'
libraries, an HTTP client and two display libraries, vendored, and build output.

## 1. Inventory

| component | source | state | operations | talks to |
|---|---|---|---|---|
| Password class | `Password.cpp`, `.h` | `target`, `guess` (20-byte arrays), `currentIndex` | `set`, `is`, `append`, `reset`, `evaluate`, operators | called by the keypad code |
| Keypad handling | `main.cpp` `keypadEvent`, `checkPassword` | `password`, `target_weight` | `*`, `#`, other key | Password, `set_state`, `unlock_failed` |
| State machine | `StateMachine.cpp` | `g_state`, `old_state`, `next_state` | `set_state`, `get_state`, `state_main` | the `*_init/do/end` functions |
| Main loop | `main.cpp` `com_main` | locals of one poll, statics of the previous one | boot, poll, five blocks per iteration | everything |
| Alarm | `main.cpp` `unlock_failed`, `kaiten_stop` | `timeout1`, the event queue | start, timeout, stop in the event thread | I2C commands from a second thread |
| I2C commands | `I2C_Comm.cpp` | the devices | `cmd_*`, `get_*` | mbed `I2C`, one mutex per transfer |
| Notifier | `ThingSpeak.cpp`, `utilities/mbed-http` | heap objects, sockets | `wifi_init`, `ChannelUpdate`, seven `Notify*` | ESP32 driver; blocks `com_main` |
| HTTP client | `utilities/mbed-http/http_request.h` | one request, its socket | `send` with every way out | sockets |
| Sockets, name lookup | `mbed-os/features/netsocket` | `READ_FLAG`, the query loop's counters | blocking connect, send, recv; `nsapi_dns_query_multiple` | ESP32 stack |
| ESP32 driver | `mbed-gr-libs/.../esp32-driver` | `_ids`, `_id_bits`, `_id_bits_close`, the packet list, the timeout, `init_end`, the rate, `_cbs` | `startup`, `open`, `send`, `recv`, `close`, handlers, `event` | AT parser, UART interrupts |
| AT parser | `mbed-os/platform/ATCmdParser.cpp` | the line being read, handlers | `recv`, `read`, `process_oob` | UART |
| Program start and end | `main()` | two `Thread` objects | start, wait, destroy | mbed RTOS |
| Console on OLED | `PrintfWrapper.cpp` | ring of eight lines, a mutex | `printf2` | both threads |
| Weight decoder | `Weight.cpp` | `bh`, `bl`, `cnt`, handlers | `rise`, `fall`, `timeout`, `restart` | never started by this program |
| PlayStation pad | `PS_PAD.cpp` | SPI transfer state | `poll`, `read` | never used by this program |
| Displays | `Adafruit_*` | frame buffer | drawing | third-party |

Where it is hard:

* **Two threads, one bus.** `kaiten_stop` runs in the event thread whenever five
  seconds have passed, between any two writes of `com_main`. A panel update is
  four writes that only belong together by being written in a row.
* **A one-shot timer that may be armed again** before it has fired, whose event
  may still be queued, or half carried out, when the next attempt fails, the
  password is right, or the door closes.
* **Everything else is one loop**, which stops for as long as a network request
  takes. Values sampled at the top of the loop are used after such a request,
  and an edge of the door that begins and ends meanwhile is not seen.
* **Nothing ties an answer to its command.** The Wi-Fi module's `OK` may come after
  the driver has given up waiting; connections, closes and packets are announced
  in between, at any time, and are handled wherever they turn up.
* **Interrupts against polling.** A signal is passed on once until the socket is used
  again, while the reader polls without looking at signals and then waits for one.
* **A start that is repeated** from the beginning whenever it failed, by a driver and a
  module that forget different things.
* **Errors are ignored**: each return code of an I2C transfer, and of a request.
* **Fixed buffers and narrow conversions**: 20-byte strings filled from the keypad,
  300-byte ones filled by `vsprintf` and `strcpy` without a limit, `atoi` to `float`,
  seconds as `float` to microseconds as `int`.

What makes the parts correct:

* Password and keypad: the arrays are never overrun or left unterminated; the
  password in force can always be entered; only the keys that spell it open.
* State machine and loop: the bolt, the messages and `g_state` agree after every
  iteration; the bolt moves only for a reason (`LockBox`); closing the door locks.
* Alarm: it always ends, and the lamp it shares with the door is not left on.
* Panel: the state it shows is the state of the box.
* Program: it keeps running.
* Notifier: each socket belongs to a request or is free; a socket is lost only to a
  request that something disturbed; requests end.
* Driver: its table of links is the module's; a socket handed out has no past; the
  packet list is one stream of bytes per socket; a reader is woken; a start that counts
  as done is complete.
* Weight decoder: it never stops listening for good, does not run out of memory while
  handlers keep up, and shows only whole frames.
* Console: the latest lines are shown, each in one piece, for texts its buffer holds.

## 2. Modules

| module | what it is |
|---|---|
| `Password` | the arrays and the functions of `Password.cpp` |
| `PasswordAPI` | all public calls of the class in any order |
| `Keypad` | `keypadEvent`/`checkPassword` on the `Password` arrays |
| `KeypadSpec` | abstract: the same on strings |
| `PasswordProofs` | theorems about `PasswordAPI` and `Keypad` |
| `StateMachine` | the transition table |
| `Controller` | `com_main`, the event thread, timer, queue and devices |
| `LockBox` | abstract: when the bolt may move |
| `ControllerProofs` | theorems about `Controller` and `Door` |
| `Door` | `Controller` composed with the door it watches |
| `Esp32` | socket functions and handlers of the driver against the Wi-Fi module |
| `Notifier`, `NotifierProofs` | `ThingSpeak.cpp`, the HTTP client and the name lookup on `Esp32`; theorems |
| `RecvWakeup` | a reader of a socket against the UART interrupts |
| `Packets`, `PacketsProofs` | the driver's linked list of packets, pointer by pointer; theorems |
| `PacketStreams` | abstract: a stream of bytes per socket |
| `Startup` | `startup()` and `reset()` with losses and rates |
| `DriverProofs` | theorems about `Startup` and `RecvWakeup` |
| `WeightDecoder`, `WeightDecoderProofs` | `Weight.cpp`: edges, timers, queue, handlers; theorems |
| `Console`, `ConsoleProofs` | `PrintfWrapper.cpp`: the threads, the ring, the rows of the display; theorems |
| `Induction` | lemmas about the naturals and recursive functions that the proofs share |
| `Lifecycle` | `main()` |
| `MC*` | constants for TLC |

**Password, PasswordAPI, Keypad.** An array is a function on `0..MAX-1`; text
behind a terminator stays where it is, as in memory. `strcpy`, `strlen`, `atoi`
and the conversion to `float` are those of the C library and the FPU, modelled
by what they do: `atoi` skips blanks, reads a sign and digits and saturates at
both ends, and a `float` keeps `Mantissa` bits and rounds to even. `Keys` may
contain the terminator, signs, blanks and letters: `get_key` checks nothing, and a failed
key read hands out whatever was on the stack. A goal is therefore any integer, also a
negative one. `KeypadSpec` says the same of strings: the blanks in front, a
sign, the digits behind it as a weighted sum, clamped, and the nearest float. `typed` is a history variable with every key since the last
`*` or `#`, including those the full buffer refused. Powers are recursive functions
(`TwoTo`, `TenTo`), which the prover can unfold where it knows nothing of `^`. In `Keypad`, the door only
exists as the action that locks again. `release` and `none` events change nothing
and have no action.

**Controller.** `pc` names the block of `com_main` that runs next. A block
computes, from the values sampled in `Poll`, what it assigns and the sequence `com` of
bus writes, timer calls and requests it makes, in the order of the code; `ComWrite`,
`ComAttach` and `ComRequest` carry out its head. `ev` is the same for `kaiten_stop`
in the event thread. Assignments to variables that only `com_main` uses happen with
the block; nobody else can see when. `Keypad`'s buffers are abstracted to what
the entry amounts to (`Key`), any of which may come in any poll. Text colours are
constant and left out, `printf2` too. The panel is kept as the row of the cursor
and the set of texts on the bottom row: printing draws over what is there, and the
`\n` every text ends with moves the cursor down. Devices in `Faulty` may lose any
write, which the code does not notice. A request ends or does not; what it does is
only remembered in `told` and `announced`. The goal is an integer: the
conversion of the `float` to `target_weight_int` before it is announced changes no value
that `atoi` and the rounding can produce except the largest, 2147483648.0, which becomes
2147483647. `crossed` remembers that `UNLOCKED` was
entered while an alarm was still running.

The event queue hands out memory. `queue.event()` takes a piece for the event the
timer will post (`held`), before `attach` gives back that of a timer still
running; the timeout posts a copy and drops its own (`Expire`); the event thread gives
the memory back when `kaiten_stop` is done (`EvWrite`). `pool` counts the pieces in
use. The build keeps assertions, and `Event::call()` (`mbed-os/events/Event.h:157`)
asserts that posting succeeded: `halted` is the state after `mbed_die()`, from which
there is no step. With `Prompt`, a timeout does not come while a
stop is still queued or being carried out, which is what five seconds and half a dozen
bus writes amount to; without it the event thread may be as slow as it likes.

**LockBox.** Mode, bolt and the door as last seen. `Controller` maps `g_state`,
`servo` and `door_open_old` to them.

**Door.** Every step is one of `Controller`, in which the poll now reads a real door, or a
movement of the door, at any moment, except that a thrown bolt keeps a shut door shut.
`samples` counts how often `com_main` has looked at the present position and `shortest`
keeps the least such count of all earlier ones, so that the properties say how long a
position must last.

**Esp32, Notifier.** A driver function is a record `call` with the line it waits for;
`Parse` is the AT parser taking any other line, with the handlers (`socket_handler`,
`packet_handler`) that may run in the middle of every command. The module and the other
ends of the connections are external and modelled from what the driver expects of them:
the module works on one command at a time, answers within 500 ms unless it is
connecting (`Slow`), and says `CLOSED` or sends data whenever it likes. A line arrives
as a whole. `send` hands data over in chunks of 2048 bytes; the program's requests are shorter
and have one. A response is one packet or two, and `packets` is the set of those that were read
and not returned (`Packets` has the list itself). `Notifier` is the sequence of calls of one request:
`InternetSocket::open`, the lookup (a second socket, moved from server to server
by closing and opening it), connect, send, receive, close. There is one request at a
time because only `com_main` makes requests. `lost` remembers the sockets of failed requests,
`fault` that something outside disturbed the present one, `owing` that the module owed an
answer when `open()` was called. mbed's configuration sets the retries of one question to 0,
and a reply that is not one to the question is a `QueryReplied` that asks again.

**RecvWakeup.** One step per poll of `ESP32::recv()`; the interrupt that comes with the first
character into an empty buffer is `rx_irq`, and `tx_irq` uses the same signal. A poll is
`while (process_oob())`, which does not return while lines keep arriving; an exchange
therefore has at most `MaxLines`.

**Packets.** `next` holds the pointers, with `_packets` as the `next` field of `Root`, and
`end` the node whose field `_packets_end` points to. `recv()` and
`_clear_socket_packets()` are walks, one action per node, during which the driver's mutex keeps
everything else out. A packet for which `malloc` fails is skipped and an empty one is freed again: both
leave the list alone and have no action. Bytes that fail to arrive are `Junk`.

**Startup.** The commands in the order of the code. A command, or only its answer, may get
lost, which the driver cannot tell apart; at different rates nothing gets through. `Enter`
switches the module off and on, which resets its rate and configuration and not the
driver's rate.

**WeightDecoder.** Edges and timers post handlers; `eee` is the second half of `timeout()`,
between which edges may come. The queue's memory is counted as in `Controller`: an
interrupt or timer that is switched on holds an event (`held`), each handler posted is a copy, and
a handler takes memory for what it switches on (`Attach`) before its own is given back.
Without memory the source is switched on with nothing to post. An edge or a timeout comes all the
same: `Event::call()` then fails its assertion, and there is no step from `halted`.
A pulse is timed from handler to handler, so that `fall` may store either bit.
`timely` remembers whether each handler was done before anything else came, and
soon enough for the pulse to end up on its own side of the 750 microseconds. The 39 bits of a frame
are `FrameBits`, the two stable bits the set `Stable`. `weight_init()` is never called by this
program: the module is about the file as it stands.

**Console.** A line is who printed it and its length. `strtok` drops empty lines and what
exceeds the list; `Store` cuts to 20 characters; a row that is full moves the cursor twice
(`writeLine`), which is why the cut must be below the width: 20 of 21 characters in the
program, and an assumption of the module. `vsprintf` fills a buffer of `MAX_CHAR`
characters (`Size` counts those of a text, terminator included), the buffer is the format of
`pc.printf`, and `strcpy` copies a line into the ring before it is cut. A text that is too long,
or has a `%` in it, and a line too long for the ring are undefined behaviour: `undefined` says
which came first, and from then on (`Undefined`) the display may show anything and nothing else is said.

**Lifecycle.** `main()` starts the threads, waits, and destroys them on return. The
integer widths are constants: `osWaitForever` is the largest unsigned, `IntMax` the
largest signed value, half as large.

## 3. Runs

| run | bounds | shows |
|---|---|---|
| `password_class` | arrays of 4, 2 characters | *violation*: `evaluate` calls equal strings of 3 characters different |
| `keypad` | arrays of 5, keys `0 7 -` and the terminator, 5 keys in a row, `IntMax` 8, 2-bit floats | `TypeOK`, `NoLockout`, `BufferInv`, `OnlyTheSecretOpens`, refinement of `KeypadSpec` |
| `controller` | slow event thread, memory for 2 events, goals 0, 2, 5, lossy servo | `TypeOK`, `AlarmHasStopper`, `PoolAccounted`, `LampHasReason`, `StatusHonest`, `GoalNotOutdated`, refinement of `LockBox` |
| `controller_door` | prompt event thread, timer of 2 ticks, memory for 3 events, requests may hang, a door | `NeverHalts`, `BoltAndMessageAgree`, `BoltMeansShut`, `AlarmStops`, `BoltFollows`, `OpenedGetsLocked` |
| `lifecycle` | 4-bit integers | *violation*: the threads are terminated |
| `notifier` | 3 sockets, 2 name servers, 2 questions, slow connections | `TypeOK`, `SocketAccounting`, `TableInStep`, `OpenMeansOpen`, `LossHasCause`, `RequestEnds` |
| `notifier_late` | the same | *violation*: `open()` reports success for a link that is not open |
| `recv_wakeup` | 2 polls, 4 lines | `WakeTypeOK`, `NoLostWakeup`, `Delivered` |
| `packets` | 2 sockets, 3 nodes, packets of up to 2 bytes | `TypeOK`, `ListIntact`, refinement of `PacketStreams` |
| `startup` | up to 6 losses of any command | `TypeOK`, `StartedIsConfigured`, `StartsInTheEnd` |
| `weight_decoder` | frames of 3 bits, memory for 3 events, 5 bits | `ShownIsOneFrame`, `NeverDeaf`, `TimelyNeverHalts`, `KeepsReading` |
| `console` | buffer of 12, ring of 3, cut at 3, width 4, texts that fit, just fit, and do not | `TypeOK`, `ShowsLatestLines`, `RingNeverOverrun` |

Why the bounds are enough. Buffers of five cells have room for every kind of
entry (empty, one, two characters after a prefix of one or two zeros) and for one
key more than fits, and the behaviour of the code depends on the length only
through the distance to the end. `IntMax` 8 and two-bit floats make 7 be rounded
and two-digit goals saturate, with either sign. No key of the run is a blank or a `+`; the
theorems cover those. Memory for three events is the least with which nothing halts
when the event thread is prompt; two are little enough for `controller`, where it is not,
to run out of it; the queue of the program has room for about 32. A timer can be
armed again before it fires, whatever its length. Goals 0, 2 and 5 with a weight of 1
give every kind of change and, with a wrong password, success and failure of an attempt.

Three sockets are one for a failed request and two for a request with its lookup, so that the
table fills up, with and without a lookup under way; two servers and two questions make the
lookup move, come round and give up. Three nodes are the least with which a packet is
taken out between two others. Six losses exceed what any attempt can meet, so that several
attempts fail one after the other. Frames of three bits can be entered in the
middle. Memory for three events is what handlers need when they keep up, and little
enough for late ones to exhaust it; it also holds handlers posted before and after an interrupt was
switched off. A text of the console has more lines than the ring, one fills the buffer
exactly, one lacks room for the terminator alone, one is far too long in lines the ring would
take, and one has a conversion.
In `recv_wakeup` four lines are enough for some to arrive in each of the two polls, between
them and during the wait.

Deadlock is checked, except in `controller` and `weight_decoder`, where the failed assertion
stops the program, and in `startup`, where a started driver has nothing more to do.

Fairness. Both threads have the same priority and mbed's scheduler is round-robin,
the bus mutex is held for one transfer only, and the timer is hardware: every
step of either thread except a request is weakly fair, and so are `Tick`,
`Expire` and `Dispatch`. A request is not: `recv` has no timeout. `NetworkFairness`, that
requests end, is an assumption about the network, and a premise of the two properties that need
it; nobody has to use the door. `Notifier`: the thread runs, the module answers, and a server that was
asked answers or hangs up, without which `recv` waits for ever. `RecvWakeup`: only the
thread runs; nothing is assumed of what arrives. `Startup`: the driver is used
again and again; the program does so with every request until the driver's sockets are used up
(see below), so that in practice the number of attempts is bounded. `WeightDecoder`: as long
as no assertion has failed, handlers run, timers run out and the scale keeps sending.

Each property has a mutant, an operator next to the definition it replaces, with a
mistake the code could have; TLC finds the property violated with it.

### What does not hold

Shown by a run:

* `wait(osWaitForever)` is `wait(4294967295.0f)` seconds, 2^31-1 microseconds after
  the conversion; then `main()` returns and takes both threads with it (`lifecycle`).
* `ESP32.h:153` says of `open()` "true only if socket opened successfully". A connection that takes longer than
  500 ms is given up, and its late `OK` is taken for the answer to the next `open()`
  (`notifier_late`). `OpenMeansOpen` says that this is the only way it can be wrong.
* `Password.cpp:82` says of `evaluate()` "is the current guessed password equal to the target
  password?". It leaves its loop before the last cell, where the terminator of a string of 19 characters
  is, and calls two equal ones different (`password_class`). `EvaluateIsShortEquality`, a
  theorem, says for which strings it is right. The keypad cannot set such a password (`NoLockout`).

Part of the models, which state what is left:

* `is` loops on `*pass`: an empty argument is not copied and the old guess is compared.
  Unused by the program.
* `_packet_handler` sets 500 ms and restores the old timeout only on failure, though `ESP32.h:187`
  speaks of a timeout "changed between commands": the rest of a `send` has 500 ms instead of 2000.
* `_packet_handler` tests `read()` for 0, which `ATCmdParser.h:251` documents to return
  -1 on failure: a packet whose bytes stop arriving is kept at its announced length
  (`Junk` in `Packets`; nothing else goes wrong).
* A start that fails after the change of the rate is never made good: the driver stays at its new
  rate and the module, switched off and on, is back at the default
  (the exception of `StartsInTheEnd`). With the default rate it could not happen.
* A failed request never gives its socket back; after as many failures as there are sockets
  all requests are refused (`SocketAccounting`).
* `printf2()` fills its 300 characters without a limit and hands them to `pc.printf` as a format
  (`PrintfWrapper.cpp:65,67`); `ThingSpeak.cpp` prints HTTP bodies with it. The console's
  properties hold up to the first text that is too long or has a `%` in it (`undefined`).
* Late handlers of the weight decoder can use up its queue's memory; the next edge fails
  the assertion in `Event::call()` (`halted`).

Facts a reader should know that contradict nothing written: a box unlocked while an
alarm is still running is overwritten with `LOCKED` on the panel when the alarm ends, and
loses its lamp (`crossed` in `StatusHonest`); a new goal after goal 0 is not announced
(`GoalNotOutdated` says `0`); a failed key read may put a sign into a new goal, which is then
negative and below every weight; a command to the servo that gets lost is not made good, the bolt
staying where it was (a stutter of `LockBox`); two panel updates can be mixed, so that a text is on the
wrong row; a door opened and shut between two samples leaves the box unlocked, and one opened
between the sample and the bolt's movement gets the bolt thrown while open (with fewer
samples than stated, `OpenedGetsLocked` and `BoltMeansShut` fail); `wifi_init()` tries to join
the access point once, and nothing tries again.

## 4. Theorems

Every safety property and every refinement that a passing run checks is also a theorem. The
library's induction theorems take an operator as a parameter, which the provers cannot
instantiate; `Induction` therefore argues with sets: a set of naturals has a least member
(`LeastNat`), so that what holds of 0 and is handed on holds everywhere (`EveryPlace`,
`EveryNat`: look at the first place where it would not), and a function that makes each value
from the one before exists (`RecursExists`, `RecursNat`). A recursive definition is a `CHOOSE`;
with a function known to satisfy it, it has the values the recursion says.

`PasswordProofs`, for every array size of at least 2, alphabet and initial password that fits.
About the class:

* `PasswordTypes`: no sequence of calls leaves the arrays.
* `EvaluateAlwaysEquality`: `evaluate` is equality of strings that end in sight of its loop. It
  rests on lemmas about `strlen` (the least index of a terminator) and `CString`, and on types
  alone: nothing about the characters behind a terminator is needed, which is the point.

Neither is checked by a run: the class's run shows the disagreement.

About the keypad, for every set of keys (terminators, signs and blanks included), set of weights,
largest integer and number of bits in a float:

* `BufferInvariance`: `BufferInv` is inductive together with the types of the
  buffers. The guess is terminated at `currentIndex` and holds
  the keys typed; the password ends before the last cell and does not begin
  with `0`. The point of the proof is `StarPasswordInv`: the password is copied from
  the guess's second cell, hence ends one cell earlier than any guess, hence in sight
  of `evaluate`.
* `NoLockoutTheorem`, `OnlyTheSecretOpensTheorem`: from that invariant.
* `KeypadTypes`: also the goal is an integer, of either sign.
* `BuffersImplementStrings`: `Keypad` implements `KeypadSpec`. `AppendString`,
  `ResetString` and `StrcpyString` say what the calls of the class do to the string in an array:
  a key extends it, or changes nothing when it is a terminator or comes behind one. For a new goal,
  `FirstIsPrefix` shows that the first cell that holds no blank, and after the sign no digit, is where
  the string's prefix of such characters ends, `NumberReads` and `MagnitudeReads` that
  both sides take the same digits, and `HornerIsSum` that multiplying by ten on the way and
  adding weighted digits give the same number (`AtoiIsValue` puts these together).
  `RoundedNearest` shows the conversion to be right: the result is a float, also when
  rounding up adds a bit, and no float is between the two multiples of the unit around the number
  (`NoFloatBetween`), those with a smaller exponent being too small. `ToFloatNearest`
  carries this over to negative numbers. The assumption that
  `InitialTarget` is at most `IntMax` is that of an `int` literal.

`ControllerProofs`, for every set of readings, keys and goals, timer length,
queue size and set of faulty devices:

* `TypeCorrect`, `PoolAlwaysAccounted`: the memory of the queue in use is that of the
  events posted, being carried out, and held by the timer, so that it stays within the
  queue and none is lost or given back twice.
* `AlarmAlwaysStopped`, `LampAlwaysHasReason`: in every interleaving.
* `PromptNeverHalts`: memory for three events is enough for a prompt event thread.
* `RefinesLockBox`: the controller implements `LockBox`, with lossy devices too.
* `BoltAndMessageAlwaysAgree`, `GoalNeverOutdated`, `StatusAlwaysHonest`: what holds at the
  end of each iteration of `com_main`.
* `DoorIsController`: `Door` implements `Controller`, so that all of these hold with the door.
* `BoltAlwaysMeansShut`: a thrown bolt means a shut door if each position lasted for two samples.

The inductive invariant `Inv` adds to the first six what the threads may have pending.
`ThreadInv`: a servo command still to be made by `com_main` is the one for the present
`g_state` (so that a step maps to `Drive`; `g_state` only changes when nothing is
pending), and the event thread never switches anything on. `CoverInv`:
a pending command that starts the light or the lamp is followed by a pending
`Attach` (`unlock_failed` arms the timer after switching on; the other order is the
mutant of `AlarmHasStopper`), except for the lamp while the door is known
to be open. `PromptInv`: at most one stop is posted or under way, and a running timer has its
event. `BlockEffect` says once what a block of `com_main` leaves
behind, with one lemma for each; the other steps have a lemma each
(`ComWriteKeeps` ... `EvWriteKeeps`), and `NextInv` puts them together.

What holds between iterations needs to know how far each has got: `RestInv`, on top of
`Inv`. `ScriptInv` says which operations can be pending at all: those of the mode entered last.
`BoltInv` and `GoalInv`: the bolt, the report and the announcement are up to date or
the write or request that makes them so is pending. For the panel, `UnlockedInv`
follows the bottom row through `UNLOCKED_init`, one case per operation left (`Written`), while no
alarm runs; `Placed` adds that each text is drawn right after the cursor was put on its row,
without which a text of another row could land there; `LockedInv` is that an old `UNLOCKED` has its
clearing still to come. `StatusHonest` by itself says nothing while `com_main` is in the
middle of an iteration and is far from inductive.

`DoorInv`: the program's last sample is the position of the door unless the door has moved since,
when `samples` is 0; and from the moment the box is about to be locked to the moment
the bolt moves, a door that opens has been seen shut once at most (`JustShut`), which makes
`shortest` less than two. The bolt is thrown in the iteration that sees the door shut first.

The assumptions are those of `Controller`: inputs of the right type, a timer of at least one
tick, a queue for at least one event.

`NotifierProofs`, for every number of sockets, name servers and questions, with and without slow
connections:

* `NotifierTypes`, `SocketsAccountedFor`, `TablesStayInStep`, `OpenAlwaysMeansOpen`,
  `LossAlwaysHasCause`.

`NotifierInv` is the conjunction of what the driver and the module know of each other.
`StreamInv` reads the lines on their way: an `OK` follows each `CONNECT` at once, the last line about
a link says what became of it (`LinkInv`, which is `ViewCatchesUp` when nothing is on its way), packets
come before the end of their link, and `send` and `close` find only their own answers.
`AlternateInv`: an announced close ends a connection, except for a request whose connection was
refused and which will therefore send nothing. `SlowInv`: only a TCP connection
can outlast `open()`, and then its request fails (or the driver is about to find out). `PointInv` is what each point of a
request may rely on, mostly that the module owes nothing. `SpareInv` is about the sockets nobody
owns: nothing is left of their past, with one exception, `Heir`. When an `OK` that is late is taken for
the answer to the `open()` of a lookup, the lookup's socket may be given back while its link is
still being set up. Nobody would ever close that link, were the socket not the one
`get_free_id()` hands out next, being the lowest: the proof does not go through for an allocation
in another order. `OwingInv` says when the `OK` that `open()` waits for is its own.

For `LossHasCause`, an action property, `SmoothInv` follows a request that nothing has disturbed so
far, from `open()` to the answer: its own socket has not been used before (`AheadInv`), the first
name server is asked once and answers (`LookupInv`), and at each point what is awaited is
on its way or still to be done by the module (`OpeningInv`, `SendingInv`, `ReceivingInv`), so that no
call returns a failure. A refused lookup is the other case: the sockets that are not lost are
the request's own alone (`LastSocket`).

`PacketsProofs`, for every set of sockets, finite memory and packet length:

* `PacketsTypes`, `ListAlwaysIntact`. What a walk along the pointers finds is a recursive function.
  `ListInv` says instead that there are a number
  and a function from places to nodes with no repetition, each node pointing to the next, `end` to
  the last, and all of them the allocated ones. Appending and taking out a node give the new function
  explicitly. That the recursive walk finds the same nodes is shown by looking at the
  first place where it would not (`WalkFinds`).
* `ListImplementsStreams`: the list implements `PacketStreams`. What a socket can read is the sum of
  the bytes of its packets in the order of the places (`SumOf`); the lemmas about sums say what becomes of it when
  a packet is appended, taken out or shortened at its front. `WalkInv` adds that the nodes a walk has
  passed are not the socket's, so that the packet it takes from is the socket's first.

`DriverProofs`, for every number of polls and lines:

* `WakeupTypeCorrect`, `WakeupNeverLost`: a thread that waits without a signal has nothing
  to read, and will be signalled. The strengthening is `SignalKept`: from the call of `recv()` on, a
  signal that was passed on has set the flag, and so has anything that came after the last
  poll. It holds because `recv()` re-arms the signal before its first poll.

and for every rate, set of commands that may get lost and number of losses:

* `StartupTypeCorrect`, `StartupNeverHalfDone`: a start that counts as done left the module
  configured and both ends at one rate. The strengthening `SoFar` follows the code: a command
  of the configuration is only sent when those before it were carried out, and, from the
  second on, when the rates agreed. The first is not covered: `startup()` does not look at
  the result of `reset()`, and it is the first command's answer that shows the rates to agree.

`WeightDecoderProofs`, for every frame length, queue and set of stable readings:

* `DecoderNeverDeaf`: in every order of edges, timers and handlers, until the memory has run out
  and the assertion has stopped the program. `DeafInv` adds that a reading is only
  ever handed on with the next edge listened for.
* `TimelyDecoderNeverHalts`: with memory for three events and handlers that keep up, the assertion does
  not fail. `HeldInv` says that exactly what is switched on has an event to post, that the two
  edges are never both switched on, and what is off while a handler is queued; at most two events
  are therefore held when anything comes (`AtMostTwo`), which leaves room for one more.
* `ReadingIsOneFrame`: while handlers keep up with the line, at most one is queued, and for each
  of them `AtEdge` says where in the frame the line is: the bits kept are the last bits of
  the frame sent so far (`Suffix`). A reading has as many bits as a frame, and a suffix of
  that length is the frame.

`ConsoleProofs`, for any number of threads and texts, rows and lengths with the cut below the width
and below the length of the buffer:

* `ConsoleTypes`: up to the first text that does not fit the buffer or has a conversion in it, what
  `split` puts into the list fits it, and the ring's index stays in it.
* `DisplayAlwaysLatest`, with the same limit: `Inv` follows a text through `printOLED()`: while it is stored, the ring read
  from its oldest line is the end of what was printed before, followed by the lines stored so far, and
  only the holder of the mutex is past `Lock`. `DrawIsRing` shows that drawing the ring, line after line,
  fills the display exactly, because no line is as long as a row.
* `RingLinesAlwaysFit`: for texts of any length. A line of a text is shorter than the text
  (`SizeBounds`), so that one that fits the buffer fits the ring, and one that does not
  has ended the defined part of the run before anything is stored.

Only model-checked:

* the liveness properties `AlarmStops`, `BoltFollows`, `OpenedGetsLocked`, `RequestEnds`, `Delivered`,
  `StartsInTheEnd`, `KeepsReading`: liveness under fairness is out of the prover's reach.

The three violations are shown by counterexamples and have no theorem.

## 5. Plan

1. Done: all modules above, and proofs of every invariant, action property and refinement the
   passing runs check.
2. Not covered by a property: how old a weight is when it is compared (`main.cpp:191`), a
   timeout in the middle of a line (`ATCmdParser.cpp:394`), the length of the timeout
   a command gets (`ESP32.cpp:688`).

Not modelled, and not planned: server sockets, access-point mode, scanning and the queries
of addresses of the ESP32 driver (not used, or only printed); the texts of URLs and
responses; the display libraries and `PS_PAD` (third-party, unused or pure drawing);
mbed-os itself beyond sockets, name lookup and AT parser (used through the behaviour above);
build output.
