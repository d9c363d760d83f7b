-------------------------------- MODULE Door --------------------------------
(***************************************************************************)
(* The controller with the door it looks after.  com_main samples the      *)
(* door switch once per iteration, an iteration lasts as long as its       *)
(* requests, and meanwhile the door may move: a door that opens and closes *)
(* between two samples is never seen, one that opens after the sample gets *)
(* its bolt thrown while open.  How long a position must last for that not *)
(* to happen is counted in samples taken of it.                            *)
(***************************************************************************)
EXTENDS Controller

VARIABLES
  door,      \* lead_sw: the door is open
  samples,   \* samples of this position so far, counted up to Enough
  shortest,  \* history: the fewest samples any earlier position got
  opened     \* history: open since the box was last locked or unlocked

doorVars == <<door, samples, shortest, opened>>
allVars == <<vars, doorVars>>

Enough == 2

DoorInit ==
  /\ Init
  /\ door \in BOOLEAN /\ samples = 0 /\ shortest = Enough /\ opened = door

\* The loop has come round to "door_open = lead_sw".
Sampling == pc = "poll" /\ pc' = "weight"

\* An attempt succeeds.
Unlocking == g_state = "LOCKED" /\ g_state' = "UNLOCKED"

\* A step of the program.  The switch tells the truth, at the start as well.
ProgramStep ==
  /\ Next
  /\ Sampling \/ (pc = "boot" /\ pc' # pc) => door_open' = door
  /\ samples' = IF Sampling /\ samples < Enough THEN samples + 1 ELSE samples
  /\ opened' = (door \/ (opened /\ servo' # "150" /\ ~Unlocking))
  /\ UNCHANGED <<door, shortest>>

\* Somebody closes the door, or opens it, which the bolt prevents.
DoorMoves ==
  /\ door \/ servo # "150"
  /\ door' = ~door
  /\ samples' = 0
  /\ shortest' = IF samples < shortest THEN samples ELSE shortest
  /\ opened' = (opened \/ door')
  /\ UNCHANGED vars

DoorNext == ProgramStep \/ DoorMoves

DoorSpec == DoorInit /\ [][DoorNext]_allVars

\* As for the controller alone; nobody has to use the door.
DoorFairSpec == DoorSpec /\ Fairness

-----------------------------------------------------------------------------

\* The bolt is never thrown into the open: when each position of the door was
\* sampled twice, a thrown bolt always means that the door is shut.
BoltMeansShut == servo = "150" /\ shortest >= 2 => ~door

\* A box that was opened and is shut again gets locked, when each position of
\* the door is sampled once and requests end, unless it is opened again first
\* or another attempt succeeds, which it may in the iteration that sees it
\* closing.
OpenedGetsLocked ==
  NetworkFairness /\ [](shortest >= 1) =>
    ((opened /\ ~door) ~> (door \/ ~opened))
=============================================================================
