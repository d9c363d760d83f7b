----------------------------- MODULE Lifecycle ------------------------------
(***************************************************************************)
(* main() of src/main.cpp: it starts the two threads as local objects and  *)
(* calls wait(osWaitForever) so as never to return.  wait() takes seconds  *)
(* as a float and hands microseconds to wait_us() as an int.               *)
(***************************************************************************)
EXTENDS Integers

CONSTANTS
  osWaitForever,     \* the largest uint32_t
  IntMax,            \* the largest int32_t, half as large
  UsPerSecond        \* microseconds in a second

VARIABLES
  line,      \* where main() is
  running,   \* threads that are running
  left       \* microseconds until wait_us() returns

vars == <<line, running, left>>

\* Conversion of a float to int: VCVT saturates.
toInt(f) == IF f > IntMax THEN IntMax ELSE f

wait(s) == left' = toInt(s * UsPerSecond)

Init == line = "com_main" /\ running = {} /\ left = 0

StartComMain ==
  /\ line = "com_main"
  /\ running' = running \cup {"com_main"}
  /\ line' = "eventThread"
  /\ UNCHANGED left

StartEventThread ==
  /\ line = "eventThread"
  /\ running' = running \cup {"eventThread"}
  /\ line' = "wait"
  /\ UNCHANGED left

Wait ==
  /\ line = "wait"
  /\ wait(osWaitForever)
  /\ line' = "waiting"
  /\ UNCHANGED running

Elapse ==
  /\ line = "waiting" /\ left > 0
  /\ left' = left - 1
  /\ UNCHANGED <<line, running>>

Return ==
  /\ line = "waiting" /\ left = 0
  /\ line' = "~eventThread"
  /\ UNCHANGED <<running, left>>

\* The locals are destroyed in reverse order; ~Thread() terminates.
DestroyEventThread ==
  /\ line = "~eventThread"
  /\ running' = running \ {"eventThread"}
  /\ line' = "~com_main"
  /\ UNCHANGED left

DestroyComMain ==
  /\ line = "~com_main"
  /\ running' = running \ {"com_main"}
  /\ line' = "returned"
  /\ UNCHANGED left

Next ==
  \/ StartComMain \/ StartEventThread \/ Wait \/ Elapse
  \/ Return \/ DestroyEventThread \/ DestroyComMain

Spec == Init /\ [][Next]_vars

-----------------------------------------------------------------------------

\* "Wait forever timeout value" (cmsis_os2.h:173), which main() passes to
\* wait(): a thread that has been started keeps running.
ThreadsKeepRunning == [][running \subseteq running']_vars
=============================================================================
