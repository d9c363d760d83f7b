------------------------------ MODULE LockBox -------------------------------
(***************************************************************************)
(* What the box promises about its bolt: it is withdrawn only after the    *)
(* controller has been authorised, or was started with the door open, and  *)
(* a door that is seen closing asks for the bolt to be thrown.             *)
(***************************************************************************)
VARIABLES
  mode,      \* "INIT" until started, then what the box is meant to be
  bolt,      \* angle last sent to the servo, "none" before the first
  doorSeen   \* the door was open when last looked at

vars == <<mode, bolt, doorSeen>>

Angle == [LOCKED |-> "150", UNLOCKED |-> "70"]

Init == mode = "INIT" /\ bolt = "none" /\ doorSeen = FALSE

Start ==
  /\ mode = "INIT"
  /\ mode' \in {"LOCKED", "UNLOCKED"}
  /\ UNCHANGED <<bolt, doorSeen>>

SeeOpen ==
  /\ mode # "INIT"
  /\ doorSeen' = TRUE
  /\ UNCHANGED <<mode, bolt>>

SeeClosed ==
  /\ doorSeen
  /\ doorSeen' = FALSE
  /\ mode' = "LOCKED"
  /\ UNCHANGED bolt

Authorise ==
  /\ mode = "LOCKED"
  /\ mode' = "UNLOCKED"
  /\ UNCHANGED <<bolt, doorSeen>>

Drive ==
  /\ mode # "INIT"
  /\ bolt' = Angle[mode]
  /\ UNCHANGED <<mode, doorSeen>>

Next == Start \/ SeeOpen \/ SeeClosed \/ Authorise \/ Drive

Spec == Init /\ [][Next]_vars
=============================================================================
