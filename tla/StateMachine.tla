---------------------------- MODULE StateMachine ----------------------------
(***************************************************************************)
(* The transition table of src/StateMachine.cpp.  set_state() only writes  *)
(* g_state; state_main() compares it with the state entered last and moves *)
(* there when the table has the transition.                                *)
(***************************************************************************)

State == {"INIT", "LOCKED", "UNLOCKED", "SETTING"}

Successors ==
  [INIT     |-> {"LOCKED", "UNLOCKED"},
   LOCKED   |-> {"UNLOCKED"},
   UNLOCKED |-> {"LOCKED", "SETTING"},
   SETTING  |-> {"INIT"}]

\* Mutant: the way back from UNLOCKED is missing.
next_stateOneWay(old_state, state) ==
  IF state \in Successors[old_state] /\ old_state # "UNLOCKED" THEN state ELSE old_state

\* state_trans(): the state entered when the last one was old_state and
\* set_state(state) has been called.
next_state(old_state, state) ==
  IF state \in Successors[old_state] THEN state ELSE old_state
=============================================================================
