------------------------------ MODULE Startup -------------------------------
(***************************************************************************)
(* ESP32::startup() and reset(): how the driver gets the Wi-Fi module from *)
(* power-on to the configuration the socket functions rely on.  Every      *)
(* function of the driver calls startup() first, so that a start that      *)
(* failed is tried again whenever the driver is used.                      *)
(*                                                                         *)
(* Both ends of the UART change its rate on the way, and a command sent at *)
(* the wrong rate is not understood.                                       *)
(***************************************************************************)
EXTENDS Integers, Sequences

CONSTANTS
  Rate,        \* the rate asked for: "default" or another one (230400)
  LossAt,      \* commands that may get lost, or whose answer may
  MaxLosses    \* bound: how many are

Configuration == <<"CWMODE", "CIPMUX", "CWAUTOCONN", "CWQAP">>
Configured == {"CWMODE", "CIPMUX", "CWAUTOCONN", "CWQAP"}
Commands == {"RST", "UART_CUR"} \cup Configured

ASSUME StartupAssumption ==
  LossAt \subseteq Commands /\ MaxLosses \in Nat

VARIABLES
  init_end,
  at,          \* the command the driver is about to send, or "idle"
  tries,       \* of reset()
  host,        \* rate of _serial
  module,      \* rate of the module
  done,        \* configuration commands the module has carried out
  losses       \* so far

vars == <<init_end, at, tries, host, module, done, losses>>

Init ==
  /\ init_end = FALSE /\ at = "idle" /\ tries = 0
  /\ host = "default" /\ module = "default"
  /\ done = {} /\ losses = 0

\* A function of the driver is called: the module is switched off and on.
\* Whether it says "ready" is not looked at.
Enter ==
  /\ at = "idle" /\ ~init_end
  /\ at' = "RST" /\ tries' = 0
  /\ module' = "default" /\ done' = {}
  /\ UNCHANGED <<init_end, host, losses>>

\* What the module does with a command it understands (external).
CarryOut(cmd) ==
  CASE cmd = "RST"      -> module' = "default" /\ done' = {}
    [] cmd = "UART_CUR" -> module' = Rate /\ UNCHANGED done
    [] OTHER            -> done' = done \cup {cmd} /\ UNCHANGED module

\* The command is carried out and the OK gets through.
Answered(cmd) ==
  /\ at = cmd /\ host = module
  /\ CarryOut(cmd)
  /\ UNCHANGED losses

\* No OK: the rates differ, or the command or the OK is lost.
Unanswered(cmd) ==
  /\ at = cmd
  /\ \/ host # module /\ UNCHANGED <<module, done, losses>>
     \/ /\ host = module /\ cmd \in LossAt /\ losses < MaxLosses
        /\ losses' = losses + 1
        /\ CarryOut(cmd) \/ UNCHANGED <<module, done>>

\* reset(): the module comes back with the default rate.
ResetAnswered ==
  /\ Answered("RST")
  /\ host' = "default"
  /\ at' = "UART_CUR"
  /\ UNCHANGED <<init_end, tries>>

\* Mutant: reset() is tried without end.
ResetUnansweredEndless ==
  /\ Unanswered("RST")
  /\ tries' = tries + 1
  /\ UNCHANGED <<init_end, at, host>>

\* Tried twice; startup() does not look at the result.
ResetUnanswered ==
  /\ Unanswered("RST")
  /\ tries' = tries + 1
  /\ at' = IF tries' < 2 THEN "RST" ELSE "CWMODE"
  /\ UNCHANGED <<init_end, host>>

RateAnswered ==
  /\ Answered("UART_CUR")
  /\ host' = Rate
  /\ at' = "CWMODE"
  /\ UNCHANGED <<init_end, tries>>

\* Mutant: the driver changes its rate whether the module agrees or not.
RateUnansweredChanges ==
  /\ Unanswered("UART_CUR")
  /\ host' = Rate
  /\ at' = "CWMODE"
  /\ UNCHANGED <<init_end, tries>>

\* reset() succeeds all the same, at the rate the driver has.
RateUnanswered ==
  /\ Unanswered("UART_CUR")
  /\ at' = "CWMODE"
  /\ UNCHANGED <<init_end, tries, host>>

\* The rest of startup(), command by command.
ConfigureAnswered(k) ==
  /\ Answered(Configuration[k])
  /\ at' = IF k < Len(Configuration) THEN Configuration[k + 1] ELSE "idle"
  /\ init_end' = (k = Len(Configuration))
  /\ UNCHANGED <<tries, host>>

\* Mutant: a command that is not answered is passed over.
ConfigureUnansweredGoesOn(k) ==
  /\ Unanswered(Configuration[k])
  /\ at' = IF k < Len(Configuration) THEN Configuration[k + 1] ELSE "idle"
  /\ init_end' = (k = Len(Configuration))
  /\ UNCHANGED <<tries, host>>

ConfigureUnanswered(k) ==
  /\ Unanswered(Configuration[k])
  /\ at' = "idle"
  /\ UNCHANGED <<init_end, tries, host>>

Next ==
  \/ Enter \/ ResetAnswered \/ ResetUnanswered \/ RateAnswered \/ RateUnanswered
  \/ \E k \in DOMAIN Configuration : ConfigureAnswered(k) \/ ConfigureUnanswered(k)

Spec == Init /\ [][Next]_vars

\* The driver is used again and again, and what it waits for comes or not.
FairSpec == Spec /\ WF_vars(Next)

-----------------------------------------------------------------------------

TypeOK ==
  /\ init_end \in BOOLEAN /\ at \in Commands \cup {"idle"} /\ tries \in 0..2
  /\ host \in {"default", Rate} /\ module \in {"default", Rate}
  /\ done \subseteq Configured /\ losses \in 0..MaxLosses

\* Once startup() is passed over for good, the module is configured and both
\* ends use the same rate, whichever commands or answers were lost, in this
\* attempt or in an earlier one.
StartedIsConfigured == init_end => done = Configured /\ host = module

\* An attempt has failed after both ends had changed their rate.
FailedAfterChange == at = "idle" /\ ~init_end /\ host = module /\ host # "default"

\* The driver gets started in the end, however many attempts fail, provided
\* that none fails after the rate was changed: the driver keeps its rate when
\* it switches the module off and on, and the module does not.
StartsInTheEnd == <>(init_end \/ FailedAfterChange)
=============================================================================
