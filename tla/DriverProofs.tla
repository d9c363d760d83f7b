---------------------------- MODULE DriverProofs ----------------------------
(***************************************************************************)
(* The start of the ESP32 driver and the wait for data in its recv().      *)
(*                                                                         *)
(* StartedIsConfigured for every rate and every set of commands that may   *)
(* get lost.  The strengthening follows startup(): a command is only sent  *)
(* when the ones before it were carried out and the rates agreed.          *)
(*                                                                         *)
(* NoLostWakeup for any number of polls and of lines: a signal passed on   *)
(* since the thread called recv() has set the flag it will wait for.       *)
(***************************************************************************)
EXTENDS Startup, RecvWakeup, TLAPS

-----------------------------------------------------------------------------
\* startup() and reset().

Earlier == [cmd \in Configured |->
  CASE cmd = "CWMODE"     -> {}
    [] cmd = "CIPMUX"     -> {"CWMODE"}
    [] cmd = "CWAUTOCONN" -> {"CWMODE", "CIPMUX"}
    [] cmd = "CWQAP"      -> {"CWMODE", "CIPMUX", "CWAUTOCONN"}]

SoFar == at \in Configured => Earlier[at] \subseteq done /\ (at # "CWMODE" => host = module)

IInv ==
  /\ TypeOK
  /\ SoFar
  /\ at = "RST" => tries < 2
  /\ init_end => at = "idle" /\ done = Configured /\ host = module

LEMMA ConfigurationSteps ==
  /\ DOMAIN Configuration = 1..4 /\ Len(Configuration) = 4
  /\ Configuration[1] = "CWMODE" /\ Configuration[2] = "CIPMUX"
  /\ Configuration[3] = "CWAUTOCONN" /\ Configuration[4] = "CWQAP"
  BY DEF Configuration

\* Without an answer the module has carried out the command or has not; the
\* driver's own state is left to the caller.
LEMMA UnansweredTypes ==
  ASSUME IInv, NEW cmd \in Commands, Unanswered(cmd)
  PROVE  /\ module' \in {"default", Rate} /\ done' \subseteq Configured
         /\ losses' \in 0..MaxLosses /\ at = cmd
  BY StartupAssumption
  DEF IInv, TypeOK, Unanswered, CarryOut, Commands, Configured

LEMMA AnsweredTypes ==
  ASSUME IInv, NEW cmd \in Commands, Answered(cmd)
  PROVE  /\ module' \in {"default", Rate} /\ done' \subseteq Configured
         /\ losses' \in 0..MaxLosses /\ at = cmd
  BY StartupAssumption
  DEF IInv, TypeOK, Answered, CarryOut, Commands, Configured

LEMMA InitIInv == Init => IInv
<1> SUFFICES ASSUME Init PROVE IInv
  OBVIOUS
<1>1. init_end = FALSE /\ at = "idle"
  BY DEF Init
<1>2. TypeOK
  <2>1. tries \in 0..2 /\ losses \in 0..MaxLosses
    BY StartupAssumption DEF Init
  <2>2. init_end \in BOOLEAN
    BY <1>1, Zenon
  <2> QED
    BY <1>1, <2>1, <2>2 DEF Init, TypeOK
<1> QED
  BY <1>1, <1>2 DEF IInv, SoFar, Configured

LEMMA StepIInv == IInv /\ [Next]_vars => IInv'
<1> SUFFICES ASSUME IInv, [Next]_vars PROVE IInv'
  OBVIOUS
<1>1. CASE UNCHANGED vars
  BY <1>1 DEF IInv, TypeOK, SoFar, vars
<1>2. CASE Enter
  BY <1>2 DEF Enter, IInv, TypeOK, SoFar, Commands, Configured
<1>3. CASE ResetAnswered
  <2>1. module' \in {"default", Rate} /\ done' \subseteq Configured /\ losses' \in 0..MaxLosses
    BY <1>3, AnsweredTypes DEF ResetAnswered, Commands
  <2> QED
    BY <1>3, <2>1 DEF ResetAnswered, Answered, IInv, TypeOK, SoFar, Commands, Configured
<1>4. CASE ResetUnanswered
  <2>1. /\ module' \in {"default", Rate} /\ done' \subseteq Configured
        /\ losses' \in 0..MaxLosses /\ at = "RST"
    BY <1>4, UnansweredTypes DEF ResetUnanswered, Commands
  <2>2. tries \in 0..1 /\ ~init_end
    BY <2>1 DEF IInv, TypeOK
  <2>3. TypeOK'
    BY <1>4, <2>1, <2>2 DEF ResetUnanswered, IInv, TypeOK, Commands, Configured
  <2>4. SoFar'
    BY <1>4 DEF ResetUnanswered, SoFar, Earlier, Configured
  <2> QED
    BY <1>4, <2>2, <2>3, <2>4 DEF ResetUnanswered, IInv
<1>5. CASE RateAnswered
  <2>1. module' \in {"default", Rate} /\ done' \subseteq Configured /\ losses' \in 0..MaxLosses
    BY <1>5, AnsweredTypes DEF RateAnswered, Commands
  <2>2. SoFar'
    BY <1>5 DEF RateAnswered, SoFar, Earlier, Configured
  <2> QED
    BY <1>5, <2>1, <2>2 DEF RateAnswered, Answered, IInv, TypeOK, Commands, Configured
<1>6. CASE RateUnanswered
  <2>1. module' \in {"default", Rate} /\ done' \subseteq Configured /\ losses' \in 0..MaxLosses
    BY <1>6, UnansweredTypes DEF RateUnanswered, Commands
  <2>2. SoFar'
    BY <1>6 DEF RateUnanswered, SoFar, Earlier, Configured
  <2> QED
    BY <1>6, <2>1, <2>2 DEF RateUnanswered, Unanswered, IInv, TypeOK, Commands, Configured
<1>7. ASSUME NEW k \in DOMAIN Configuration, ConfigureAnswered(k) PROVE IInv'
  <2> DEFINE cmd == Configuration[k]
  <2>1. k \in 1..4 /\ cmd \in Configured
    BY <1>7, ConfigurationSteps DEF Configured
  <2>2. /\ module' \in {"default", Rate} /\ done' \subseteq Configured
        /\ losses' \in 0..MaxLosses /\ at = cmd
    BY <1>7, <2>1, AnsweredTypes DEF ConfigureAnswered, Commands
  <2>3. done' = done \cup {cmd} /\ host' = module' /\ tries' = tries
    BY <1>7, <2>1 DEF ConfigureAnswered, Answered, CarryOut, Configured
  <2>4. Earlier[cmd] \cup {cmd} \subseteq done'
    BY <2>1, <2>2, <2>3 DEF IInv, SoFar
  <2>5. /\ at' = IF k < 4 THEN Configuration[k + 1] ELSE "idle"
        /\ init_end' = (k = 4)
    BY <1>7, ConfigurationSteps DEF ConfigureAnswered
  <2>6. CASE k = 1
    <3>1. cmd = "CWMODE" /\ at' = "CIPMUX" /\ k # 4
      BY <2>5, <2>6, ConfigurationSteps
    <3>2. ~init_end'
      BY <2>5, <3>1, Zenon
    <3> QED
      BY <3>1, <3>2, <2>2, <2>3, <2>4, <1>7
      DEF IInv, TypeOK, SoFar, Earlier, Configured, Commands, ConfigureAnswered
  <2>7. CASE k = 2
    <3>1. cmd = "CIPMUX" /\ at' = "CWAUTOCONN" /\ k # 4
      BY <2>5, <2>7, ConfigurationSteps
    <3>2. ~init_end'
      BY <2>5, <3>1, Zenon
    <3> QED
      BY <3>1, <3>2, <2>2, <2>3, <2>4, <1>7
      DEF IInv, TypeOK, SoFar, Earlier, Configured, Commands, ConfigureAnswered
  <2>8. CASE k = 3
    <3>1. cmd = "CWAUTOCONN" /\ at' = "CWQAP" /\ k # 4
      BY <2>5, <2>8, ConfigurationSteps
    <3>2. ~init_end'
      BY <2>5, <3>1, Zenon
    <3> QED
      BY <3>1, <3>2, <2>2, <2>3, <2>4, <1>7
      DEF IInv, TypeOK, SoFar, Earlier, Configured, Commands, ConfigureAnswered
  <2>9. CASE k = 4
    <3>1. cmd = "CWQAP" /\ at' = "idle" /\ k = 4
      BY <2>5, <2>9, ConfigurationSteps
    <3>2. init_end'
      BY <2>5, <3>1, Zenon
    <3>3. done' = Configured
      BY <3>1, <2>2, <2>4 DEF Earlier, Configured
    <3> QED
      BY <3>1, <3>2, <3>3, <2>2, <2>3, <1>7
      DEF IInv, TypeOK, SoFar, Configured, Commands, ConfigureAnswered
  <2> QED
    BY <2>1, <2>6, <2>7, <2>8, <2>9
<1>8. ASSUME NEW k \in DOMAIN Configuration, ConfigureUnanswered(k) PROVE IInv'
  <2>1. k \in 1..4 /\ Configuration[k] \in Configured
    BY <1>8, ConfigurationSteps DEF Configured
  <2>2. /\ module' \in {"default", Rate} /\ done' \subseteq Configured
        /\ losses' \in 0..MaxLosses /\ at = Configuration[k]
    BY <1>8, <2>1, UnansweredTypes DEF ConfigureUnanswered, Commands
  <2>3. ~init_end
    BY <2>1, <2>2 DEF IInv, Configured
  <2> QED
    BY <1>8, <2>2, <2>3 DEF ConfigureUnanswered, IInv, TypeOK, SoFar, Commands, Configured
<1> QED
  BY <1>1, <1>2, <1>3, <1>4, <1>5, <1>6, <1>7, <1>8 DEF Next

\* The types of the driver's start.
THEOREM StartupTypeCorrect == Spec => []TypeOK
<1>1. IInv => TypeOK
  BY DEF IInv
<1> QED
  BY InitIInv, StepIInv, <1>1, PTL DEF Spec

\* Whatever is lost, a start that counts as done left both ends at one rate
\* and the module configured.
THEOREM StartupNeverHalfDone == Spec => []StartedIsConfigured
<1>1. IInv => StartedIsConfigured
  BY DEF IInv, StartedIsConfigured
<1> QED
  BY InitIInv, StepIInv, <1>1, PTL DEF Spec

-----------------------------------------------------------------------------
\* recv() and the interrupt.

\* The types hold in every behaviour of the thread and the interrupts.
THEOREM WakeupTypeCorrect == WakeSpec => []WakeTypeOK
<1>1. WakeInit => WakeTypeOK
  <2> SUFFICES ASSUME WakeInit PROVE WakeTypeOK
    OBVIOUS
  <2>1. packet \in BOOLEAN /\ open \in BOOLEAN BY Zenon DEF WakeInit
  <2>2. rx \in Seq(Lines) BY DEF WakeInit
  <2>3. retry_cnt \in 0..RecvTimeout /\ left \in Nat BY BoundsAssumption DEF WakeInit
  <2> QED BY <2>1, <2>2, <2>3, Zenon DEF WakeInit, WakeTypeOK
<1>2. WakeTypeOK /\ [WakeNext]_wakeVars => WakeTypeOK'
  <2> SUFFICES ASSUME WakeTypeOK, [WakeNext]_wakeVars PROVE WakeTypeOK'
    OBVIOUS
  <2> USE BoundsAssumption DEF WakeTypeOK
  <2>1. CASE Recv BY <2>1 DEF Recv
  <2>2. CASE ProcessOob
    <3>1. rx' \in Seq(Lines) BY <2>2 DEF ProcessOob
    <3>2. packet' \in BOOLEAN /\ open' \in BOOLEAN BY <2>2, Zenon DEF ProcessOob
    <3>3. notified' \in {0, 1} BY <2>2 DEF ProcessOob
    <3> QED BY <2>2, <3>1, <3>2, <3>3 DEF ProcessOob
  <2>3. CASE Polled BY <2>3 DEF Polled
  <2>4. CASE Look
    <3>1. packet' \in BOOLEAN BY <2>4, Zenon DEF Look
    <3>2. pc' \in {"data", "poll", "wait", "end"} BY <2>4 DEF Look
    <3>3. retry_cnt' \in 0..RecvTimeout BY <2>4 DEF Look
    <3> QED BY <2>4, <3>1, <3>2, <3>3 DEF Look
  <2>5. CASE Wait
    <3>1. flag' \in BOOLEAN BY <2>5, Zenon DEF Wait
    <3> QED BY <2>5, <3>1 DEF Wait
  <2>6. CASE ReadOn BY <2>6 DEF ReadOn
  <2>7. CASE tx_irq BY <2>7 DEF tx_irq, event
  <2>8. ASSUME NEW line \in Lines, rx_irq(line) PROVE WakeTypeOK'
    <3>1. rx' \in Seq(Lines) BY <2>8 DEF rx_irq
    <3>2. left' \in Nat BY <2>8 DEF rx_irq
    <3>3. notified' \in {0, 1} /\ flag' \in BOOLEAN BY <2>8 DEF rx_irq, event
    <3> QED BY <2>8, <3>1, <3>2, <3>3 DEF rx_irq
  <2>9. CASE UNCHANGED wakeVars BY <2>9 DEF wakeVars
  <2> QED BY <2>1, <2>2, <2>3, <2>4, <2>5, <2>6, <2>7, <2>8, <2>9
          DEF WakeNext, Thread, Interrupt, Finished
<1> QED BY <1>1, <1>2, PTL DEF WakeSpec

\* A signal passed on since the call, and anything that arrived since the last
\* poll, has left the flag set.
LEMMA SignalAlwaysKept == WakeSpec => []SignalKept
<1>1. WakeInit => SignalKept
  BY DEF WakeInit, SignalKept
<1>2. WakeTypeOK /\ WakeTypeOK' /\ SignalKept /\ [WakeNext]_wakeVars => SignalKept'
  <2> SUFFICES ASSUME WakeTypeOK, WakeTypeOK', SignalKept, [WakeNext]_wakeVars PROVE SignalKept'
    OBVIOUS
  <2>1. CASE Recv BY <2>1 DEF Recv, SignalKept
  <2>2. CASE ProcessOob BY <2>2 DEF ProcessOob, SignalKept
  <2>3. CASE Polled BY <2>3 DEF Polled, SignalKept
  <2>4. CASE Look BY <2>4 DEF Look, SignalKept
  <2>5. CASE Wait BY <2>5 DEF Wait, SignalKept
  <2>6. CASE ReadOn BY <2>6 DEF ReadOn, SignalKept
  <2>7. CASE tx_irq BY <2>7 DEF tx_irq, event, SignalKept, WakeTypeOK
  <2>8. ASSUME NEW line \in Lines, rx_irq(line) PROVE SignalKept'
    <3>1. CASE rx = <<>>
      BY <2>8, <3>1 DEF rx_irq, event, SignalKept, WakeTypeOK
    <3>2. CASE rx # <<>>
      BY <2>8, <3>2 DEF rx_irq, SignalKept
    <3> QED BY <3>1, <3>2
  <2>9. CASE UNCHANGED wakeVars BY <2>9 DEF wakeVars, SignalKept
  <2> QED BY <2>1, <2>2, <2>3, <2>4, <2>5, <2>6, <2>7, <2>8, <2>9
          DEF WakeNext, Thread, Interrupt, Finished
<1> QED BY <1>1, <1>2, WakeupTypeCorrect, PTL DEF WakeSpec

\* A thread blocked in TCPSocket::recv with no flag set has nothing to read,
\* and the driver will pass on the next signal.
THEOREM WakeupNeverLost == WakeSpec => []NoLostWakeup
<1>1. WakeTypeOK /\ SignalKept => NoLostWakeup
  BY DEF WakeTypeOK, SignalKept, NoLostWakeup
<1> QED BY <1>1, WakeupTypeCorrect, SignalAlwaysKept, PTL
=============================================================================
