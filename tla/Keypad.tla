------------------------------- MODULE Keypad -------------------------------
(***************************************************************************)
(* keypadEvent() and checkPassword() of src/main.cpp on the real buffers   *)
(* of the Password object: how a run of key presses becomes a new goal     *)
(* weight, a new password or an attempt to unlock.                         *)
(*                                                                         *)
(* The rest of com_main() appears only as far as it matters here: keys are *)
(* looked at in state LOCKED alone, and a closing door locks again.  What  *)
(* a failed attempt does to the lamps and the panel is in Controller.tla.  *)
(***************************************************************************)
EXTENDS Password

CONSTANTS
  Keys,             \* characters get_key() delivers besides '*' and '#': those
                    \* of the key matrix, and after a failed read any other,
                    \* the terminator, signs and blanks included
  Weights,          \* weights the scale reports, in kilograms
  InitialPassword,  \* "1234" in the program
  InitialTarget,    \* 100 in the program
  IntMax,           \* largest int; atoi() saturates there
  Mantissa,         \* bits of a float's significand (24)
  MaxTyped          \* bound: keys in a row without '*' or '#'

Digits == <<"0", "1", "2", "3", "4", "5", "6", "7", "8", "9">>
Digit == {Digits[d] : d \in 1..10}
Blank == {" ", "HT", "LF", "VT", "FF", "CR"}

ASSUME KeysAssumption == Keys \subseteq Char
ASSUME NumbersAssumption ==
  /\ Weights \subseteq Nat
  /\ IntMax \in Nat
  /\ InitialTarget \in 0..IntMax
  /\ Mantissa \in Nat \ {0}
  /\ MaxTyped \in Nat
\* The built-in password can be typed as an attempt: it fits, and its first
\* character is not the one that begins a setting.
ASSUME InitialAssumption ==
  /\ InitialPassword \in Seq(Chars)
  /\ Len(InitialPassword) <= MAX_PASSWORD_LENGTH - 2
  /\ InitialPassword # <<>> => InitialPassword[1] # "0"

VARIABLES
  target_weight,   \* the goal, a float
  g_state,         \* LOCKED or UNLOCKED, from StateMachine.cpp
  typed            \* history: every key since the last '*' or '#', kept or not

vars == <<target, guess, currentIndex, target_weight, g_state, typed>>

-----------------------------------------------------------------------------

DigitValue(c) == CHOOSE d \in 0..9 : Digits[d + 1] = c

\* The first character at off or behind it that is not in S.
FirstOther(buf, off, S) ==
  LET others == {k \in off..MAX_PASSWORD_LENGTH :
                   k = MAX_PASSWORD_LENGTH \/ buf[k] \notin S}
  IN  CHOOSE k \in others : \A j \in others : k <= j

\* The decimal value of the digits up to the first other character.
number(buf, off) ==
  LET stop == FirstOther(buf, off, Digit)
      value[n \in 0..(stop - off)] ==
        IF n = 0 THEN 0 ELSE 10 * value[n - 1] + DigitValue(buf[off + n - 1])
  IN  value[stop - off]

\* atoi(&buf[off]): blanks are skipped, then there may be a sign; what does
\* not fit an int is the nearest one.
atoi(buf, off) ==
  LET start  == FirstOther(buf, off, Blank)
      signed == start < MAX_PASSWORD_LENGTH /\ buf[start] \in {"+", "-"}
      n      == number(buf, IF signed THEN start + 1 ELSE start)
  IN  IF signed /\ buf[start] = "-"
      THEN IF n > IntMax + 1 THEN -IntMax - 1 ELSE -n
      ELSE IF n > IntMax THEN IntMax ELSE n

TwoTo[e \in Nat] == IF e = 0 THEN 1 ELSE 2 * TwoTo[e - 1]

\* The exponent of the float next to n.
Exponent(n) ==
  CHOOSE e \in 0..n : /\ n < TwoTo[Mantissa + e]
                      /\ e > 0 => n >= TwoTo[Mantissa + e - 1]

\* A natural number as a float: exact below 2^Mantissa, above that the
\* nearest multiple of a power of two, ties to even.
rounded(n) ==
  LET unit == TwoTo[Exponent(n)]
      q    == n \div unit
      r    == n % unit
      up   == 2 * r > unit \/ (2 * r = unit /\ q % 2 = 1)
  IN  unit * (IF up THEN q + 1 ELSE q)

\* The conversion of an int to float.
toFloat(n) == IF n >= 0 THEN rounded(n) ELSE -rounded(-n)

Init ==
  /\ Password(InitialPassword)
  /\ target_weight = toFloat(InitialTarget)
  /\ g_state = "LOCKED"
  /\ typed = <<>>

\* checkPassword(): unlocked only by the password, a scale that has been
\* used, and a weight below the goal.
checkPassword(stable, weight) ==
  g_state' = IF /\ evaluate(target, guess)
                /\ stable # "initial"
                /\ weight < target_weight
             THEN "UNLOCKED" ELSE g_state

\* Mutant: the goal is kept as an integer.
StarGoalInteger ==
  /\ guess[0] = "0" /\ guess[1] = "0"
  /\ target_weight' = atoi(guess, 2)
  /\ UNCHANGED <<target, g_state>>

\* case '*', first branch: "00" and a number sets the goal.
StarGoal ==
  /\ guess[0] = "0" /\ guess[1] = "0"
  /\ target_weight' = toFloat(atoi(guess, 2))
  /\ UNCHANGED <<target, g_state>>

\* Mutant: the new password is taken with the '0' in front of it.
StarPasswordWhole ==
  /\ guess[0] = "0" /\ guess[1] # "0"
  /\ set(guess, 0)
  /\ UNCHANGED <<target_weight, g_state>>

\* second branch: "0" and anything else sets the password.
StarPassword ==
  /\ guess[0] = "0" /\ guess[1] # "0"
  /\ set(guess, 1)
  /\ UNCHANGED <<target_weight, g_state>>

\* third branch: an attempt to unlock.
StarAttempt(stable, weight) ==
  /\ guess[0] # "0"
  /\ checkPassword(stable, weight)
  /\ UNCHANGED <<target, target_weight>>

Star(stable, weight) ==
  /\ g_state = "LOCKED"
  /\ StarGoal \/ StarPassword \/ StarAttempt(stable, weight)
  /\ reset
  /\ typed' = <<>>

Hash ==
  /\ g_state = "LOCKED"
  /\ reset
  /\ typed' = <<>>
  /\ UNCHANGED <<target, target_weight, g_state>>

Press(key) ==
  /\ g_state = "LOCKED"
  /\ Len(typed) < MaxTyped
  /\ append(key)
  /\ typed' = Append(typed, key)
  /\ UNCHANGED <<target, target_weight, g_state>>

\* com_main() sees the door close.
DoorClosed ==
  /\ g_state' = "LOCKED"
  /\ UNCHANGED <<target, guess, currentIndex, target_weight, typed>>

Next ==
  \/ \E stable \in {"initial", "determined"}, weight \in Weights :
        Star(stable, weight)
  \/ Hash
  \/ \E key \in Keys : Press(key)
  \/ DoorClosed

Spec == Init /\ [][Next]_vars

-----------------------------------------------------------------------------

TypeOK ==
  /\ target \in Buffer
  /\ guess \in Buffer
  /\ currentIndex \in Index
  /\ target_weight \in Int
  /\ g_state \in {"LOCKED", "UNLOCKED"}
  /\ typed \in Seq(Keys)

\* Whatever has been typed, also past the end of the array, the password in
\* force can be entered and accepted: evaluate() sees its terminator, and it
\* does not begin with the '0' that the keypad takes for a setting.
NoLockout ==
  /\ evaluate(target, target)
  /\ target[0] # "0"

\* The keys s, up to the first terminator among them, spell the string in buf.
Spells(s, buf) ==
  \E n \in Index :
     /\ n <= Len(s)
     /\ n < Len(s) => s[n + 1] = STRING_TERMINATOR
     /\ buf[n] = STRING_TERMINATOR
     /\ \A k \in 1..n : s[k] = buf[k - 1] /\ s[k] # STRING_TERMINATOR

\* The lock opens only on the complete list of keys pressed since the last
\* '*' or '#': characters refused by a full buffer, or left over behind a
\* terminator, never turn a wrong entry into the password.
OnlyTheSecretOpens ==
  [][g_state = "LOCKED" /\ g_state' = "UNLOCKED" => Spells(typed, target)]_vars

\* What ties the buffer to the keys pressed; inductive.
GuessInv ==
  /\ guess[currentIndex] = STRING_TERMINATOR
  /\ Len(typed) >= currentIndex
  /\ \A k \in 1..currentIndex : typed[k] = guess[k - 1]
  /\ currentIndex < MAX_PASSWORD_LENGTH - 1 => Len(typed) = currentIndex
TargetInv ==
  /\ \E k \in 0..(MAX_PASSWORD_LENGTH - 2) : target[k] = STRING_TERMINATOR
  /\ target[0] # "0"
BufferInv == GuessInv /\ TargetInv

\* Abstraction to strings, see KeypadSpec.tla.
Abstract == INSTANCE KeypadSpec WITH
  Capacity <- MAX_PASSWORD_LENGTH - 1,
  secret   <- CString(target),
  entry    <- CString(guess),
  goal     <- target_weight,
  mode     <- g_state

\* The buffers implement strings, also past their end and when a failed read
\* delivers a terminator as a key (what is typed behind it is not seen), a
\* sign or a blank.
ImplementsKeypadSpec == Abstract!Spec
=============================================================================
