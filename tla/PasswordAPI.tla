---------------------------- MODULE PasswordAPI ----------------------------
(***************************************************************************)
(* Every public call of the Password class, in any order.  The lock        *)
(* program uses only some of them (Keypad.tla); this module is the class   *)
(* on its own, with the answer of the last call that gives one.            *)
(***************************************************************************)
EXTENDS Password

VARIABLE answer   \* [of |-> the string compared, is |-> the boolean returned]

apiVars == <<target, guess, currentIndex, answer>>

NoAnswer == [call |-> "none", of |-> <<>>, is |-> FALSE]

\* The string given to the constructor fits the array.
APIInit ==
  /\ \E n \in Index : \E pass \in [1..n -> Chars] : Password(pass)
  /\ answer = NoAnswer

\* set() and operator=: the caller's string fits the array.
Fits(pass) == Ends(pass) # {}

SetPassword(pass) ==
  /\ Fits(pass)
  /\ set(pass, 0)
  /\ answer' = NoAnswer
  /\ UNCHANGED <<guess, currentIndex>>

\* append() and operator<<.
Append_(character) ==
  /\ append(character)
  /\ answer' = NoAnswer
  /\ UNCHANGED target

Reset ==
  /\ reset
  /\ answer' = NoAnswer
  /\ UNCHANGED target

Evaluate ==
  /\ answer' = [call |-> "evaluate", of |-> CString(guess),
                is |-> evaluate(target, guess)]
  /\ UNCHANGED <<target, guess, currentIndex>>

\* is() and operator==, operator!=: the loop tests *pass, the first
\* character, and not pass[i], so a non-empty argument is copied for the
\* whole length of the array, whatever lies behind its terminator, and an
\* empty argument is not copied at all.  currentIndex stays.
Is(pass) ==
  /\ Fits(pass)
  /\ guess' = IF pass[0] # STRING_TERMINATOR THEN pass ELSE guess
  /\ answer' = [call |-> "is", of |-> CString(pass),
                is |-> evaluate(target, guess')]
  /\ UNCHANGED <<target, currentIndex>>

APINext ==
  \/ \E pass \in Buffer : SetPassword(pass) \/ Is(pass)
  \/ \E c \in Chars : Append_(c)
  \/ Reset
  \/ Evaluate

APISpec == APIInit /\ [][APINext]_apiVars

-----------------------------------------------------------------------------

\* No call leaves an array or the index outside its bounds: the index is
\* always that of a cell, and append() can write behind it unless it refuses.
APITypeOK ==
  /\ target \in Buffer
  /\ guess \in Buffer
  /\ currentIndex \in Index
  /\ answer \in [call : {"none", "evaluate", "is"}, of : Seq(Chars), is : BOOLEAN]

\* evaluate() against its reference: the strings are equal, and short enough
\* for the loop to see both terminators.  Stale characters behind a
\* terminator, which set(), reset() and is() leave there, never matter.
EvaluateIsShortEquality ==
  evaluate(target, guess) <=>
     /\ CString(target) = CString(guess)
     /\ strlen(target) < MAX_PASSWORD_LENGTH - 1

\* What Password.cpp:82 says of evaluate(): "is the current guessed password
\* equal to the target password?".  Not what the code does: set() and
\* append() accept a string that fills the array, and evaluate() leaves its
\* loop before it sees the terminator, so that equal strings of that length
\* are called different.
EvaluateSaysEqual ==
  answer.call = "evaluate" => (answer.is <=> answer.of = CString(target))
=============================================================================
