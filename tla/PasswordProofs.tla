--------------------------- MODULE PasswordProofs ---------------------------
(***************************************************************************)
(* The Password class and the keypad handling on top of it, for every      *)
(* array size, alphabet and set of keys: no call leaves the arrays,        *)
(* evaluate() is equality of strings whatever lies behind their            *)
(* terminators, the password can always be typed, only the password opens  *)
(* the lock, and the buffers implement the strings of KeypadSpec.          *)
(***************************************************************************)
EXTENDS Keypad, PasswordAPI, SequenceTheorems, Induction

-----------------------------------------------------------------------------
\* C strings in arrays.

LEMMA IndexNat == Index \subseteq Nat
BY MaxAssumption DEF Index

\* strlen() is where the first terminator is, or the size of the array.
LEMMA StrlenFacts ==
  ASSUME NEW buf \in Buffer
  PROVE  /\ strlen(buf) \in 0..MAX_PASSWORD_LENGTH
         /\ strlen(buf) < MAX_PASSWORD_LENGTH => buf[strlen(buf)] = STRING_TERMINATOR
         /\ \A j \in Index : j < strlen(buf) => buf[j] # STRING_TERMINATOR
PROOF
<1>1. CASE Ends(buf) = {}
  <2>1. strlen(buf) = MAX_PASSWORD_LENGTH
    BY <1>1 DEF strlen
  <2> QED BY <1>1, <2>1, MaxAssumption DEF Ends
<1>2. CASE Ends(buf) # {}
  <2>1. \E k \in Ends(buf) : \A j \in Ends(buf) : k <= j
    BY <1>2, IndexNat, LeastNat DEF Ends
  <2>2. strlen(buf) \in Ends(buf) /\ \A j \in Ends(buf) : strlen(buf) <= j
    BY <1>2, <2>1 DEF strlen
  <2>3. strlen(buf) \in Index /\ buf[strlen(buf)] = STRING_TERMINATOR
    BY <2>2 DEF Ends
  <2>4. \A j \in Index : j < strlen(buf) => buf[j] # STRING_TERMINATOR
    BY <2>2, <2>3, MaxAssumption DEF Ends, Index
  <2> QED BY <2>3, <2>4, MaxAssumption DEF Index
<1> QED BY <1>1, <1>2

\* The first terminator is all that strlen() depends on.
LEMMA StrlenIs ==
  ASSUME NEW buf \in Buffer, NEW n \in Index, buf[n] = STRING_TERMINATOR,
         \A j \in 0..(n - 1) : buf[j] # STRING_TERMINATOR
  PROVE  strlen(buf) = n
PROOF
<1>1. strlen(buf) \in 0..MAX_PASSWORD_LENGTH /\ n \in 0..(MAX_PASSWORD_LENGTH - 1)
  BY StrlenFacts DEF Index
<1>2. ~(n < strlen(buf))
  BY StrlenFacts
<1>3. ~(strlen(buf) < n)
  <2> SUFFICES ASSUME strlen(buf) < n PROVE FALSE
    OBVIOUS
  <2>1. buf[strlen(buf)] = STRING_TERMINATOR
    BY <1>1, StrlenFacts, MaxAssumption
  <2> QED BY <1>1, <2>1
<1> QED BY <1>1, <1>2, <1>3

LEMMA CStringType ==
  ASSUME NEW buf \in Buffer PROVE CString(buf) \in Seq(Chars)
PROOF
<1>1. strlen(buf) \in Nat
  BY StrlenFacts, MaxAssumption
<1>2. ASSUME NEW k \in 1..strlen(buf) PROVE buf[k - 1] \in Chars
  <2>1. k - 1 \in Index /\ k - 1 < strlen(buf)
    BY <1>1, <1>2, StrlenFacts, MaxAssumption DEF Index
  <2>2. buf[k - 1] \in Char /\ buf[k - 1] # STRING_TERMINATOR
    BY <2>1, StrlenFacts DEF Buffer
  <2> QED BY <2>2 DEF Char
<1>3. CString(buf) \in [1..strlen(buf) -> Chars]
  BY <1>2 DEF CString
<1> QED BY <1>1, <1>3

\* strcpy() (Password.cpp:43) leaves an array in the destination.
LEMMA StrcpyType ==
  ASSUME NEW dst \in Buffer, NEW src \in Buffer, NEW off \in Nat
  PROVE  strcpy(dst, src, off) \in Buffer
BY MaxAssumption DEF strcpy, Buffer, Index

\* A terminator of src at e, off cells or more into it, gives the copy of
\* &src[off] a terminator no later than e - off.
LEMMA StrcpyEnds ==
  ASSUME NEW dst \in Buffer, NEW src \in Buffer, NEW off \in Nat,
         NEW e \in Index, off <= e, src[e] = STRING_TERMINATOR
  PROVE  \E k \in 0..(e - off) : strcpy(dst, src, off)[k] = STRING_TERMINATOR
PROOF
<1> DEFINE S == {j \in off..e : src[j] = STRING_TERMINATOR}
<1>1. S \subseteq Nat /\ e \in S
  BY MaxAssumption DEF Index
<1>2. PICK m \in S : \A j \in S : m <= j
  BY <1>1, LeastNat
<1> DEFINE k == m - off
<1>3. m \in off..e /\ k \in 0..(e - off) /\ k \in Index /\ off + k = m
  BY <1>2, MaxAssumption DEF Index
<1>4. \A j \in off..(m - 1) : src[j] # STRING_TERMINATOR
  BY <1>2, <1>3, MaxAssumption DEF Index
<1>5. m \in Index
  BY <1>3, MaxAssumption DEF Index
<1>6. strcpy(dst, src, off)[k] = src[m]
  BY <1>3, <1>4, <1>5 DEF strcpy
<1> QED BY <1>2, <1>3, <1>6

\* evaluate() accepts a string against itself when its terminator is in a
\* cell the loop looks at.
LEMMA EvaluateReflexive ==
  ASSUME NEW t \in Buffer,
         NEW e \in 0..(MAX_PASSWORD_LENGTH - 2), t[e] = STRING_TERMINATOR
  PROVE  evaluate(t, t)
PROOF
<1> DEFINE S == {j \in 0..e : t[j] = STRING_TERMINATOR}
<1>1. S \subseteq Nat /\ e \in S
  BY MaxAssumption
<1>2. PICK m \in S : \A j \in S : m <= j
  BY <1>1, LeastNat
<1>3. /\ m + 1 \in 1..(MAX_PASSWORD_LENGTH - 1)
      /\ (m + 1) - 1 = m
      /\ (m + 1) - 2 = m - 1
      /\ t[m] = STRING_TERMINATOR
  BY <1>2, MaxAssumption
<1>4. \A j \in 0..(m - 1) : t[j] # STRING_TERMINATOR
  BY <1>2, MaxAssumption
<1> QED BY <1>3, <1>4 DEF evaluate

\* evaluate() (Password.cpp) is equality of strings that are short enough.
LEMMA EvaluateIsEquality ==
  ASSUME NEW t \in Buffer, NEW g \in Buffer
  PROVE  evaluate(t, g) <=> CString(t) = CString(g) /\ strlen(t) < MAX_PASSWORD_LENGTH - 1
PROOF
<1>0. strlen(t) \in 0..MAX_PASSWORD_LENGTH /\ strlen(g) \in 0..MAX_PASSWORD_LENGTH
  BY StrlenFacts
<1>1. ASSUME evaluate(t, g) PROVE CString(t) = CString(g) /\ strlen(t) < MAX_PASSWORD_LENGTH - 1
  <2>1. PICK i \in 1..(MAX_PASSWORD_LENGTH - 1) :
          /\ t[i - 1] = STRING_TERMINATOR /\ g[i - 1] = STRING_TERMINATOR
          /\ \A j \in 0..(i - 2) : t[j] = g[j] /\ t[j] # STRING_TERMINATOR
    BY <1>1 DEF evaluate
  <2>2. PICK n \in Index : n = i - 1
    BY MaxAssumption DEF Index
  <2>3. \A j \in 0..(n - 1) : t[j] = g[j] /\ t[j] # STRING_TERMINATOR
    BY <2>1, <2>2, MaxAssumption
  <2>4. strlen(t) = n /\ strlen(g) = n
    BY <2>1, <2>2, <2>3, StrlenIs
  <2>5. \A k \in 1..n : t[k - 1] = g[k - 1]
    BY <2>2, <2>3, MaxAssumption DEF Index
  <2>6. CString(t) = CString(g)
    BY <2>4, <2>5 DEF CString
  <2> QED BY <2>2, <2>4, <2>6, MaxAssumption
<1>2. ASSUME CString(t) = CString(g), strlen(t) < MAX_PASSWORD_LENGTH - 1 PROVE evaluate(t, g)
  <2>1. 1..strlen(t) = 1..strlen(g)
    <3>1. DOMAIN CString(t) = 1..strlen(t) /\ DOMAIN CString(g) = 1..strlen(g)
      BY DEF CString
    <3> QED BY <1>2, <3>1
  <2>2. strlen(t) = strlen(g)
    BY <1>0, <2>1, MaxAssumption
  <2>3. t[strlen(t)] = STRING_TERMINATOR /\ g[strlen(t)] = STRING_TERMINATOR
    BY <1>0, <1>2, <2>2, StrlenFacts, MaxAssumption
  <2>4. ASSUME NEW j \in 0..(strlen(t) - 1) PROVE t[j] = g[j] /\ t[j] # STRING_TERMINATOR
    <3>1. j + 1 \in 1..strlen(t) /\ (j + 1) - 1 = j /\ j \in Index /\ j < strlen(t)
      BY <1>0, <2>4, MaxAssumption DEF Index
    <3>2. CString(t)[j + 1] = t[j] /\ CString(g)[j + 1] = g[j]
      BY <2>2, <3>1 DEF CString
    <3> QED BY <1>2, <3>1, <3>2, StrlenFacts
  <2>5. PICK i \in 1..(MAX_PASSWORD_LENGTH - 1) : i = strlen(t) + 1
    BY <1>0, <1>2, MaxAssumption
  <2>6. i - 1 = strlen(t) /\ i - 2 = strlen(t) - 1
    BY <1>0, <2>5
  <2> QED BY <2>3, <2>4, <2>6 DEF evaluate
<1> QED BY <1>1, <1>2

-----------------------------------------------------------------------------
\* The calls of the class, in any order.

LEMMA APIInitTypeOK == APIInit => APITypeOK
PROOF
<1> SUFFICES ASSUME APIInit PROVE APITypeOK
  OBVIOUS
<1> USE MaxAssumption, CharsAssumption DEF APIInit
<1>0. PICK n \in Index : \E pass \in [1..n -> Chars] : Password(pass)
  OBVIOUS
<1>1. PICK pass \in [1..n -> Chars] : Password(pass)
  BY <1>0
<1>2. pass \in Seq(Chars) /\ Len(pass) = n
  BY DEF Index
<1>3. Literal(pass) \in Buffer /\ Literal(<<>>) \in Buffer
  BY <1>2 DEF Literal, Buffer, Index, Char
<1> QED BY <1>1, <1>3 DEF Password, APITypeOK, Index, NoAnswer

LEMMA APINextTypeOK == APITypeOK /\ [APINext]_apiVars => APITypeOK'
PROOF
<1> SUFFICES ASSUME APITypeOK, [APINext]_apiVars PROVE APITypeOK'
  OBVIOUS
<1>0. /\ target \in Buffer /\ guess \in Buffer /\ currentIndex \in Index
      /\ STRING_TERMINATOR \in Char /\ Chars \subseteq Char
  BY DEF APITypeOK, Char
<1>1. NoAnswer \in [call : {"none", "evaluate", "is"}, of : Seq(Chars), is : BOOLEAN]
  BY DEF NoAnswer
<1>2. ASSUME NEW pass \in Buffer, SetPassword(pass) PROVE APITypeOK'
  <2>1. strcpy(target, pass, 0) \in Buffer
    BY <1>0, StrcpyType
  <2> QED BY <1>0, <1>1, <1>2, <2>1 DEF SetPassword, set, APITypeOK
<1>3. ASSUME NEW pass \in Buffer, Is(pass) PROVE APITypeOK'
  <2>1. guess' \in Buffer
    BY <1>0, <1>3 DEF Is
  <2>2. CString(pass) \in Seq(Chars)
    BY CStringType
  <2>3. evaluate(target, guess') \in BOOLEAN
    BY DEF evaluate
  <2>4. answer' \in [call : {"none", "evaluate", "is"}, of : Seq(Chars), is : BOOLEAN]
    BY <1>3, <2>2, <2>3 DEF Is
  <2> QED BY <1>0, <1>3, <2>1, <2>4 DEF Is, APITypeOK
<1>4. ASSUME NEW c \in Chars, Append_(c) PROVE APITypeOK'
  <2>1. guess' \in Buffer /\ currentIndex' \in Index
    <3>1. CASE currentIndex + 1 = MAX_PASSWORD_LENGTH
      BY <1>0, <1>4, <3>1 DEF Append_, append
    <3>2. CASE currentIndex + 1 # MAX_PASSWORD_LENGTH
      <4>1. currentIndex' = currentIndex + 1 /\ currentIndex' \in Index
        BY <1>0, <1>4, <3>2, MaxAssumption DEF Append_, append, Index
      <4>2. guess' \in Buffer
        BY <1>0, <1>4, <3>2 DEF Append_, append, Buffer
      <4> QED BY <4>1, <4>2
    <3> QED BY <3>1, <3>2
  <2> QED BY <1>0, <1>1, <1>4, <2>1 DEF Append_, APITypeOK
<1>5. CASE Reset
  <2>1. guess' \in Buffer /\ currentIndex' \in Index
    BY <1>0, <1>5, MaxAssumption DEF Reset, reset, Buffer, Index
  <2> QED BY <1>0, <1>1, <1>5, <2>1 DEF Reset, APITypeOK
<1>6. CASE Evaluate
  <2>1. CString(guess) \in Seq(Chars)
    BY <1>0, CStringType
  <2>2. evaluate(target, guess) \in BOOLEAN
    BY DEF evaluate
  <2> QED BY <1>0, <1>6, <2>1, <2>2 DEF Evaluate, APITypeOK
<1>7. CASE UNCHANGED apiVars
  BY <1>7 DEF apiVars, APITypeOK
<1> QED BY <1>2, <1>3, <1>4, <1>5, <1>6, <1>7 DEF APINext

\* No sequence of calls of the Password class moves currentIndex past the last
\* cell or writes outside target and guess (append, set, is, reset).
THEOREM PasswordTypes == APISpec => []APITypeOK
BY APIInitTypeOK, APINextTypeOK, PTL DEF APISpec

\* Password::evaluate() says after any sequence of calls whether the two
\* strings are equal and short enough; the characters that set(), reset() and
\* is() leave behind a terminator never matter.
THEOREM EvaluateAlwaysEquality == APISpec => []EvaluateIsShortEquality
PROOF
<1>1. APITypeOK => EvaluateIsShortEquality
  BY EvaluateIsEquality DEF APITypeOK, EvaluateIsShortEquality
<1> QED BY <1>1, PasswordTypes, PTL

-----------------------------------------------------------------------------
\* The keypad.

\* The part of TypeOK that the buffers need; GoalType, further down, is the
\* rest.
BufferType ==
  /\ target \in Buffer
  /\ guess \in Buffer
  /\ currentIndex \in Index
  /\ g_state \in {"LOCKED", "UNLOCKED"}
  /\ typed \in Seq(Keys)

Inv == BufferType /\ BufferInv

LEMMA InitInv == Init => Inv
PROOF
<1> SUFFICES ASSUME Init PROVE Inv
  OBVIOUS
<1> USE MaxAssumption, CharsAssumption, InitialAssumption DEF Init, Password
<1>1. Literal(InitialPassword) \in Buffer /\ Literal(<<>>) \in Buffer
  BY DEF Literal, Buffer, Index, Char
<1>2. BufferType
  BY <1>1 DEF BufferType, Index
<1>3. GuessInv
  BY DEF GuessInv, Literal, Index
<1>4. Literal(InitialPassword)[Len(InitialPassword)] = STRING_TERMINATOR
  BY DEF Literal, Index
<1>5. Literal(InitialPassword)[0] # "0"
  <2>1. CASE InitialPassword = <<>>
    BY <2>1 DEF Literal, Index, STRING_TERMINATOR
  <2>2. CASE InitialPassword # <<>>
    BY <2>2 DEF Literal, Index, STRING_TERMINATOR
  <2> QED BY <2>1, <2>2
<1>6. TargetInv
  BY <1>4, <1>5 DEF TargetInv
<1> QED BY <1>2, <1>3, <1>6 DEF Inv, BufferInv

\* append() (Password.cpp:57-65) keeps the buffer and the keys in step.
LEMMA PressInv ==
  ASSUME Inv, NEW key \in Keys, Press(key)
  PROVE  Inv'
PROOF
<1> USE MaxAssumption, KeysAssumption DEF Inv, BufferType
<1>1. target' = target /\ g_state' = g_state /\ TargetInv'
  BY DEF Press, BufferInv, TargetInv
<1>2. typed' = Append(typed, key) /\ typed' \in Seq(Keys)
  BY DEF Press
<1>3. CASE currentIndex + 1 = MAX_PASSWORD_LENGTH
  <2>1. UNCHANGED <<guess, currentIndex>>
    BY <1>3 DEF Press, append
  <2>2. GuessInv'
    BY <1>2, <1>3, <2>1 DEF BufferInv, GuessInv, Index
  <2> QED BY <1>1, <1>2, <2>1, <2>2 DEF BufferInv
<1>4. CASE currentIndex + 1 # MAX_PASSWORD_LENGTH
  <2>1. /\ currentIndex' = currentIndex + 1
        /\ guess' = [guess EXCEPT ![currentIndex] = key,
                                  ![currentIndex + 1] = STRING_TERMINATOR]
    BY <1>4 DEF Press, append
  <2>2. currentIndex' \in Index /\ currentIndex \in Index
    BY <1>4, <2>1 DEF Index
  <2>3. guess' \in Buffer
    BY <2>1, <2>2 DEF Buffer, Char
  <2>4. /\ guess'[currentIndex'] = STRING_TERMINATOR
        /\ guess'[currentIndex] = key
        /\ \A j \in Index : j < currentIndex => guess'[j] = guess[j]
    BY <2>1, <2>2 DEF Buffer, Index
  <2>5. Len(typed) = currentIndex
    BY <1>4 DEF BufferInv, GuessInv, Index
  <2>6. Len(typed') = currentIndex' /\ typed'[currentIndex'] = key
    BY <1>2, <2>1, <2>5
  <2>7. ASSUME NEW k \in 1..currentIndex' PROVE typed'[k] = guess'[k - 1]
    <3>1. CASE k = currentIndex'
      BY <3>1, <2>1, <2>2, <2>4, <2>6 DEF Index
    <3>2. CASE k # currentIndex'
      <4>1. k \in 1..currentIndex /\ k - 1 \in Index
        BY <3>2, <2>1, <2>2 DEF Index
      <4>2. typed[k] = guess[k - 1]
        BY <4>1 DEF BufferInv, GuessInv
      <4>3. guess'[k - 1] = guess[k - 1]
        BY <4>1, <2>2, <2>4 DEF Index
      <4>4. typed'[k] = typed[k]
        BY <4>1, <1>2, <2>5
      <4> QED BY <4>2, <4>3, <4>4
    <3> QED BY <3>1, <3>2
  <2>8. GuessInv'
    BY <2>2, <2>4, <2>6, <2>7 DEF GuessInv, Index
  <2> QED BY <1>1, <1>2, <2>2, <2>3, <2>8 DEF BufferInv
<1> QED BY <1>3, <1>4

\* reset() (Password.cpp:68-71) empties the guess.
LEMMA ResetInv ==
  ASSUME BufferType, reset, typed' = <<>>
  PROVE  guess' \in Buffer /\ currentIndex' \in Index /\ GuessInv'
BY MaxAssumption DEF BufferType, reset, GuessInv, Buffer, Index, Char

\* A new password (main.cpp:154-155) ends one cell before the guess it is
\* taken from, which is always in time for evaluate().
LEMMA StarPasswordInv ==
  ASSUME Inv, StarPassword
  PROVE  target' \in Buffer /\ TargetInv'
PROOF
<1> USE MaxAssumption DEF Inv, BufferType
<1>1. target' = strcpy(target, guess, 1) /\ guess[0] = "0" /\ guess[1] # "0"
  BY DEF StarPassword, set
<1>2. target' \in Buffer
  BY <1>1, StrcpyType
<1>3. guess[currentIndex] = STRING_TERMINATOR /\ currentIndex \in Index
  BY DEF BufferInv, GuessInv
<1>4. currentIndex >= 1
  BY <1>1, <1>3 DEF Index, STRING_TERMINATOR
<1>5. \E k \in 0..(currentIndex - 1) : target'[k] = STRING_TERMINATOR
  BY <1>1, <1>3, <1>4, StrcpyEnds
<1>6. target'[0] = guess[1]
  BY <1>1 DEF strcpy, Index
<1> QED BY <1>1, <1>2, <1>3, <1>5, <1>6 DEF TargetInv, Index

LEMMA NextInv == Inv /\ [Next]_vars => Inv'
PROOF
<1> SUFFICES ASSUME Inv, [Next]_vars PROVE Inv'
  OBVIOUS
<1> USE DEF Inv, BufferType
<1>1. ASSUME NEW stable, NEW weight, Star(stable, weight) PROVE Inv'
  <2>1. guess' \in Buffer /\ currentIndex' \in Index /\ GuessInv' /\ typed' \in Seq(Keys)
    BY <1>1, ResetInv DEF Star
  <2>2. CASE StarGoal
    BY <2>1, <2>2 DEF StarGoal, BufferInv, TargetInv
  <2>3. CASE StarPassword
    BY <2>1, <2>3, StarPasswordInv DEF StarPassword, BufferInv
  <2>4. CASE StarAttempt(stable, weight)
    BY <2>1, <2>4 DEF StarAttempt, checkPassword, BufferInv, TargetInv
  <2> QED BY <1>1, <2>2, <2>3, <2>4 DEF Star
<1>2. CASE Hash
  BY <1>2, ResetInv DEF Hash, BufferInv, TargetInv
<1>3. ASSUME NEW key \in Keys, Press(key) PROVE Inv'
  BY <1>3, PressInv
<1>4. CASE DoorClosed
  BY <1>4 DEF DoorClosed, BufferInv, GuessInv, TargetInv
<1>5. CASE UNCHANGED vars
  BY <1>5 DEF vars, BufferInv, GuessInv, TargetInv
<1> QED BY <1>1, <1>2, <1>3, <1>4, <1>5 DEF Next

\* The typed part of the state and the inductive invariant.
THEOREM Invariance == Spec => []Inv
BY InitInv, NextInv, PTL DEF Spec

\* BufferInv for arrays of every size: the buffer agrees with the keys, the
\* password is terminated where evaluate() looks and begins with no '0'.
THEOREM BufferInvariance == Spec => []BufferInv
BY Invariance, PTL DEF Inv

\* No sequence of keys can leave a password that the keypad cannot enter or
\* evaluate() cannot accept.
THEOREM NoLockoutTheorem == Spec => []NoLockout
PROOF
<1>1. Inv => NoLockout
  BY EvaluateReflexive DEF Inv, BufferType, BufferInv, TargetInv, NoLockout
<1> QED BY <1>1, Invariance, PTL

\* In a state that satisfies the invariant, evaluate() is true only when the
\* keys pressed spell the password.
LEMMA EvaluateSpells ==
  ASSUME Inv, evaluate(target, guess)
  PROVE  Spells(typed, target)
PROOF
<1> USE MaxAssumption DEF Inv, BufferType
<1>1. PICK i \in 1..(MAX_PASSWORD_LENGTH - 1) :
         /\ target[i - 1] = STRING_TERMINATOR
         /\ guess[i - 1] = STRING_TERMINATOR
         /\ \A j \in 0..(i - 2) : target[j] = guess[j] /\ target[j] # STRING_TERMINATOR
  BY DEF evaluate
<1> DEFINE n == i - 1
<1>2. n \in Index /\ n < MAX_PASSWORD_LENGTH - 1 /\ n + 1 = i
  BY DEF Index
<1>3. n <= currentIndex
  <2>1. SUFFICES ASSUME currentIndex < n PROVE FALSE
    BY <1>2 DEF Index
  <2>2. currentIndex \in 0..(i - 2)
    BY <1>2, <2>1 DEF Index
  <2>3. guess[currentIndex] = STRING_TERMINATOR
    BY DEF BufferInv, GuessInv
  <2> QED BY <1>1, <2>2, <2>3
<1>4. n <= Len(typed)
  BY <1>2, <1>3 DEF BufferInv, GuessInv, Index
<1>5. n < Len(typed) => typed[n + 1] = STRING_TERMINATOR
  <2>1. SUFFICES ASSUME n < Len(typed) PROVE typed[n + 1] = STRING_TERMINATOR
    OBVIOUS
  <2>2. n < currentIndex
    BY <1>2, <1>3, <2>1 DEF BufferInv, GuessInv, Index
  <2>3. typed[n + 1] = guess[n]
    BY <1>2, <2>2 DEF BufferInv, GuessInv, Index
  <2> QED BY <1>1, <2>3
<1>6. ASSUME NEW k \in 1..n PROVE typed[k] = target[k - 1] /\ typed[k] # STRING_TERMINATOR
  <2>1. k - 1 \in 0..(i - 2) /\ k \in 1..currentIndex
    BY <1>2, <1>3 DEF Index
  <2>2. typed[k] = guess[k - 1]
    BY <2>1 DEF BufferInv, GuessInv
  <2> QED BY <1>1, <2>1, <2>2
<1> HIDE DEF n
<1>7. target[n] = STRING_TERMINATOR
  BY <1>1 DEF n
<1> QED BY <1>2, <1>4, <1>5, <1>6, <1>7 DEF Spells

\* Only the password, completely typed, opens the lock.
THEOREM OnlyTheSecretOpensTheorem == Spec => OnlyTheSecretOpens
PROOF
<1>1. ASSUME Inv, [Next]_vars, g_state = "LOCKED", g_state' = "UNLOCKED"
      PROVE  Spells(typed, target)
  <2>1. PICK stable, weight : Star(stable, weight)
    BY <1>1 DEF Next, Hash, Press, DoorClosed, vars
  <2>2. evaluate(target, guess)
    BY <1>1, <2>1 DEF Star, StarGoal, StarPassword, StarAttempt, checkPassword
  <2> QED BY <1>1, <2>2, EvaluateSpells
<1> QED BY <1>1, Invariance, PTL DEF Spec, OnlyTheSecretOpens

-----------------------------------------------------------------------------
\* The float next to an integer.

LEMMA TwoToIs == Powers(2, TwoTo)
BY PowersDefined DEF TwoTo

LEMMA TwoToStep ==
  ASSUME NEW k \in Nat
  PROVE  TwoTo[k] \in Nat /\ k + 1 \in Nat /\ TwoTo[k + 1] = 2 * TwoTo[k]
BY TwoToIs DEF Powers

LEMMA TwoToZero == TwoTo[0] = 1
BY TwoToIs DEF Powers

LEMMA TwoToGrows == \A k \in Nat : k < TwoTo[k]
PROOF
<1> DEFINE T == {k \in Nat : k < TwoTo[k]}
<1>1. 0 \in T
  BY TwoToZero
<1>2. ASSUME NEW k \in Nat, k \in T PROVE k + 1 \in T
  BY <1>2, TwoToStep
<1>3. \A k \in Nat : k \in T
  <2> HIDE DEF T
  <2> QED BY <1>1, <1>2, EveryNat
<1> QED BY <1>3

LEMMA TwoToPlus ==
  ASSUME NEW a \in Nat
  PROVE  \A c \in Nat : TwoTo[a + c] = TwoTo[a] * TwoTo[c]
PROOF
<1> DEFINE T == {c \in Nat : TwoTo[a + c] = TwoTo[a] * TwoTo[c]}
<1>1. 0 \in T
  BY TwoToZero, TwoToStep
<1>2. ASSUME NEW c \in Nat, c \in T PROVE c + 1 \in T
  <2>1. PICK x \in Nat, y \in Nat : x = TwoTo[a] /\ y = TwoTo[c]
    BY TwoToStep
  <2>2. TwoTo[a + c] = x * y /\ a + c \in Nat /\ (a + c) + 1 = a + (c + 1)
    BY <1>2, <2>1
  <2>3. TwoTo[a + (c + 1)] = 2 * (x * y) /\ TwoTo[c + 1] = 2 * y
    BY <2>1, <2>2, TwoToStep
  <2>4. 2 * (x * y) = x * (2 * y)
    OBVIOUS
  <2> QED BY <2>1, <2>3, <2>4
<1>3. \A c \in Nat : c \in T
  <2> HIDE DEF T
  <2> QED BY <1>1, <1>2, EveryNat
<1> QED BY <1>3

\* There is an exponent at which n has Mantissa bits, and not fewer unless it
\* is 0.
LEMMA ExponentIs ==
  ASSUME NEW n \in Nat
  PROVE  /\ Exponent(n) \in 0..n
         /\ n < TwoTo[Mantissa + Exponent(n)]
         /\ Exponent(n) > 0 => n >= TwoTo[Mantissa + Exponent(n) - 1]
PROOF
<1>0. Mantissa \in Nat
  BY NumbersAssumption
<1> DEFINE E == {e \in 0..n : n < TwoTo[Mantissa + e]}
<1>1. E \subseteq Nat /\ n \in E
  <2>1. Mantissa + n \in Nat /\ n <= Mantissa + n
    BY <1>0
  <2>2. Mantissa + n < TwoTo[Mantissa + n] /\ TwoTo[Mantissa + n] \in Nat
    BY <2>1, TwoToGrows, TwoToStep
  <2> QED BY <1>0, <2>1, <2>2
<1>2. \E m \in E : \A j \in E : m <= j
  <2>1. E # {}
    BY <1>1
  <2> HIDE DEF E
  <2> QED BY <1>1, <2>1, LeastNat
<1>3. PICK m \in E : \A j \in E : m <= j
  BY <1>2
<1>4. m \in 0..n /\ n < TwoTo[Mantissa + m]
  BY <1>3
<1>5. ASSUME m > 0 PROVE n >= TwoTo[Mantissa + m - 1]
  <2>1. m - 1 \in 0..n /\ ~(m - 1 \in E) /\ Mantissa + (m - 1) = Mantissa + m - 1
    BY <1>0, <1>3, <1>4, <1>5
  <2>2. ~(n < TwoTo[Mantissa + m - 1]) /\ Mantissa + m - 1 \in Nat
    BY <1>0, <2>1
  <2>3. TwoTo[Mantissa + m - 1] \in Nat
    BY <2>2, TwoToStep
  <2> QED BY <2>2, <2>3
<1> QED BY <1>4, <1>5 DEF Exponent

LEMMA Division ==
  ASSUME NEW n \in Nat, NEW u \in Nat, u > 0
  PROVE  /\ n \div u \in Nat /\ n % u \in Nat /\ n % u < u
         /\ n = u * (n \div u) + (n % u)
OBVIOUS

LEMMA SameTwoTo == Abstract!TwoTo = TwoTo
BY DEF Abstract!TwoTo, TwoTo

LEMMA MagnitudesAre ==
  Abstract!Magnitudes =
    {m * TwoTo[e] : m \in 0..(TwoTo[Mantissa] - 1), e \in 0..(IntMax + 1)}
BY SameTwoTo DEF Abstract!Magnitudes

LEMMA RoundedType ==
  ASSUME NEW n \in Nat PROVE rounded(n) \in Nat
PROOF
<1>1. PICK e \in Nat : e = Exponent(n)
  BY ExponentIs
<1>2. PICK u \in Nat : u = TwoTo[e] /\ u > 0
  BY TwoToStep, TwoToGrows
<1>3. PICK q \in Nat : q = n \div u
  BY <1>2, Division
<1>4. u * q \in Nat /\ u * (q + 1) \in Nat
  OBVIOUS
<1>5. rounded(n) = u * q \/ rounded(n) = u * (q + 1)
  BY <1>1, <1>2, <1>3 DEF rounded
<1> QED BY <1>4, <1>5

\* Between two neighbouring multiples of the unit there is no float.
LEMMA NoFloatBetween ==
  ASSUME NEW n \in Nat, NEW e \in Nat, e = Exponent(n), NEW u \in Nat, u = TwoTo[e],
         NEW q \in Nat, u * q <= n, n < u * (q + 1), NEW g \in Abstract!Magnitudes
  PROVE  g \in Nat /\ (g <= u * q \/ g >= u * (q + 1))
PROOF
<1>0. Mantissa \in Nat /\ Mantissa - 1 \in Nat /\ (Mantissa - 1) + 1 = Mantissa /\ IntMax \in Nat
  BY NumbersAssumption
<1>1. PICK m \in 0..(TwoTo[Mantissa] - 1), f \in 0..(IntMax + 1) : g = m * TwoTo[f]
  BY MagnitudesAre
<1>a. PICK h \in Nat : h = TwoTo[Mantissa - 1] /\ TwoTo[Mantissa] = 2 * h /\ h > 0
  BY <1>0, TwoToStep, TwoToGrows
<1>2. m \in Nat /\ f \in Nat /\ m < 2 * h
  BY <1>0, <1>1, <1>a
<1>b. PICK w \in Nat : w = TwoTo[f] /\ w > 0
  BY <1>2, TwoToStep, TwoToGrows
<1>3. g = m * w /\ g \in Nat
  BY <1>1, <1>2, <1>b
<1>4. CASE f >= e
  <2>1. f - e \in Nat /\ e + (f - e) = f
    BY <1>2, <1>4
  <2>2. PICK d \in Nat : d = TwoTo[f - e] /\ w = u * d
    <3>1. TwoTo[e + (f - e)] = TwoTo[e] * TwoTo[f - e]
      BY <2>1, TwoToPlus
    <3>2. TwoTo[f - e] \in Nat
      BY <2>1, TwoToStep
    <3> QED BY <1>b, <2>1, <3>1, <3>2
  <2>3. PICK k \in Nat : k = m * d
    BY <1>2
  <2>4. g = u * k
    BY <1>2, <1>3, <2>2, <2>3
  <2>5. k <= q \/ k >= q + 1
    OBVIOUS
  <2>6. CASE k <= q
    BY <1>3, <2>4, <2>6
  <2>7. CASE k >= q + 1
    BY <1>3, <2>4, <2>7
  <2> QED BY <2>5, <2>6, <2>7
<1>5. CASE f < e
  <2>1. e > 0 /\ Mantissa + e - 1 = (Mantissa - 1) + e /\ e - (f + 1) \in Nat /\ (f + 1) + (e - (f + 1)) = e
    BY <1>0, <1>2, <1>5
  <2>2. n >= TwoTo[(Mantissa - 1) + e]
    BY <2>1, ExponentIs
  <2>3. TwoTo[(Mantissa - 1) + e] = h * u
    BY <1>0, <1>a, TwoToPlus
  <2>4. h * u <= n
    BY <2>2, <2>3
  <2>5. h < q + 1
    <3>1. h * u < u * (q + 1)
      BY <2>4
    <3> HIDE DEF TwoTo
    <3>2. ASSUME h >= q + 1 PROVE FALSE
      <4>1. h * u >= u * (q + 1)
        BY <3>2
      <4> QED BY <3>1, <4>1
    <3> QED BY <3>2
  <2>6. PICK d \in Nat : d = TwoTo[e - (f + 1)] /\ u = (2 * w) * d /\ d > 0
    <3>1. TwoTo[f + 1] = 2 * w /\ f + 1 \in Nat
      BY <1>2, <1>b, TwoToStep
    <3>2. u = TwoTo[f + 1] * TwoTo[e - (f + 1)]
      BY <2>1, <3>1, TwoToPlus
    <3> QED BY <2>1, <3>1, <3>2, TwoToStep, TwoToGrows
  <2>7. 2 * w <= u
    BY <1>b, <2>6
  <2>8. m * w <= (2 * h) * w
    BY <1>2
  <2>9. (2 * h) * w = h * (2 * w)
    OBVIOUS
  <2>10. h * (2 * w) <= h * u
    BY <2>7
  <2>11. h * u <= u * q
    BY <2>5
  <2>12. (2 * h) * w \in Nat /\ h * (2 * w) \in Nat /\ h * u \in Nat /\ u * q \in Nat
    OBVIOUS
  <2> QED BY <1>3, <2>8, <2>9, <2>10, <2>11, <2>12
<1> QED BY <1>2, <1>4, <1>5

\* No magnitude of a float is nearer to n.
Closest(f, n) ==
  /\ f \in Abstract!Magnitudes
  /\ \A g \in Abstract!Magnitudes : Abstract!Distance(f, n) <= Abstract!Distance(g, n)

LEMMA RoundedNearest ==
  ASSUME NEW n \in 0..(IntMax + 1) PROVE Closest(rounded(n), n)
PROOF
<1>0. Mantissa \in Nat /\ Mantissa - 1 \in Nat /\ (Mantissa - 1) + 1 = Mantissa /\ IntMax \in Nat /\ n \in Nat
  BY NumbersAssumption
<1>1. PICK e \in Nat : e = Exponent(n) /\ e <= n
  BY <1>0, ExponentIs
<1>2. PICK u \in Nat : u = TwoTo[e] /\ u > 0
  BY TwoToStep, TwoToGrows
<1>3. PICK q \in Nat, r \in Nat : q = n \div u /\ r = n % u /\ r < u /\ n = u * q + r
  <2>1. n \div u \in Nat /\ n % u \in Nat /\ n % u < u /\ n = u * (n \div u) + (n % u)
    BY <1>0, <1>2, Division
  <2> QED BY <2>1
<1>4. PICK lo \in Nat, hi \in Nat : lo = u * q /\ hi = u * (q + 1) /\ hi = lo + u
  OBVIOUS
<1>5. lo <= n /\ n < hi /\ n - lo = r /\ hi - n = u - r
  BY <1>0, <1>3, <1>4
<1>a. PICK h \in Nat : h = TwoTo[Mantissa - 1] /\ TwoTo[Mantissa] = 2 * h /\ h > 0
  BY <1>0, TwoToStep, TwoToGrows
<1>6. q < 2 * h
  <2>1. n < TwoTo[Mantissa + e]
    BY <1>0, <1>1, ExponentIs
  <2>2. TwoTo[Mantissa + e] = (2 * h) * u
    BY <1>0, <1>2, <1>a, TwoToPlus
  <2>3. u * q < (2 * h) * u
    BY <1>0, <1>3, <2>1, <2>2
  <2>4. ASSUME q >= 2 * h PROVE FALSE
    <3>1. u * q >= (2 * h) * u
      BY <2>4
    <3> QED BY <2>3, <3>1
  <2> QED BY <2>4
<1>7. lo \in Abstract!Magnitudes
  <2>1. q \in 0..(TwoTo[Mantissa] - 1) /\ e \in 0..(IntMax + 1) /\ lo = q * TwoTo[e]
    BY <1>0, <1>1, <1>2, <1>4, <1>6, <1>a
  <2> QED BY <2>1, MagnitudesAre
<1>8. CASE e > 0
  <2>1. hi \in Abstract!Magnitudes
    <3>1. CASE q + 1 < 2 * h
      <4>1. q + 1 \in 0..(TwoTo[Mantissa] - 1) /\ e \in 0..(IntMax + 1) /\ hi = (q + 1) * TwoTo[e]
        BY <1>0, <1>1, <1>2, <1>4, <3>1, <1>a
      <4> QED BY <4>1, MagnitudesAre
    <3>2. CASE q + 1 = 2 * h
      <4>1. hi = h * TwoTo[e + 1]
        <5>1. TwoTo[e + 1] = 2 * u
          BY <1>2, TwoToStep
        <5>2. u * (2 * h) = h * (2 * u)
          OBVIOUS
        <5> QED BY <1>4, <3>2, <5>1, <5>2
      <4>2. e + 1 <= n
        <5>1. Mantissa + e - 1 = (Mantissa - 1) + e /\ n >= TwoTo[Mantissa + e - 1]
          BY <1>0, <1>1, <1>8, ExponentIs
        <5>2. TwoTo[(Mantissa - 1) + e] = h * u
          BY <1>0, <1>2, <1>a, TwoToPlus
        <5>3. h * u >= u
          BY <1>a
        <5>4. e < u /\ h * u \in Nat
          BY <1>2, TwoToGrows
        <5> QED BY <1>0, <5>1, <5>2, <5>3, <5>4
      <4>3. h \in 0..(TwoTo[Mantissa] - 1) /\ e + 1 \in 0..(IntMax + 1)
        BY <1>0, <1>1, <1>a, <4>2
      <4> QED BY <4>1, <4>3, MagnitudesAre
    <3> QED BY <1>6, <3>1, <3>2
  <2>2. \/ rounded(n) = hi /\ 2 * r >= u
        \/ rounded(n) = lo /\ 2 * r <= u
    <3> DEFINE up == 2 * r > u \/ (2 * r = u /\ q % 2 = 1)
    <3>1. rounded(n) = u * (IF up THEN q + 1 ELSE q)
      BY <1>1, <1>2, <1>3 DEF rounded
    <3>2. up => 2 * r >= u
      OBVIOUS
    <3>3. ~up => 2 * r <= u
      OBVIOUS
    <3> HIDE DEF up
    <3> QED BY <1>4, <3>1, <3>2, <3>3
  <2>3. PICK t \in Nat : t = rounded(n)
    BY <1>0, RoundedType
  <2>4. t \in Abstract!Magnitudes
    BY <1>7, <2>1, <2>2, <2>3
  <2>5. ASSUME NEW g \in Abstract!Magnitudes
        PROVE  Abstract!Distance(t, n) <= Abstract!Distance(g, n)
    <3>1. g \in Nat /\ (g <= lo \/ g >= hi)
      BY <1>0, <1>1, <1>2, <1>4, <1>5, NoFloatBetween
    <3> QED BY <1>0, <1>5, <2>2, <2>3, <3>1 DEF Abstract!Distance
  <2> QED BY <2>3, <2>4, <2>5 DEF Closest
<1>9. CASE e = 0
  <2>1. u = 1 /\ r = 0 /\ lo = n
    BY <1>2, <1>3, <1>4, <1>9, TwoToZero
  <2>2. rounded(n) = n
    BY <1>1, <1>2, <1>3, <1>4, <2>1 DEF rounded
  <2>3. ASSUME NEW g \in Abstract!Magnitudes
        PROVE  Abstract!Distance(n, n) <= Abstract!Distance(g, n)
    <3>1. g \in Nat
      BY <1>0, <1>1, <1>2, <1>4, <1>5, NoFloatBetween
    <3> QED BY <1>0, <3>1 DEF Abstract!Distance
  <2> QED BY <1>7, <2>1, <2>2, <2>3 DEF Closest
<1> QED BY <1>8, <1>9

\* A float of the other sign is no nearer than 0.
LEMMA ToFloatNearest ==
  ASSUME NEW n \in (-IntMax - 1)..IntMax
  PROVE  toFloat(n) \in Int /\ toFloat(n) \in Abstract!Nearest(n)
PROOF
<1>0. IntMax \in Nat /\ n \in Int /\ Mantissa \in Nat
  BY NumbersAssumption
<1>n. PICK a \in 0..(IntMax + 1) : a = IF n >= 0 THEN n ELSE -n
  BY <1>0
<1>1. PICK f \in Nat : f = rounded(a) /\ Closest(f, a)
  <2>1. a \in Nat
    BY <1>0
  <2> QED BY <2>1, RoundedType, RoundedNearest
<1>m. Abstract!Magnitudes \subseteq Nat /\ 0 \in Abstract!Magnitudes
  <2>1. ASSUME NEW m \in 0..(TwoTo[Mantissa] - 1), NEW e \in 0..(IntMax + 1) PROVE m * TwoTo[e] \in Nat
    <3>1. TwoTo[e] \in Nat /\ m \in Nat
      BY <1>0, TwoToStep
    <3> QED BY <3>1
  <2>2. 0 \in 0..(TwoTo[Mantissa] - 1) /\ 0 \in 0..(IntMax + 1) /\ 0 * TwoTo[0] = 0
    <3>1. TwoTo[Mantissa] \in Nat /\ Mantissa < TwoTo[Mantissa] /\ TwoTo[0] = 1
      BY <1>0, TwoToStep, TwoToGrows, TwoToZero
    <3> QED BY <1>0, <3>1
  <2> QED BY <2>1, <2>2, MagnitudesAre
<1>2. f \in Abstract!Magnitudes /\ \A g \in Abstract!Magnitudes : Abstract!Distance(f, a) <= Abstract!Distance(g, a)
  BY <1>1 DEF Closest
<1>3. Abstract!Distance(f, a) <= a
  <2>1. Abstract!Distance(f, a) <= Abstract!Distance(0, a)
    BY <1>2, <1>m
  <2> QED BY <1>0, <2>1 DEF Abstract!Distance
<1>4. PICK x \in Int : x = toFloat(n) /\ x = IF n >= 0 THEN f ELSE -f
  BY <1>0, <1>1, <1>n DEF toFloat
<1>5. x \in Abstract!Floats
  BY <1>2, <1>4 DEF Abstract!Floats
<1>6. Abstract!Distance(x, n) = Abstract!Distance(f, a)
  BY <1>0, <1>1, <1>4, <1>n DEF Abstract!Distance
<1>7. ASSUME NEW g \in Abstract!Floats PROVE Abstract!Distance(x, n) <= Abstract!Distance(g, n)
  <2>1. PICK b \in Abstract!Magnitudes : g = b \/ g = -b
    BY DEF Abstract!Floats
  <2>2. b \in Nat /\ Abstract!Distance(f, a) <= Abstract!Distance(b, a)
    BY <1>2, <1>m, <2>1
  <2>d. Abstract!Distance(f, a) \in Int /\ Abstract!Distance(b, a) \in Int
    BY <1>0, <1>1, <2>2 DEF Abstract!Distance
  <2>3. Abstract!Distance(g, n) = Abstract!Distance(b, a) \/ Abstract!Distance(g, n) = a + b
    BY <1>0, <1>n, <2>1, <2>2 DEF Abstract!Distance
  <2> QED BY <1>0, <1>3, <1>6, <2>2, <2>3, <2>d
<1> QED BY <1>4, <1>5, <1>7 DEF Abstract!Nearest

-----------------------------------------------------------------------------
\* The number a run of digits spells.

LEMMA TenToStep ==
  /\ Abstract!TenTo[0] = 1
  /\ \A k \in Nat : Abstract!TenTo[k] \in Nat /\ Abstract!TenTo[k + 1] = 10 * Abstract!TenTo[k]
PROOF
<1>1. Powers(10, Abstract!TenTo)
  BY PowersDefined DEF Abstract!TenTo
<1> QED BY <1>1 DEF Powers

LEMMA FiguresAreDigits ==
  /\ Abstract!Figure = Digit
  /\ \A c : Abstract!Worth(c) = DigitValue(c)
BY DEF Abstract!Figure, Abstract!Figures, Digit, Digits, Abstract!Worth, DigitValue

LEMMA DigitValueType ==
  ASSUME NEW c \in Digit PROVE DigitValue(c) \in Nat
PROOF
<1>1. PICK d \in 1..10 : c = Digits[d]
  BY DEF Digit
<1>2. d - 1 \in 0..9 /\ Digits[(d - 1) + 1] = c
  BY <1>1
<1>3. DigitValue(c) \in 0..9
  BY <1>2 DEF DigitValue
<1> QED BY <1>3

\* From the front, each value made of the one before; and the sum of weights.
Horner(N, w, h) ==
  /\ h \in [0..N -> Nat] /\ h[0] = 0
  /\ \A k \in 1..N : h[k] = 10 * h[k - 1] + w[k]
Sums(N, v, s) ==
  /\ s \in [0..N -> Nat] /\ s[0] = 0
  /\ \A k \in 1..N : s[k] = s[k - 1] + v[k]

LEMMA HornerExists ==
  ASSUME NEW N \in Nat, NEW w \in [1..N -> Nat]
  PROVE  \E h : Horner(N, w, h)
PROOF
<1> DEFINE g == [z \in Nat \X Nat |-> IF z[1] \in 1..N THEN 10 * z[2] + w[z[1]] ELSE 0]
<1>1. ASSUME NEW k \in Nat, NEW y \in Nat
      PROVE  (IF k \in 1..N THEN 10 * y + w[k] ELSE 0) \in Nat
  OBVIOUS
<1>2. g \in [Nat \X Nat -> Nat]
  BY <1>1
<1>3. \A k \in 1..N : \A y \in Nat : g[<<k, y>>] = 10 * y + w[k]
  OBVIOUS
<1> HIDE DEF g
<1>4. PICK h : Recurs(h, N, Nat, 0, g)
  BY <1>2, RecursExists
<1>5. ASSUME NEW k \in 1..N PROVE h[k] = 10 * h[k - 1] + w[k]
  <2>1. k - 1 \in 0..N
    OBVIOUS
  <2>2. h[k - 1] \in Nat /\ h[k] = g[<<k, h[k - 1]>>]
    BY <1>4, <2>1 DEF Recurs
  <2> QED BY <1>3, <2>2
<1>6. Horner(N, w, h)
  BY <1>4, <1>5 DEF Recurs, Horner
<1> QED BY <1>6

LEMMA SumsExist ==
  ASSUME NEW N \in Nat, NEW v \in [1..N -> Nat]
  PROVE  \E s : Sums(N, v, s)
PROOF
<1> DEFINE g == [z \in Nat \X Nat |-> IF z[1] \in 1..N THEN z[2] + v[z[1]] ELSE 0]
<1>1. ASSUME NEW k \in Nat, NEW y \in Nat
      PROVE  (IF k \in 1..N THEN y + v[k] ELSE 0) \in Nat
  OBVIOUS
<1>2. g \in [Nat \X Nat -> Nat]
  BY <1>1
<1>3. \A k \in 1..N : \A y \in Nat : g[<<k, y>>] = y + v[k]
  OBVIOUS
<1> HIDE DEF g
<1>4. PICK s : Recurs(s, N, Nat, 0, g)
  BY <1>2, RecursExists
<1>5. ASSUME NEW k \in 1..N PROVE s[k] = s[k - 1] + v[k]
  <2>1. k - 1 \in 0..N
    OBVIOUS
  <2>2. s[k - 1] \in Nat /\ s[k] = g[<<k, s[k - 1]>>]
    BY <1>4, <2>1 DEF Recurs
  <2> QED BY <1>3, <2>2
<1>6. Sums(N, v, s)
  BY <1>4, <1>5 DEF Recurs, Sums
<1> QED BY <1>6

\* The two ways to read a number agree.
Weighted(N, w, v) == \A k \in 1..N : v[k] = Abstract!TenTo[N - k] * w[k]

LEMMA HornerIsSum ==
  ASSUME NEW N \in Nat, NEW w \in [1..N -> Nat], NEW h, Horner(N, w, h),
         NEW v, Weighted(N, w, v), NEW s, Sums(N, v, s)
  PROVE  h[N] = s[N]
PROOF
<1> DEFINE T == {k \in 0..N : h[k] * Abstract!TenTo[N - k] = s[k]}
<1>1. 0 \in T
  <2>1. Abstract!TenTo[N - 0] \in Nat
    BY TenToStep
  <2> QED BY <2>1 DEF Horner, Sums
<1>2. ASSUME NEW k \in 0..N-1, k \in T PROVE k + 1 \in T
  <2>1. k + 1 \in 1..N /\ (k + 1) - 1 = k /\ N - (k + 1) \in Nat /\ (N - (k + 1)) + 1 = N - k /\ k \in 0..N
    OBVIOUS
  <2>2. PICK P \in Nat : P = Abstract!TenTo[N - (k + 1)] /\ Abstract!TenTo[N - k] = 10 * P
    BY <2>1, TenToStep
  <2>3. PICK a \in Nat, d \in Nat : a = h[k] /\ d = w[k + 1]
    BY <2>1 DEF Horner
  <2>4. h[k + 1] = 10 * a + d
    BY <2>1, <2>3 DEF Horner
  <2>5. s[k + 1] = s[k] + P * d
    BY <2>1, <2>2, <2>3 DEF Sums, Weighted
  <2>6. s[k] = a * (10 * P)
    BY <1>2, <2>2, <2>3
  <2>7. (10 * a + d) * P = a * (10 * P) + P * d
    OBVIOUS
  <2> QED BY <2>1, <2>2, <2>4, <2>5, <2>6, <2>7
<1>3. \A k \in 0..N : k \in T
  <2> HIDE DEF T
  <2> QED BY <1>1, <1>2, EveryPlace
<1>4. N \in 0..N /\ N - N = 0 /\ h[N] \in Nat
  BY DEF Horner
<1>5. h[N] * Abstract!TenTo[N - N] = s[N] /\ N \in T
  BY <1>3, <1>4
<1>6. h[N] * 1 = s[N]
  <2> HIDE DEF T
  <2>1. Abstract!TenTo[N - N] = 1
    BY <1>4, TenToStep
  <2> QED BY <1>5, <2>1
<1> QED BY <1>4, <1>6

\* The walk over characters of one kind ends where it should.
LEMMA FirstOtherIs ==
  ASSUME NEW buf, NEW off \in 0..MAX_PASSWORD_LENGTH, NEW S
  PROVE  /\ FirstOther(buf, off, S) \in off..MAX_PASSWORD_LENGTH
         /\ \/ FirstOther(buf, off, S) = MAX_PASSWORD_LENGTH
            \/ buf[FirstOther(buf, off, S)] \notin S
         /\ \A k \in off..(FirstOther(buf, off, S) - 1) : buf[k] \in S
PROOF
<1>0. MAX_PASSWORD_LENGTH \in Nat /\ off \in Nat
  BY MaxAssumption
<1> DEFINE others == {k \in off..MAX_PASSWORD_LENGTH :
                        k = MAX_PASSWORD_LENGTH \/ buf[k] \notin S}
<1>1. \E k \in others : \A j \in others : k <= j
  <2>1. others \subseteq Nat /\ others # {}
    <3>1. MAX_PASSWORD_LENGTH \in others
      BY <1>0
    <3> QED BY <1>0, <3>1
  <2> HIDE DEF others
  <2> QED BY <2>1, LeastNat
<1>2. PICK p : p = FirstOther(buf, off, S)
  OBVIOUS
<1>3. p \in others /\ \A j \in others : p <= j
  <2>1. p = CHOOSE k \in others : \A j \in others : k <= j
    BY <1>2 DEF FirstOther
  <2> HIDE DEF others
  <2> QED BY <1>1, <2>1
<1>4. p \in off..MAX_PASSWORD_LENGTH /\ (p = MAX_PASSWORD_LENGTH \/ buf[p] \notin S)
  BY <1>3
<1>5. ASSUME NEW k \in off..(p - 1) PROVE buf[k] \in S
  <2>1. k \in off..MAX_PASSWORD_LENGTH /\ k < p /\ p \in Nat
    BY <1>0, <1>4
  <2>2. ~(k \in others)
    BY <1>0, <1>3, <2>1
  <2> QED BY <2>1, <2>2
<1> QED BY <1>2, <1>4, <1>5

\* The first N characters of s are of one kind, and the next is not.
Leads(s, S, N) ==
  /\ Len(s) \in Nat /\ N \in 0..Len(s)
  /\ \A k \in 1..N : s[k] \in S
  /\ N < Len(s) => s[N + 1] \notin S

LEMMA PrefixIs ==
  ASSUME NEW s, NEW S, NEW N, Leads(s, S, N)
  PROVE  Abstract!PrefixLength(s, S) = N
PROOF
<1> USE DEF Leads
<1> DEFINE Ok(m) == /\ \A k \in 1..m : s[k] \in S
                    /\ m < Len(s) => s[m + 1] \notin S
<1>1. Ok(N)
  OBVIOUS
<1>2. ASSUME NEW m \in 0..Len(s), Ok(m) PROVE m = N
  <2>1. ~(m < N)
    <3>1. ASSUME m < N PROVE FALSE
      <4>1. m + 1 \in 1..N /\ m < Len(s)
        BY <3>1
      <4> QED BY <1>2, <4>1
    <3> QED BY <3>1
  <2>2. ~(N < m)
    <3>1. ASSUME N < m PROVE FALSE
      <4>1. N + 1 \in 1..m /\ N < Len(s)
        BY <3>1
      <4> QED BY <1>2, <4>1
    <3> QED BY <3>1
  <2> QED BY <2>1, <2>2
<1>n. PICK n : n = Abstract!PrefixLength(s, S)
  OBVIOUS
<1>3. n = CHOOSE m \in 0..Len(s) : Ok(m)
  BY <1>n DEF Abstract!PrefixLength
<1> HIDE DEF Ok
<1>4. n \in 0..Len(s) /\ Ok(n)
  BY <1>1, <1>3
<1> QED BY <1>2, <1>4, <1>n

\* number() takes the digits at off up to the first other character, which is
\* at off + N, and reads them from the front.
Reading(buf, off, N, w, h) ==
  /\ N \in 0..(MAX_PASSWORD_LENGTH - off) /\ w \in [1..N -> Nat]
  /\ \A k \in 1..N : buf[off + k - 1] \in Digit /\ w[k] = DigitValue(buf[off + k - 1])
  /\ off + N = MAX_PASSWORD_LENGTH \/ buf[off + N] \notin Digit
  /\ Horner(N, w, h)
  /\ number(buf, off) = h[N]

LEMMA NumberReads ==
  ASSUME NEW buf, NEW off \in 0..MAX_PASSWORD_LENGTH
  PROVE  \E N, w, h : Reading(buf, off, N, w, h)
PROOF
<1>0. MAX_PASSWORD_LENGTH \in Nat /\ off \in Nat
  BY MaxAssumption
<1> DEFINE stop == FirstOther(buf, off, Digit)
<1>p. PICK p : p = stop
  OBVIOUS
<1>3. /\ p \in off..MAX_PASSWORD_LENGTH
      /\ p = MAX_PASSWORD_LENGTH \/ buf[p] \notin Digit
      /\ \A k \in off..(p - 1) : buf[k] \in Digit
  BY <1>p, FirstOtherIs
<1> DEFINE N == stop - off
<1>4. N \in 0..(MAX_PASSWORD_LENGTH - off) /\ N = p - off /\ off + N = p
  <2>1. p \in off..MAX_PASSWORD_LENGTH
    BY <1>3
  <2> HIDE DEF stop
  <2> QED BY <1>0, <1>p, <2>1
<1> HIDE DEF N, stop
<1>5. off + N = MAX_PASSWORD_LENGTH \/ buf[off + N] \notin Digit
  BY <1>3, <1>4
<1>6. ASSUME NEW k \in 1..N PROVE buf[off + k - 1] \in Digit
  <2>0. k \in Nat /\ k <= N /\ N \in Int
    BY <1>0, <1>4
  <2>1. off + k - 1 \in off..(p - 1)
    BY <1>0, <1>4, <2>0
  <2> QED BY <1>3, <2>1
<1> DEFINE w == [k \in 1..N |-> DigitValue(buf[off + k - 1])]
<1>7. w \in [1..N -> Nat]
  BY <1>6, DigitValueType
<1>8. \A k \in 1..N : w[k] = DigitValue(buf[off + k - 1])
  OBVIOUS
<1> HIDE DEF w
<1>a. N \in Nat
  BY <1>0, <1>4
<1>9. PICK f : Horner(N, w, f)
  BY <1>7, <1>a, HornerExists
<1> DEFINE Body(v, n) == IF n = 0 THEN 0 ELSE 10 * v[n - 1] + DigitValue(buf[off + n - 1])
<1>10. ASSUME NEW n \in 0..N PROVE f[n] = Body(f, n)
  <2>1. n = 0 \/ n \in 1..N
    BY <1>a
  <2> QED BY <1>8, <1>9, <2>1 DEF Horner
<1>11. f = [n \in 0..N |-> Body(f, n)]
  <2> HIDE DEF Body
  <2> QED BY <1>9, <1>10 DEF Horner
<1> DEFINE value == CHOOSE v : v = [n \in 0..N |-> Body(v, n)]
<1>12. value = [n \in 0..N |-> Body(value, n)]
  <2> HIDE DEF Body
  <2> QED BY <1>11
<1>13. number(buf, off) = value[N]
  BY DEF number, stop, N
<1> HIDE DEF value
<1>14. \A n \in 0..N : value[n] = Body(value, n)
  <2> HIDE DEF Body
  <2> QED BY <1>12
<1> DEFINE T == {n \in 0..N : value[n] = f[n]}
<1>15. 0 \in T
  BY <1>9, <1>14, <1>a DEF Horner
<1>16. ASSUME NEW n \in 0..N-1, n \in T PROVE n + 1 \in T
  <2>1. n + 1 \in 0..N /\ n + 1 # 0 /\ (n + 1) - 1 = n
    BY <1>a
  <2>2. value[n + 1] = Body(value, n + 1) /\ f[n + 1] = Body(f, n + 1)
    BY <1>10, <1>14, <2>1
  <2> QED BY <1>16, <2>1, <2>2
<1>17. \A n \in 0..N : n \in T
  <2> HIDE DEF T
  <2> QED BY <1>15, <1>16, <1>a, EveryPlace
<1>18. value[N] = f[N]
  BY <1>17, <1>a
<1>19. number(buf, off) = f[N]
  BY <1>13, <1>18
<1>20. Reading(buf, off, N, w, f)
  BY <1>4, <1>5, <1>6, <1>7, <1>8, <1>9, <1>19 DEF Reading
<1> QED BY <1>20

LEMMA NumberType ==
  ASSUME NEW buf, NEW off \in 0..MAX_PASSWORD_LENGTH
  PROVE  number(buf, off) \in Nat
PROOF
<1>1. PICK N, w, h : Reading(buf, off, N, w, h)
  BY NumberReads
<1> QED BY <1>1, MaxAssumption DEF Reading, Horner

\* Where atoi() finds the digits, and the sign it gives them.
Signed(buf, start) == start < MAX_PASSWORD_LENGTH /\ buf[start] \in {"+", "-"}
Begin(buf, start) == IF Signed(buf, start) THEN start + 1 ELSE start
Negative(buf, start) == Signed(buf, start) /\ buf[start] = "-"

LEMMA AtoiIs ==
  ASSUME NEW buf, NEW start, NEW off, start = FirstOther(buf, off, Blank),
         NEW n, n = number(buf, Begin(buf, start))
  PROVE  atoi(buf, off) = IF Negative(buf, start)
                          THEN IF n > IntMax + 1 THEN -IntMax - 1 ELSE -n
                          ELSE IF n > IntMax THEN IntMax ELSE n
BY DEF atoi, Signed, Begin, Negative

LEMMA AtoiType ==
  ASSUME NEW buf, NEW off \in 0..MAX_PASSWORD_LENGTH
  PROVE  atoi(buf, off) \in (-IntMax - 1)..IntMax
PROOF
<1>1. PICK start \in off..MAX_PASSWORD_LENGTH : start = FirstOther(buf, off, Blank)
  BY FirstOtherIs
<1>2. Begin(buf, start) \in 0..MAX_PASSWORD_LENGTH
  BY MaxAssumption DEF Begin, Signed
<1>3. PICK n \in Nat : n = number(buf, Begin(buf, start))
  BY <1>2, NumberType
<1>4. IntMax \in Nat
  BY NumbersAssumption
<1> QED BY <1>1, <1>3, <1>4, AtoiIs

\* Magnitude takes the same digits and adds their weights.
Spelled(s, N, w) ==
  /\ Len(s) \in Nat /\ N \in 0..Len(s) /\ w \in [1..N -> Nat]
  /\ \A k \in 1..N : s[k] \in Digit /\ w[k] = DigitValue(s[k])
  /\ N < Len(s) => s[N + 1] \notin Digit

LEMMA MagnitudeReads ==
  ASSUME NEW s, NEW N, NEW w, Spelled(s, N, w), NEW h, Horner(N, w, h)
  PROVE  Abstract!Magnitude(s) = h[N]
PROOF
<1> USE DEF Spelled
<1> DEFINE n == Abstract!PrefixLength(s, Abstract!Figure)
<1>1. n = N
  <2>1. Leads(s, Digit, N)
    BY DEF Leads
  <2> QED BY <2>1, FiguresAreDigits, PrefixIs
<1> HIDE DEF n
<1>a. n \in Nat /\ N \in Nat
  BY <1>1
<1> DEFINE v == [k \in 1..n |-> Abstract!TenTo[n - k] * w[k]]
<1>2. v \in [1..n -> Nat]
  <2>1. ASSUME NEW k \in 1..n PROVE Abstract!TenTo[n - k] * w[k] \in Nat
    <3>1. n - k \in Nat /\ w[k] \in Nat
      BY <1>1, <1>a
    <3>2. Abstract!TenTo[n - k] \in Nat
      BY <3>1, TenToStep
    <3> QED BY <3>1, <3>2
  <2> QED BY <2>1
<1>3. \A k \in 1..n : v[k] = Abstract!TenTo[n - k] * Abstract!Worth(s[k])
  BY <1>1, FiguresAreDigits
<1>b. Weighted(n, w, v)
  BY DEF Weighted
<1> HIDE DEF v
<1>4. ASSUME NEW f, Sums(n, v, f) PROVE h[N] = f[n]
  <2>1. w \in [1..n -> Nat] /\ Horner(n, w, h)
    BY <1>1
  <2>2. h[n] = f[n]
    BY <1>4, <1>a, <1>b, <2>1, HornerIsSum
  <2> QED BY <1>1, <2>2
<1>5. PICK f : Sums(n, v, f)
  BY <1>2, <1>a, SumsExist
<1> DEFINE Body(r, k) == IF k = 0 THEN 0 ELSE r[k - 1] + Abstract!TenTo[n - k] * Abstract!Worth(s[k])
<1>6. ASSUME NEW k \in 0..n PROVE f[k] = Body(f, k)
  <2>1. k = 0 \/ k \in 1..n
    BY <1>a
  <2> QED BY <1>3, <1>5, <2>1 DEF Sums
<1>7. f = [k \in 0..n |-> Body(f, k)]
  <2> HIDE DEF Body
  <2> QED BY <1>5, <1>6 DEF Sums
<1> DEFINE sum == CHOOSE r : r = [k \in 0..n |-> Body(r, k)]
<1>8. sum = [k \in 0..n |-> Body(sum, k)]
  <2> HIDE DEF Body
  <2> QED BY <1>7
<1>9. Abstract!Magnitude(s) = sum[n]
  BY DEF Abstract!Magnitude, n
<1> HIDE DEF sum
<1>10. \A k \in 0..n : sum[k] = Body(sum, k)
  <2> HIDE DEF Body
  <2> QED BY <1>8
<1> DEFINE T == {k \in 0..n : sum[k] = f[k]}
<1>11. 0 \in T
  BY <1>5, <1>10, <1>a DEF Sums
<1>12. ASSUME NEW k \in 0..n-1, k \in T PROVE k + 1 \in T
  <2>1. k + 1 \in 0..n /\ k + 1 # 0 /\ (k + 1) - 1 = k
    BY <1>a
  <2>2. sum[k + 1] = Body(sum, k + 1) /\ f[k + 1] = Body(f, k + 1)
    BY <1>6, <1>10, <2>1
  <2> QED BY <1>12, <2>1, <2>2
<1>13. \A k \in 0..n : k \in T
  <2> HIDE DEF T
  <2> QED BY <1>11, <1>12, <1>a, EveryPlace
<1>14. sum[n] = f[n]
  BY <1>13, <1>a
<1> QED BY <1>4, <1>5, <1>9, <1>14

-----------------------------------------------------------------------------
\* The strings behind the calls of the class.

LEMMA CStringFacts ==
  ASSUME NEW buf \in Buffer
  PROVE  /\ CString(buf) \in Seq(Chars) /\ Len(CString(buf)) = strlen(buf)
         /\ \A k \in 1..strlen(buf) : CString(buf)[k] = buf[k - 1]
PROOF
<1>1. strlen(buf) \in Nat
  BY StrlenFacts, MaxAssumption
<1>2. CString(buf) = [k \in 1..strlen(buf) |-> buf[k - 1]]
  BY DEF CString
<1>3. CString(buf) \in Seq(Chars)
  BY CStringType
<1>4. DOMAIN CString(buf) = 1..strlen(buf)
  BY <1>2
<1>5. Len(CString(buf)) \in Nat /\ DOMAIN CString(buf) = 1..Len(CString(buf))
  BY <1>3, LenProperties
<1>6. Len(CString(buf)) = strlen(buf)
  BY <1>1, <1>4, <1>5
<1> QED BY <1>2, <1>3, <1>6

\* A string is what its characters and its terminator say.
Holds(buf, s) ==
  /\ Len(s) \in Index /\ buf[Len(s)] = STRING_TERMINATOR
  /\ \A k \in 1..Len(s) : buf[k - 1] = s[k] /\ s[k] # STRING_TERMINATOR

LEMMA CStringIs ==
  ASSUME NEW buf \in Buffer, NEW S, NEW s \in Seq(S), Holds(buf, s)
  PROVE  CString(buf) = s
PROOF
<1> USE DEF Holds
<1>1. PICK n \in Index : n = Len(s)
  OBVIOUS
<1>2. n \in Nat
  BY IndexNat
<1>3. ASSUME NEW j \in 0..(n - 1) PROVE buf[j] # STRING_TERMINATOR
  <2>1. j + 1 \in 1..n /\ (j + 1) - 1 = j
    BY <1>2
  <2> QED BY <1>1, <2>1
<1>4. strlen(buf) = n
  BY <1>1, <1>3, StrlenIs
<1>5. CString(buf) = [k \in 1..n |-> buf[k - 1]]
  BY <1>4 DEF CString
<1>6. s = [k \in 1..n |-> s[k]]
  BY <1>1
<1> QED BY <1>1, <1>5, <1>6

\* append() adds the character to the string, unless it is a terminator or
\* the string ends before it.
Appended(g, c, key, h) ==
  /\ c \in Index /\ c + 1 \in Index /\ g[c] = STRING_TERMINATOR
  /\ h = [g EXCEPT ![c] = key, ![c + 1] = STRING_TERMINATOR]

LEMMA AppendString ==
  ASSUME NEW g \in Buffer, NEW c, NEW key \in Char, NEW h \in Buffer, Appended(g, c, key, h)
  PROVE  \/ CString(h) = CString(g)
         \/ Len(CString(g)) = c /\ CString(h) = Append(CString(g), key)
PROOF
<1> USE DEF Appended
<1>0. c \in Nat /\ MAX_PASSWORD_LENGTH \in Nat
  BY IndexNat, MaxAssumption
<1>1. PICK s \in Seq(Chars) : s = CString(g) /\ Len(s) = strlen(g) /\ \A k \in 1..strlen(g) : s[k] = g[k - 1]
  BY CStringFacts
<1>2. /\ h[c] = key /\ h[c + 1] = STRING_TERMINATOR
      /\ \A j \in Index : j < c => h[j] = g[j]
  BY <1>0 DEF Buffer, Index
<1>3. PICK n \in Nat : n = strlen(g) /\ n <= c /\ g[n] = STRING_TERMINATOR /\ n \in Index
  <2>1. strlen(g) \in 0..MAX_PASSWORD_LENGTH /\ ~(c < strlen(g))
    BY StrlenFacts
  <2>2. strlen(g) <= c /\ strlen(g) < MAX_PASSWORD_LENGTH
    BY <1>0, <2>1 DEF Index
  <2> QED BY <1>0, <2>1, <2>2, StrlenFacts DEF Index
<1>4. ASSUME NEW k \in 1..n PROVE h[k - 1] = s[k] /\ s[k] # STRING_TERMINATOR
  <2>1. k - 1 \in Index /\ k - 1 < c /\ k - 1 < n
    BY <1>0, <1>3 DEF Index
  <2>2. s[k] = g[k - 1] /\ h[k - 1] = g[k - 1]
    BY <1>1, <1>2, <1>3, <2>1
  <2> QED BY <1>3, <2>1, <2>2, StrlenFacts
<1>5. CASE h[n] = STRING_TERMINATOR
  <2>1. Holds(h, s)
    BY <1>1, <1>3, <1>4, <1>5 DEF Holds
  <2> QED BY <1>1, <2>1, CStringIs
<1>6. CASE h[n] # STRING_TERMINATOR
  <2>1. n = c /\ key # STRING_TERMINATOR /\ key \in Chars
    BY <1>0, <1>2, <1>3, <1>6 DEF Char
  <2>2. PICK t : t = Append(s, key)
    OBVIOUS
  <2>3. t \in Seq(Chars) /\ Len(t) = n + 1 /\ t[n + 1] = key /\ \A k \in 1..n : t[k] = s[k]
    BY <1>1, <1>3, <2>1, <2>2, AppendProperties
  <2>4. ASSUME NEW k \in 1..Len(t) PROVE h[k - 1] = t[k] /\ t[k] # STRING_TERMINATOR
    <3>1. k \in 1..n \/ (k = n + 1 /\ k - 1 = c)
      BY <2>1, <2>3
    <3> QED BY <1>2, <1>4, <2>1, <2>3, <3>1
  <2>5. CString(h) = t
    <3>1. Holds(h, t)
      BY <1>2, <2>1, <2>3, <2>4 DEF Holds
    <3> QED BY <2>3, <3>1, CStringIs
  <2> QED BY <1>1, <1>3, <2>1, <2>2, <2>5
<1> QED BY <1>5, <1>6

\* reset() leaves the empty string.
LEMMA ResetString ==
  ASSUME NEW g \in Buffer, g[0] = STRING_TERMINATOR PROVE CString(g) = <<>>
PROOF
<1>1. <<>> \in Seq(Chars) /\ Len(<<>>) = 0 /\ 0 \in Index
  BY MaxAssumption DEF Index
<1>2. Holds(g, <<>>)
  BY <1>1 DEF Holds
<1> QED BY <1>1, <1>2, CStringIs

\* strcpy(dst, &src[1]) copies all but the first character.
LEMMA StrcpyString ==
  ASSUME NEW dst \in Buffer, NEW src \in Buffer, strlen(src) \in Index, strlen(src) > 0
  PROVE  CString(strcpy(dst, src, 1)) = Tail(CString(src))
PROOF
<1>0. MAX_PASSWORD_LENGTH \in Nat
  BY MaxAssumption
<1>1. PICK s \in Seq(Chars) : s = CString(src) /\ Len(s) = strlen(src) /\ \A k \in 1..strlen(src) : s[k] = src[k - 1]
  BY CStringFacts
<1>2. PICK n \in Nat : n = strlen(src) - 1 /\ n \in Index /\ n + 1 \in Index /\ n + 1 = strlen(src)
  BY <1>0 DEF Index
<1>3. PICK t \in Seq(Chars) : t = Tail(s) /\ Len(t) = n /\ \A k \in 1..n : t[k] = s[k + 1]
  <2>1. s # <<>> /\ Len(s) - 1 = n
    BY <1>1, <1>2
  <2>2. Tail(s) \in Seq(Chars) /\ Len(Tail(s)) = n /\ \A k \in 1..n : Tail(s)[k] = s[k + 1]
    BY <2>1, HeadTailProperties
  <2> QED BY <2>2
<1>4. src[n + 1] = STRING_TERMINATOR /\ \A j \in Index : j < n + 1 => src[j] # STRING_TERMINATOR
  BY <1>0, <1>2, StrlenFacts DEF Index
<1>5. PICK b \in Buffer : b = strcpy(dst, src, 1)
  BY StrcpyType
<1>6. ASSUME NEW k \in 0..n PROVE b[k] = src[k + 1]
  <2>1. k \in Index /\ 1 + k \in Index /\ 1 + k = k + 1 /\ 1 + k - 1 = k
    BY <1>0, <1>2 DEF Index
  <2>2. \A j \in 1..k : src[j] # STRING_TERMINATOR
    BY <1>0, <1>2, <1>4, <2>1 DEF Index
  <2> QED BY <1>5, <2>1, <2>2 DEF strcpy
<1>7. b[n] = STRING_TERMINATOR
  BY <1>4, <1>6
<1>8. ASSUME NEW k \in 1..n PROVE b[k - 1] = t[k] /\ t[k] # STRING_TERMINATOR
  <2>1. k - 1 \in 0..n /\ (k - 1) + 1 = k /\ k \in Index /\ k < n + 1 /\ k + 1 \in 1..strlen(src) /\ (k + 1) - 1 = k
    BY <1>0, <1>2 DEF Index
  <2>2. b[k - 1] = src[k] /\ t[k] = src[k]
    BY <1>1, <1>3, <1>6, <2>1
  <2> QED BY <1>4, <2>1, <2>2
<1>9. CString(b) = t
  <2>1. Holds(b, t)
    BY <1>2, <1>3, <1>7, <1>8 DEF Holds
  <2> QED BY <2>1, CStringIs
<1> QED BY <1>1, <1>3, <1>5, <1>9

-----------------------------------------------------------------------------
\* The goal weight.

GoalType == target_weight \in Int

LEMMA GoalStep == GoalType /\ [Next]_vars => GoalType'
PROOF
<1> SUFFICES ASSUME target_weight \in Int, [Next]_vars PROVE target_weight' \in Int
  BY DEF GoalType
<1>1. ASSUME NEW stable, NEW weight, Star(stable, weight) PROVE target_weight' \in Int
  <2>1. CASE StarGoal
    <3>1. atoi(guess, 2) \in (-IntMax - 1)..IntMax
      <4>1. 2 \in 0..MAX_PASSWORD_LENGTH
        BY MaxAssumption
      <4> QED BY <4>1, AtoiType
    <3>2. toFloat(atoi(guess, 2)) \in Int
      BY <3>1, ToFloatNearest
    <3> QED BY <2>1, <3>2 DEF StarGoal
  <2>2. CASE StarPassword \/ StarAttempt(stable, weight)
    BY <2>2 DEF StarPassword, StarAttempt
  <2> QED BY <1>1, <2>1, <2>2 DEF Star
<1> QED BY <1>1 DEF Next, Hash, Press, DoorClosed, vars

\* Whatever is typed or delivered by a failed read, any byte included, the
\* buffers of the Password object and the index stay in bounds, and the goal
\* that atoi() and the conversion to float make of blanks, sign and digits is
\* a number, which may be negative (keypadEvent).
THEOREM KeypadTypes == Spec => []TypeOK
PROOF
<1>1. Init => GoalType
  <2>1. InitialTarget \in (-IntMax - 1)..IntMax
    BY NumbersAssumption
  <2> QED BY <2>1, ToFloatNearest DEF Init, GoalType
<1>2. Inv /\ GoalType => TypeOK
  BY DEF Inv, BufferType, GoalType, TypeOK
<1> QED BY <1>1, <1>2, GoalStep, Invariance, PTL DEF Spec

-----------------------------------------------------------------------------
\* Every step of the keypad is one of the strings, or none.

LEMMA GuessString ==
  ASSUME Inv
  PROVE  /\ strlen(guess) \in Index /\ strlen(guess) <= currentIndex
         /\ guess[strlen(guess)] = STRING_TERMINATOR
PROOF
<1>1. guess \in Buffer /\ currentIndex \in Index /\ guess[currentIndex] = STRING_TERMINATOR
  BY DEF Inv, BufferType, BufferInv, GuessInv
<1>2. strlen(guess) \in 0..MAX_PASSWORD_LENGTH /\ ~(currentIndex < strlen(guess))
  BY <1>1, StrlenFacts
<1>3. strlen(guess) <= currentIndex /\ strlen(guess) < MAX_PASSWORD_LENGTH
  BY <1>1, <1>2, MaxAssumption DEF Index
<1> QED BY <1>1, <1>2, <1>3, StrlenFacts, MaxAssumption DEF Index

LEMMA PressStep ==
  ASSUME Inv, NEW key \in Keys, Press(key)
  PROVE  [Abstract!Next]_Abstract!vars
PROOF
<1>0. guess \in Buffer /\ currentIndex \in Index /\ guess[currentIndex] = STRING_TERMINATOR /\ key \in Char
  BY KeysAssumption DEF Inv, BufferType, BufferInv, GuessInv
<1>1. UNCHANGED <<target, target_weight, g_state>> /\ g_state = "LOCKED" /\ append(key)
  BY DEF Press
<1>2. CString(target)' = CString(target)
  BY <1>1
<1>3. CASE currentIndex + 1 = MAX_PASSWORD_LENGTH
  <2>1. guess' = guess
    BY <1>1, <1>3 DEF append
  <2>2. CString(guess)' = CString(guess)
    BY <2>1
  <2> QED BY <1>1, <1>2, <2>2 DEF Abstract!vars
<1>4. CASE currentIndex + 1 # MAX_PASSWORD_LENGTH
  <2>1. guess' = [guess EXCEPT ![currentIndex] = key, ![currentIndex + 1] = STRING_TERMINATOR]
    BY <1>1, <1>4 DEF append
  <2>2. currentIndex + 1 \in Index /\ currentIndex \in Nat
    BY <1>0, <1>4, MaxAssumption DEF Index
  <2>3. guess' \in Buffer
    BY PressInv DEF Inv, BufferType
  <2>4. \/ CString(guess') = CString(guess)
        \/ Len(CString(guess)) = currentIndex /\ CString(guess') = Append(CString(guess), key)
    <3>1. Appended(guess, currentIndex, key, guess')
      BY <1>0, <2>1, <2>2 DEF Appended
    <3> QED BY <1>0, <2>3, <3>1, AppendString
  <2>5. CASE CString(guess') = CString(guess)
    BY <1>1, <1>2, <2>5 DEF Abstract!vars
  <2>6. CASE Len(CString(guess)) = currentIndex /\ CString(guess') = Append(CString(guess), key)
    <3>1. Len(CString(guess)) < MAX_PASSWORD_LENGTH - 1
      BY <2>2, <2>6, MaxAssumption DEF Index
    <3>2. Abstract!Type
      BY <1>1, <1>2, <2>6, <3>1 DEF Abstract!Type
    <3> QED BY <3>2 DEF Abstract!Next
  <2> QED BY <2>4, <2>5, <2>6
<1> QED BY <1>3, <1>4

LEMMA ResetEmpties ==
  ASSUME Inv, reset, typed' = <<>> PROVE CString(guess') = <<>>
PROOF
<1>1. guess' \in Buffer
  BY ResetInv DEF Inv
<1>2. guess'[0] = STRING_TERMINATOR
  BY MaxAssumption DEF Inv, BufferType, reset, Buffer, Index
<1> QED BY <1>1, <1>2, ResetString

LEMMA HashStep ==
  ASSUME Inv, Hash PROVE [Abstract!Next]_Abstract!vars
PROOF
<1>1. CString(guess') = <<>>
  BY ResetEmpties DEF Hash
<1>2. Abstract!Discard
  BY <1>1 DEF Hash, Abstract!Discard
<1> QED BY <1>2 DEF Abstract!Next

LEMMA DoorStep ==
  ASSUME DoorClosed PROVE [Abstract!Next]_Abstract!vars
PROOF
<1>1. Abstract!Lock
  BY DEF DoorClosed, Abstract!Lock
<1> QED BY <1>1 DEF Abstract!Next

LEMMA Front ==
  ASSUME NEW e \in Seq(Chars)
  PROVE  /\ 1 <= Len(e) => SubSeq(e, 1, 1) = <<e[1]>>
         /\ 2 <= Len(e) => SubSeq(e, 1, 2) = <<e[1], e[2]>>
PROOF
<1>1. Len(e) \in Nat /\ e \in [1..Len(e) -> Chars]
  BY LenProperties
<1>2. ASSUME NEW m \in 1..2, m <= Len(e)
      PROVE  /\ SubSeq(e, 1, m) \in Seq(Chars) /\ Len(SubSeq(e, 1, m)) = m
             /\ \A i \in 1..m : SubSeq(e, 1, m)[i] = e[i]
  <2>1. \A i \in 1..m : e[i] \in Chars
    BY <1>1, <1>2
  <2>2. /\ SubSeq(e, 1, m) \in Seq(Chars)
        /\ Len(SubSeq(e, 1, m)) = IF 1 <= m THEN m - 1 + 1 ELSE 0
        /\ \A i \in 1..(m - 1 + 1) : SubSeq(e, 1, m)[i] = e[1 + i - 1]
    BY <2>1, SubSeqProperties
  <2>3. m - 1 + 1 = m /\ \A i \in 1..m : 1 + i - 1 = i
    OBVIOUS
  <2> QED BY <2>2, <2>3
<1>3. ASSUME 1 <= Len(e) PROVE SubSeq(e, 1, 1) = <<e[1]>>
  <2>1. 1 \in 1..2 /\ 1 \in 1..1 /\ e[1] \in Chars
    BY <1>1, <1>3
  <2>2. SubSeq(e, 1, 1) \in Seq(Chars) /\ Len(SubSeq(e, 1, 1)) = 1
    BY <1>2, <1>3, <2>1
  <2>3. \A i \in 1..1 : SubSeq(e, 1, 1)[i] = <<e[1]>>[i]
    BY <1>2, <1>3, <2>1
  <2>4. <<e[1]>> \in Seq(Chars) /\ Len(<<e[1]>>) = 1
    BY <2>1
  <2> QED BY <2>2, <2>3, <2>4, SeqEqual
<1>4. ASSUME 2 <= Len(e) PROVE SubSeq(e, 1, 2) = <<e[1], e[2]>>
  <2>1. 2 \in 1..2 /\ e[1] \in Chars /\ e[2] \in Chars
    BY <1>1, <1>4
  <2>2. SubSeq(e, 1, 2) \in Seq(Chars) /\ Len(SubSeq(e, 1, 2)) = 2
    BY <1>2, <1>4, <2>1
  <2>3. \A i \in 1..2 : SubSeq(e, 1, 2)[i] = <<e[1], e[2]>>[i]
    BY <1>2, <1>4, <2>1
  <2>4. <<e[1], e[2]>> \in Seq(Chars) /\ Len(<<e[1], e[2]>>) = 2
    BY <2>1
  <2> QED BY <2>2, <2>3, <2>4, SeqEqual
<1> QED BY <1>3, <1>4

LEMMA StartsOne ==
  ASSUME Inv
  PROVE  Abstract!Starts(<<"0">>) <=> guess[0] = "0"
PROOF
<1>0. guess \in Buffer /\ MAX_PASSWORD_LENGTH \in Nat /\ MAX_PASSWORD_LENGTH >= 2
  BY MaxAssumption DEF Inv, BufferType
<1>1. PICK e \in Seq(Chars) : e = CString(guess) /\ Len(e) = strlen(guess) /\ \A k \in 1..strlen(guess) : e[k] = guess[k - 1]
  BY <1>0, CStringFacts
<1>2. PICK n \in Nat : n = Len(e) /\ n = strlen(guess) /\ guess[n] = STRING_TERMINATOR
  BY <1>1, GuessString
<1>3. Abstract!Starts(<<"0">>) <=> 1 <= n /\ SubSeq(e, 1, 1) = <<"0">>
  BY <1>1, <1>2 DEF Abstract!Starts
<1>4. guess[0] = "0" => 1 <= n
  BY <1>2 DEF STRING_TERMINATOR
<1>5. ASSUME 1 <= n PROVE SubSeq(e, 1, 1) = <<guess[0]>>
  <2>1. e[1] = guess[0]
    BY <1>1, <1>2, <1>5
  <2>2. SubSeq(e, 1, 1) = <<e[1]>>
    BY <1>2, <1>5, Front
  <2> QED BY <2>1, <2>2
<1> QED BY <1>3, <1>4, <1>5

LEMMA StartsTwo ==
  ASSUME Inv
  PROVE  Abstract!Starts(<<"0", "0">>) <=> guess[0] = "0" /\ guess[1] = "0"
PROOF
<1>0. guess \in Buffer /\ MAX_PASSWORD_LENGTH \in Nat /\ MAX_PASSWORD_LENGTH >= 2
  BY MaxAssumption DEF Inv, BufferType
<1>1. PICK e \in Seq(Chars) : e = CString(guess) /\ Len(e) = strlen(guess) /\ \A k \in 1..strlen(guess) : e[k] = guess[k - 1]
  BY <1>0, CStringFacts
<1>2. PICK n \in Nat : n = Len(e) /\ n = strlen(guess) /\ guess[n] = STRING_TERMINATOR
  BY <1>1, GuessString
<1>3. Abstract!Starts(<<"0", "0">>) <=> 2 <= n /\ SubSeq(e, 1, 2) = <<"0", "0">>
  BY <1>1, <1>2 DEF Abstract!Starts
<1>4. guess[0] = "0" /\ guess[1] = "0" => 2 <= n
  <2>1. n = 0 \/ n = 1 \/ 2 <= n
    OBVIOUS
  <2> QED BY <1>2, <2>1 DEF STRING_TERMINATOR
<1>5. ASSUME 2 <= n PROVE SubSeq(e, 1, 2) = <<guess[0], guess[1]>>
  <2>1. e[1] = guess[0] /\ e[2] = guess[1]
    BY <1>1, <1>2, <1>5
  <2>2. SubSeq(e, 1, 2) = <<e[1], e[2]>>
    BY <1>2, <1>5, Front
  <2> QED BY <2>1, <2>2
<1> QED BY <1>3, <1>4, <1>5

\* The string s lies in buf from off on.
Carries(buf, off, s) ==
  /\ s \in Seq(Chars) /\ Len(s) \in Nat /\ off \in Nat
  /\ off + Len(s) \in Index /\ buf[off + Len(s)] = STRING_TERMINATOR
  /\ \A k \in 1..Len(s) : s[k] = buf[off + k - 1]

LEMMA CarriesRest ==
  ASSUME NEW buf, NEW off, NEW s, Carries(buf, off, s), NEW n \in 0..Len(s)
  PROVE  Len(Abstract!Rest(s, n)) = Len(s) - n /\ Carries(buf, off + n, Abstract!Rest(s, n))
PROOF
<1>0. /\ s \in Seq(Chars) /\ Len(s) \in Nat /\ off \in Nat /\ n \in Nat
      /\ off + Len(s) \in Index /\ buf[off + Len(s)] = STRING_TERMINATOR
      /\ \A k \in 1..Len(s) : s[k] = buf[off + k - 1]
  BY DEF Carries
<1>m. PICK m \in Nat : m = Len(s) - n
  BY <1>0
<1>1. \A k \in (n + 1)..Len(s) : s[k] \in Chars
  BY <1>0, LenProperties
<1>2. /\ SubSeq(s, n + 1, Len(s)) \in Seq(Chars)
      /\ Len(SubSeq(s, n + 1, Len(s))) = IF n + 1 <= Len(s) THEN Len(s) - (n + 1) + 1 ELSE 0
      /\ \A k \in 1..(Len(s) - (n + 1) + 1) : SubSeq(s, n + 1, Len(s))[k] = s[n + 1 + k - 1]
  BY <1>0, <1>1, SubSeqProperties
<1>t. PICK t : t = Abstract!Rest(s, n)
  OBVIOUS
<1>3. t \in Seq(Chars) /\ Len(t) = m /\ \A k \in 1..m : t[k] = s[n + 1 + k - 1]
  <2>1. t = SubSeq(s, n + 1, Len(s))
    BY <1>t DEF Abstract!Rest
  <2>2. Len(s) - (n + 1) + 1 = m /\ (IF n + 1 <= Len(s) THEN Len(s) - (n + 1) + 1 ELSE 0) = m
    BY <1>0, <1>m
  <2> QED BY <1>2, <2>1, <2>2
<1>4. (off + n) + m = off + Len(s) /\ off + n \in Nat
  BY <1>0, <1>m
<1>5. ASSUME NEW k \in 1..m PROVE t[k] = buf[(off + n) + k - 1]
  <2>1. n + 1 + k - 1 = n + k /\ n + k \in 1..Len(s) /\ off + (n + k) - 1 = (off + n) + k - 1
    BY <1>0, <1>m
  <2> QED BY <1>0, <1>3, <2>1
<1>6. Carries(buf, off + n, t)
  BY <1>0, <1>3, <1>4, <1>5 DEF Carries
<1> QED BY <1>3, <1>6, <1>m, <1>t

\* The walk in the array and the prefix of the string.
LEMMA FirstIsPrefix ==
  ASSUME NEW buf, NEW off, NEW s, Carries(buf, off, s), NEW S, STRING_TERMINATOR \notin S
  PROVE  /\ Abstract!PrefixLength(s, S) \in 0..Len(s)
         /\ FirstOther(buf, off, S) = off + Abstract!PrefixLength(s, S)
PROOF
<1>0. /\ Len(s) \in Nat /\ off \in Nat /\ off + Len(s) \in Nat /\ off + Len(s) < MAX_PASSWORD_LENGTH
      /\ buf[off + Len(s)] = STRING_TERMINATOR /\ MAX_PASSWORD_LENGTH \in Nat
      /\ \A k \in 1..Len(s) : s[k] = buf[off + k - 1]
  BY MaxAssumption DEF Carries, Index
<1>p. PICK p : p = FirstOther(buf, off, S)
  OBVIOUS
<1>1. /\ p \in off..MAX_PASSWORD_LENGTH
      /\ p = MAX_PASSWORD_LENGTH \/ buf[p] \notin S
      /\ \A k \in off..(p - 1) : buf[k] \in S
  <2>1. off \in 0..MAX_PASSWORD_LENGTH
    BY <1>0
  <2> QED BY <1>p, <2>1, FirstOtherIs
<1>2. p <= off + Len(s)
  <2>1. ASSUME off + Len(s) < p PROVE FALSE
    <3>1. off + Len(s) \in off..(p - 1)
      BY <1>0, <1>1, <2>1
    <3> QED BY <1>0, <1>1, <3>1
  <2> QED BY <1>0, <1>1, <2>1
<1>n. PICK N \in 0..Len(s) : p = off + N
  <2>1. p - off \in 0..Len(s) /\ p = off + (p - off)
    BY <1>0, <1>1, <1>2
  <2> QED BY <2>1
<1>3. Leads(s, S, N)
  <2>1. ASSUME NEW k \in 1..N PROVE s[k] \in S
    <3>1. k \in 1..Len(s) /\ off + k - 1 \in off..(p - 1)
      BY <1>0, <1>n
    <3> QED BY <1>0, <1>1, <3>1
  <2>2. ASSUME N < Len(s) PROVE s[N + 1] \notin S
    <3>1. N + 1 \in 1..Len(s) /\ off + (N + 1) - 1 = p /\ p # MAX_PASSWORD_LENGTH
      BY <1>0, <1>n, <2>2
    <3> QED BY <1>0, <1>1, <3>1
  <2> QED BY <1>0, <2>1, <2>2 DEF Leads
<1>4. Abstract!PrefixLength(s, S) = N
  BY <1>3, PrefixIs
<1> QED BY <1>4, <1>n, <1>p

\* The digits in the array and the figures of the string.
LEMMA NumberIsMagnitude ==
  ASSUME NEW buf, NEW off, NEW s, Carries(buf, off, s)
  PROVE  number(buf, off) \in Nat /\ number(buf, off) = Abstract!Magnitude(s)
PROOF
<1>0. /\ Len(s) \in Nat /\ off \in Nat /\ off + Len(s) \in Nat /\ off + Len(s) < MAX_PASSWORD_LENGTH
      /\ buf[off + Len(s)] = STRING_TERMINATOR /\ MAX_PASSWORD_LENGTH \in Nat
      /\ \A k \in 1..Len(s) : s[k] = buf[off + k - 1]
  BY MaxAssumption DEF Carries, Index
<1>1. off \in 0..MAX_PASSWORD_LENGTH
  BY <1>0
<1>2. PICK N, w, h : Reading(buf, off, N, w, h)
  BY <1>1, NumberReads
<1>3. /\ N \in 0..(MAX_PASSWORD_LENGTH - off) /\ w \in [1..N -> Nat] /\ Horner(N, w, h)
      /\ \A k \in 1..N : buf[off + k - 1] \in Digit /\ w[k] = DigitValue(buf[off + k - 1])
      /\ off + N = MAX_PASSWORD_LENGTH \/ buf[off + N] \notin Digit
      /\ number(buf, off) = h[N]
  BY <1>2 DEF Reading
<1>4. N \in Nat /\ N <= Len(s)
  <2>1. ASSUME Len(s) < N PROVE FALSE
    <3>1. Len(s) + 1 \in 1..N /\ off + (Len(s) + 1) - 1 = off + Len(s)
      BY <1>0, <1>3, <2>1
    <3>2. STRING_TERMINATOR \in Digit
      BY <1>0, <1>3, <3>1
    <3> QED BY <3>2 DEF Digit, Digits, STRING_TERMINATOR
  <2> QED BY <1>0, <1>3, <2>1
<1>5. ASSUME N < Len(s) PROVE s[N + 1] \notin Digit
  <2>1. N + 1 \in 1..Len(s) /\ off + (N + 1) - 1 = off + N /\ off + N # MAX_PASSWORD_LENGTH
    BY <1>0, <1>4, <1>5
  <2> QED BY <1>0, <1>3, <2>1
<1>6. \A k \in 1..N : s[k] \in Digit /\ w[k] = DigitValue(s[k])
  <2>1. \A k \in 1..N : k \in 1..Len(s)
    BY <1>0, <1>4
  <2> QED BY <1>0, <1>3, <2>1
<1>7. Spelled(s, N, w)
  BY <1>0, <1>3, <1>4, <1>5, <1>6 DEF Spelled
<1>8. h[N] \in Nat
  BY <1>3, <1>4 DEF Horner
<1> QED BY <1>3, <1>7, <1>8, MagnitudeReads

\* What atoi() reads is the value of the string, as far as it is an int.
LEMMA AtoiIsValue ==
  ASSUME NEW buf, NEW off, NEW s, Carries(buf, off, s)
  PROVE  atoi(buf, off) = Abstract!Clamp(Abstract!Value(s))
PROOF
<1>b. Blank = Abstract!Spaces /\ STRING_TERMINATOR \notin Blank /\ STRING_TERMINATOR \notin {"+", "-"}
  BY DEF Blank, Abstract!Spaces, STRING_TERMINATOR
<1>1. PICK p \in 0..Len(s) : p = Abstract!PrefixLength(s, Blank) /\ FirstOther(buf, off, Blank) = off + p
  BY <1>b, FirstIsPrefix
<1>2. PICK t : t = Abstract!Rest(s, p)
  OBVIOUS
<1>3. PICK start : start = off + p
  OBVIOUS
<1>4. Carries(buf, start, t)
  BY <1>1, <1>2, <1>3, CarriesRest
<1>5. /\ t \in Seq(Chars) /\ Len(t) \in Nat /\ start \in Nat /\ start + Len(t) \in Index
      /\ buf[start + Len(t)] = STRING_TERMINATOR
      /\ \A k \in 1..Len(t) : t[k] = buf[start + k - 1]
  BY <1>4 DEF Carries
<1> DEFINE signed == t # <<>> /\ t[1] \in {"+", "-"}
           u == IF signed THEN Abstract!Rest(t, 1) ELSE t
<1>6. t # <<>> => Len(t) > 0 /\ t[1] = buf[start] /\ 1 \in 0..Len(t) /\ start < MAX_PASSWORD_LENGTH
  <2>1. ASSUME t # <<>> PROVE Len(t) > 0
    BY <1>5, <2>1, EmptySeq
  <2>2. ASSUME Len(t) > 0 PROVE t[1] = buf[start] /\ 1 \in 0..Len(t) /\ start < MAX_PASSWORD_LENGTH
    <3>1. 1 \in 1..Len(t) /\ start + 1 - 1 = start
      BY <1>5, <2>2
    <3>2. start < MAX_PASSWORD_LENGTH
      BY <1>5, <2>2, MaxAssumption DEF Index
    <3> QED BY <1>5, <3>1, <3>2
  <2> QED BY <2>1, <2>2
<1>7. t = <<>> => buf[start] = STRING_TERMINATOR
  <2>1. ASSUME t = <<>> PROVE start + Len(t) = start
    BY <1>5, <2>1
  <2> QED BY <1>5, <2>1
<1>8. (Signed(buf, start) <=> signed) /\ (Negative(buf, start) <=> signed /\ t[1] = "-")
  BY <1>6, <1>7, <1>b DEF Signed, Negative
<1>9. Carries(buf, Begin(buf, start), u)
  <2>1. CASE signed
    <3>1. Carries(buf, start + 1, Abstract!Rest(t, 1))
      BY <1>4, <1>6, <2>1, CarriesRest
    <3> QED BY <1>8, <2>1, <3>1 DEF Begin
  <2>2. CASE ~signed
    BY <1>4, <1>8, <2>2 DEF Begin
  <2> QED BY <2>1, <2>2
<1>10. PICK n \in Nat : n = number(buf, Begin(buf, start)) /\ n = Abstract!Magnitude(u)
  BY <1>9, NumberIsMagnitude
<1>11. Abstract!Value(s) = IF signed /\ t[1] = "-" THEN -n ELSE n
  BY <1>1, <1>2, <1>10, <1>b DEF Abstract!Value
<1>12. atoi(buf, off) = IF Negative(buf, start)
                        THEN IF n > IntMax + 1 THEN -IntMax - 1 ELSE -n
                        ELSE IF n > IntMax THEN IntMax ELSE n
  BY <1>1, <1>3, <1>10, AtoiIs
<1> HIDE DEF signed, u
<1>13. IntMax \in Nat
  BY NumbersAssumption
<1>14. CASE Negative(buf, start)
  BY <1>8, <1>11, <1>12, <1>13, <1>14 DEF Abstract!Clamp
<1>15. CASE ~Negative(buf, start)
  BY <1>8, <1>11, <1>12, <1>13, <1>15 DEF Abstract!Clamp
<1> QED BY <1>14, <1>15

\* Behind the two zeros of a goal lies the rest of the entry.
LEMMA GoalBehindZeros ==
  ASSUME Inv, guess[0] = "0", guess[1] = "0"
  PROVE  Carries(guess, 2, Abstract!Rest(CString(guess), 2))
PROOF
<1>0. guess \in Buffer
  BY DEF Inv, BufferType
<1>1. PICK e \in Seq(Chars) : e = CString(guess) /\ Len(e) = strlen(guess) /\ \A k \in 1..strlen(guess) : e[k] = guess[k - 1]
  BY <1>0, CStringFacts
<1>2. PICK n \in Nat : n = Len(e) /\ n = strlen(guess) /\ guess[n] = STRING_TERMINATOR /\ n \in Index
  BY <1>1, GuessString, IndexNat
<1>3. 2 \in 0..n
  <2>1. n = 0 \/ n = 1 \/ 2 <= n
    OBVIOUS
  <2> QED BY <1>2, <2>1 DEF STRING_TERMINATOR
<1>4. Carries(guess, 0, e)
  <2>1. 0 + Len(e) = n /\ \A k \in 1..Len(e) : 0 + k - 1 = k - 1
    BY <1>2
  <2> QED BY <1>1, <1>2, <2>1 DEF Carries
<1>5. Carries(guess, 0 + 2, Abstract!Rest(e, 2))
  BY <1>2, <1>3, <1>4, CarriesRest
<1> QED BY <1>1, <1>5

LEMMA StarGoalStep ==
  ASSUME Inv, g_state = "LOCKED", StarGoal, reset, typed' = <<>>
  PROVE  [Abstract!Next]_Abstract!vars
PROOF
<1>1. /\ guess[0] = "0" /\ guess[1] = "0" /\ target_weight' = toFloat(atoi(guess, 2))
      /\ UNCHANGED <<target, g_state>>
  BY DEF StarGoal
<1>2. CString(guess') = <<>>
  BY ResetEmpties
<1>3. toFloat(atoi(guess, 2)) \in Abstract!Nearest(atoi(guess, 2))
  <2>1. 2 \in 0..MAX_PASSWORD_LENGTH
    BY MaxAssumption
  <2> QED BY <2>1, AtoiType, ToFloatNearest
<1>4. atoi(guess, 2) = Abstract!Clamp(Abstract!Value(Abstract!Rest(CString(guess), 2)))
  BY <1>1, GoalBehindZeros, AtoiIsValue
<1>5. target_weight' \in Abstract!Nearest(Abstract!Clamp(Abstract!Value(Abstract!Rest(CString(guess), 2))))
  BY <1>1, <1>3, <1>4
<1>6. Abstract!Starts(<<"0", "0">>)
  BY <1>1, StartsTwo
<1>7. Abstract!SetGoal
  BY <1>1, <1>5, <1>6 DEF Abstract!SetGoal
<1>8. Abstract!Commit
  BY <1>2, <1>7 DEF Abstract!Commit
<1> QED BY <1>8 DEF Abstract!Next

LEMMA StarPasswordStep ==
  ASSUME Inv, g_state = "LOCKED", StarPassword, reset, typed' = <<>>
  PROVE  [Abstract!Next]_Abstract!vars
PROOF
<1>1. /\ guess[0] = "0" /\ guess[1] # "0" /\ target' = strcpy(target, guess, 1)
      /\ UNCHANGED <<target_weight, g_state>>
  BY DEF StarPassword, set
<1>2. CString(guess') = <<>>
  BY ResetEmpties
<1>3. target \in Buffer /\ guess \in Buffer /\ strlen(guess) \in Index
  BY GuessString DEF Inv, BufferType
<1>4. strlen(guess) > 0
  <2>1. strlen(guess) \in Nat /\ strlen(guess) # 0
    BY <1>1, <1>3, GuessString, IndexNat DEF STRING_TERMINATOR
  <2> QED BY <2>1
<1>5. CString(target') = Tail(CString(guess))
  BY <1>1, <1>3, <1>4, StrcpyString
<1>6. Abstract!Starts(<<"0">>) /\ ~Abstract!Starts(<<"0", "0">>)
  BY <1>1, StartsOne, StartsTwo
<1>7. Abstract!SetSecret
  BY <1>1, <1>5, <1>6 DEF Abstract!SetSecret
<1>8. Abstract!Commit
  BY <1>2, <1>7 DEF Abstract!Commit
<1> QED BY <1>8 DEF Abstract!Next

LEMMA StarAttemptStep ==
  ASSUME Inv, g_state = "LOCKED", NEW stable, NEW weight \in Weights,
         StarAttempt(stable, weight), reset, typed' = <<>>
  PROVE  [Abstract!Next]_Abstract!vars
PROOF
<1>1. UNCHANGED <<target, target_weight>> /\ checkPassword(stable, weight)
  BY DEF StarAttempt
<1>2. CString(guess') = <<>>
  BY ResetEmpties
<1>3. CASE evaluate(target, guess) /\ stable # "initial" /\ weight < target_weight
  <2>1. g_state' = "UNLOCKED"
    BY <1>1, <1>3 DEF checkPassword
  <2>2. CString(guess) = CString(target)
    BY <1>3, EvaluateIsEquality DEF Inv, BufferType
  <2>3. Abstract!Open
    BY <1>1, <1>3, <2>1, <2>2 DEF Abstract!Open
  <2>4. Abstract!Commit
    BY <1>2, <2>3 DEF Abstract!Commit
  <2> QED BY <2>4 DEF Abstract!Next
<1>4. CASE ~(evaluate(target, guess) /\ stable # "initial" /\ weight < target_weight)
  <2>1. g_state' = g_state
    BY <1>1, <1>4 DEF checkPassword
  <2>2. Abstract!Discard
    BY <1>1, <1>2, <2>1 DEF Abstract!Discard
  <2> QED BY <2>2 DEF Abstract!Next
<1> QED BY <1>3, <1>4

LEMMA InitString == Init => Abstract!Init
PROOF
<1> SUFFICES ASSUME Init PROVE Abstract!Init
  OBVIOUS
<1>1. Inv
  BY InitInv
<1>2. guess \in Buffer /\ target \in Buffer
  BY <1>1 DEF Inv, BufferType
<1>3. target = Literal(InitialPassword) /\ guess = Literal(<<>>)
  BY DEF Init, Password
<1>4. CString(guess) = <<>>
  <2>1. guess[0] = STRING_TERMINATOR
    BY <1>3, MaxAssumption DEF Literal, Index
  <2> QED BY <1>2, <2>1, ResetString
<1>5. CString(target) = InitialPassword
  <2>1. InitialPassword \in Seq(Chars) /\ Len(InitialPassword) \in Nat /\ Len(InitialPassword) \in Index
    BY InitialAssumption, MaxAssumption, LenProperties DEF Index
  <2>2. target[Len(InitialPassword)] = STRING_TERMINATOR
    BY <1>3, <2>1 DEF Literal
  <2>3. ASSUME NEW k \in 1..Len(InitialPassword)
        PROVE  target[k - 1] = InitialPassword[k] /\ InitialPassword[k] # STRING_TERMINATOR
    <3>1. k - 1 \in Index /\ k - 1 < Len(InitialPassword) /\ (k - 1) + 1 = k
      BY <2>1, MaxAssumption DEF Index
    <3>2. InitialPassword[k] \in Chars
      BY <2>1, LenProperties
    <3> QED BY <1>3, <3>1, <3>2, CharsAssumption DEF Literal
  <2>4. Holds(target, InitialPassword)
    BY <2>1, <2>2, <2>3 DEF Holds
  <2> QED BY <1>2, <2>1, <2>4, CStringIs
<1>6. target_weight \in Abstract!Nearest(InitialTarget) /\ g_state = "LOCKED"
  <2>1. InitialTarget \in (-IntMax - 1)..IntMax
    BY NumbersAssumption
  <2> QED BY <2>1, ToFloatNearest DEF Init
<1> QED BY <1>4, <1>5, <1>6 DEF Abstract!Init

LEMMA NextString == Inv /\ [Next]_vars => [Abstract!Next]_Abstract!vars
PROOF
<1> SUFFICES ASSUME Inv, [Next]_vars PROVE [Abstract!Next]_Abstract!vars
  OBVIOUS
<1>1. ASSUME NEW stable, NEW weight \in Weights, Star(stable, weight)
      PROVE  [Abstract!Next]_Abstract!vars
  <2>1. g_state = "LOCKED" /\ reset /\ typed' = <<>>
    BY <1>1 DEF Star
  <2>2. StarGoal \/ StarPassword \/ StarAttempt(stable, weight)
    BY <1>1 DEF Star
  <2> QED BY <2>1, <2>2, StarGoalStep, StarPasswordStep, StarAttemptStep
<1>2. CASE Hash
  BY <1>2, HashStep
<1>3. ASSUME NEW key \in Keys, Press(key) PROVE [Abstract!Next]_Abstract!vars
  BY <1>3, PressStep
<1>4. CASE DoorClosed
  BY <1>4, DoorStep
<1>5. CASE UNCHANGED vars
  BY <1>5 DEF vars, Abstract!vars
<1> QED BY <1>1, <1>2, <1>3, <1>4, <1>5 DEF Next

\* The two arrays and the index of the Password object, with what stays behind
\* a terminator, atoi() on the middle of a buffer and the conversion to float,
\* implement a secret, an entry and a goal as KeypadSpec has them, whatever is
\* typed or delivered by a failed read, terminators, signs and blanks included
\* (keypadEvent, checkPassword).
THEOREM BuffersImplementStrings == Spec => ImplementsKeypadSpec
BY InitString, NextString, Invariance, PTL DEF Spec, ImplementsKeypadSpec, Abstract!Spec
=============================================================================
