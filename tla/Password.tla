------------------------------ MODULE Password ------------------------------
(***************************************************************************)
(* The Password object of src/Password.cpp: two C strings in fixed arrays  *)
(* and the index at which the next character of the guess goes.  An array  *)
(* is a function from its indices to characters; what lies behind a        *)
(* terminator is kept, because the code keeps it too.                      *)
(***************************************************************************)
EXTENDS Integers, Sequences

CONSTANTS
  MAX_PASSWORD_LENGTH,   \* size of both arrays (20 in Password.h)
  Chars                  \* characters other than the terminator

STRING_TERMINATOR == "NUL"

ASSUME MaxAssumption == MAX_PASSWORD_LENGTH \in Nat /\ MAX_PASSWORD_LENGTH >= 2
ASSUME CharsAssumption == STRING_TERMINATOR \notin Chars

VARIABLES
  target,        \* the password
  guess,         \* what has been typed since the last reset
  currentIndex   \* where append() writes next

Index == 0..(MAX_PASSWORD_LENGTH - 1)
Char == Chars \cup {STRING_TERMINATOR}
Buffer == [Index -> Char]

\* strcpy(dst, &src[off]): every character up to and including the first
\* terminator; the cells of dst behind it keep what they held.
strcpy(dst, src, off) ==
  [k \in Index |->
     IF /\ off + k \in Index
        /\ \A j \in off..(off + k - 1) : src[j] # STRING_TERMINATOR
     THEN src[off + k]
     ELSE dst[k]]

\* The C string an array holds, as a sequence; the whole array when it has
\* no terminator.
Ends(buf) == {k \in Index : buf[k] = STRING_TERMINATOR}
strlen(buf) ==
  IF Ends(buf) = {} THEN MAX_PASSWORD_LENGTH
  ELSE CHOOSE k \in Ends(buf) : \A j \in Ends(buf) : k <= j
CString(buf) == [k \in 1..strlen(buf) |-> buf[k - 1]]

\* The array a string constant leaves behind in zeroed memory.
Literal(s) ==
  [k \in Index |-> IF k < Len(s) THEN s[k + 1] ELSE STRING_TERMINATOR]

set(src, off) == target' = strcpy(target, src, off)

\* Mutant: append() without its test for a full array.
appendUnchecked(character) ==
  /\ guess' = [guess EXCEPT ![currentIndex] = character,
                            ![currentIndex + 1] = STRING_TERMINATOR]
  /\ currentIndex' = currentIndex + 1

append(character) ==
  IF currentIndex + 1 = MAX_PASSWORD_LENGTH
  THEN UNCHANGED <<guess, currentIndex>>
  ELSE /\ guess' = [guess EXCEPT ![currentIndex] = character,
                                 ![currentIndex + 1] = STRING_TERMINATOR]
       /\ currentIndex' = currentIndex + 1

\* Mutant: the index goes back, the old text stays.
resetIndexOnly ==
  /\ currentIndex' = 0
  /\ UNCHANGED guess

reset ==
  /\ currentIndex' = 0
  /\ guess' = [guess EXCEPT ![0] = STRING_TERMINATOR]

\* Mutant: the guess need not end where the password ends.
evaluatePrefix(t, g) ==
  \E i \in 1..(MAX_PASSWORD_LENGTH - 1) :
     /\ t[i - 1] = STRING_TERMINATOR
     /\ \A j \in 0..(i - 2) : t[j] = g[j] /\ t[j] # STRING_TERMINATOR

\* evaluate() walks both arrays together.  The loop runs for
\* i = 1 .. MAX-1 and looks at the cells i-1, so the last cell is loaded
\* but never compared.
evaluate(t, g) ==
  \E i \in 1..(MAX_PASSWORD_LENGTH - 1) :
     /\ t[i - 1] = STRING_TERMINATOR
     /\ g[i - 1] = STRING_TERMINATOR
     /\ \A j \in 0..(i - 2) : t[j] = g[j] /\ t[j] # STRING_TERMINATOR

\* The constructor: set(pass) and reset() on a zero-initialised global.
Password(pass) ==
  /\ target = Literal(pass)
  /\ guess = Literal(<<>>)
  /\ currentIndex = 0
=============================================================================
