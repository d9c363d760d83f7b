----------------------------- MODULE KeypadSpec -----------------------------
(***************************************************************************)
(* What the keypad promises, in terms of strings: an entry of at most      *)
(* Capacity characters that '#' discards and '*' carries out, a secret, a  *)
(* goal weight and a lock.                                                 *)
(***************************************************************************)
EXTENDS Integers, Sequences

CONSTANTS Keys, Weights, InitialPassword, InitialTarget, IntMax, Mantissa,
          Capacity

VARIABLES secret, entry, goal, mode

vars == <<secret, entry, goal, mode>>

Figures == <<"0", "1", "2", "3", "4", "5", "6", "7", "8", "9">>
Figure == {Figures[d] : d \in 1..10}

Spaces == {" ", "HT", "LF", "VT", "FF", "CR"}

\* The length of the longest prefix of s made of members of S, and what is
\* behind n characters.
PrefixLength(s, S) ==
  CHOOSE n \in 0..Len(s) : /\ \A k \in 1..n : s[k] \in S
                           /\ n < Len(s) => s[n + 1] \notin S
Rest(s, n) == SubSeq(s, n + 1, Len(s))

\* The value of the figures s begins with: the sum of each figure times its
\* power of ten.
TenTo[n \in Nat] == IF n = 0 THEN 1 ELSE 10 * TenTo[n - 1]
Worth(c) == CHOOSE d \in 0..9 : Figures[d + 1] = c
Magnitude(s) ==
  LET n == PrefixLength(s, Figure)
      sum[k \in 0..n] ==
        IF k = 0 THEN 0 ELSE sum[k - 1] + TenTo[n - k] * Worth(s[k])
  IN  sum[n]

\* The number a string begins with, and the int nearest to it.
Value(s) ==
  LET t      == Rest(s, PrefixLength(s, Spaces))
      signed == t # <<>> /\ t[1] \in {"+", "-"}
      m      == Magnitude(IF signed THEN Rest(t, 1) ELSE t)
  IN  IF signed /\ t[1] = "-" THEN -m ELSE m
Clamp(v) ==
  IF v > IntMax THEN IntMax ELSE IF v < -IntMax - 1 THEN -IntMax - 1 ELSE v

\* The numbers a float can hold, and those of them nearest to v.
TwoTo[n \in Nat] == IF n = 0 THEN 1 ELSE 2 * TwoTo[n - 1]
Magnitudes ==
  {m * TwoTo[e] : m \in 0..(TwoTo[Mantissa] - 1), e \in 0..(IntMax + 1)}
Floats == Magnitudes \cup {-f : f \in Magnitudes}
Distance(a, b) == IF a < b THEN b - a ELSE a - b
Nearest(v) ==
  LET floats == Floats
  IN  {f \in floats : \A g \in floats : Distance(f, v) <= Distance(g, v)}

Init ==
  /\ secret = InitialPassword
  /\ entry = <<>>
  /\ goal \in Nearest(InitialTarget)
  /\ mode = "LOCKED"

Type ==
  /\ mode = "LOCKED"
  /\ Len(entry) < Capacity
  /\ \E key \in Keys : entry' = Append(entry, key)
  /\ UNCHANGED <<secret, goal, mode>>

Discard ==
  /\ mode = "LOCKED"
  /\ entry' = <<>>
  /\ UNCHANGED <<secret, goal, mode>>

Starts(prefix) ==
  Len(prefix) <= Len(entry) /\ SubSeq(entry, 1, Len(prefix)) = prefix

SetGoal ==
  /\ Starts(<<"0", "0">>)
  /\ goal' \in Nearest(Clamp(Value(Rest(entry, 2))))
  /\ UNCHANGED <<secret, mode>>

SetSecret ==
  /\ Starts(<<"0">>) /\ ~Starts(<<"0", "0">>)
  /\ secret' = Tail(entry)
  /\ UNCHANGED <<goal, mode>>

Open ==
  /\ entry = secret
  /\ \E weight \in Weights : weight < goal
  /\ mode' = "UNLOCKED"
  /\ UNCHANGED <<secret, goal>>

Commit ==
  /\ mode = "LOCKED"
  /\ SetGoal \/ SetSecret \/ Open
  /\ entry' = <<>>

Lock ==
  /\ mode' = "LOCKED"
  /\ UNCHANGED <<secret, entry, goal>>

Next == Type \/ Discard \/ Commit \/ Lock

Spec == Init /\ [][Next]_vars
=============================================================================
