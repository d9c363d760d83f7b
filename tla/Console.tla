------------------------------ MODULE Console -------------------------------
(***************************************************************************)
(* PrintfWrapper.cpp: printf2() of several threads on a small display.     *)
(* The lines of a text go into a ring of as many lines as the display has  *)
(* rows, and the ring is drawn from the oldest line on.  A line is drawn   *)
(* character by character by Adafruit_GFX, which wraps at the right edge,  *)
(* so that lines are cut before they are stored.                           *)
(*                                                                         *)
(* The text is made in a buffer of MAX_CHAR characters by vsprintf(),      *)
(* which knows no limit, and is then the format of pc.printf().  A text    *)
(* that is longer, or that has conversions of its own (the program prints  *)
(* the bodies of HTTP answers), makes the rest of the run undefined.       *)
(***************************************************************************)
EXTENDS Integers, Sequences

CONSTANTS
  Threads,
  Messages,    \* texts: the lengths of their lines, and whether they have
               \* conversions ('%') in them
  MAX_CHAR,    \* size of the buffer and of each line of the ring (300)
  MAX_PAGE,    \* lines of the ring and rows of the display (8)
  Cut,         \* length lines are cut to (20)
  Width        \* characters after which the display wraps (21)

\* A line that is cut ends before the right edge, and inside the ring's line.
ASSUME ConsoleAssumption ==
  /\ MAX_PAGE \in Nat \ {0} /\ Cut \in Nat /\ Width \in Nat /\ Cut < Width
  /\ MAX_CHAR \in Nat /\ Cut < MAX_CHAR
  /\ Messages \subseteq [lines : Seq(Nat), conv : BOOLEAN]
  /\ "nobody" \notin Threads

\* A line or a row: who printed it and how many characters it has.
Line == [by : Threads \cup {"nobody"}, len : 0..MAX_CHAR-1]
Blank == [by |-> "nobody", len |-> 0]
Page == 0..MAX_PAGE-1

VARIABLES
  at,       \* where each thread is in printf2()
  buf,      \* the text of each
  cnt, i,   \* its local variables in printOLED()
  mutex,    \* who holds it
  tmp,      \* the lines of the text being printed
  str, j,   \* the ring and the place of the next line
  oled,     \* the rows of the display
  recent,   \* history: the last MAX_PAGE lines printed, text by text
  undefined \* what has made the run undefined: "none", the text overran
            \* "buf", it was no "format", a line overran that of the "ring"

threadVars == <<at, buf, cnt, i>>
vars == <<threadVars, mutex, tmp, str, j, oled, recent, undefined>>

Blanks == [k \in 1..MAX_PAGE |-> Blank]

Init ==
  /\ at = [t \in Threads |-> "idle"] /\ buf = [t \in Threads |-> <<>>]
  /\ cnt = [t \in Threads |-> 0] /\ i = [t \in Threads |-> 0]
  /\ mutex = "nobody"
  /\ tmp = [k \in Page |-> Blank] /\ str = [k \in Page |-> Blank] /\ j = 0
  /\ oled = Blanks /\ recent = Blanks /\ undefined = "none"

LastOf(lines) == SubSeq(lines, Len(lines) - MAX_PAGE + 1, Len(lines))
AtMost(n, lines) == SubSeq(lines, 1, IF Len(lines) < n THEN Len(lines) ELSE n)

\* Characters of a text: each line has a newline or the terminator behind it.
Size(lines) ==
  LET total[k \in 0..Len(lines)] ==
        IF k = 0 THEN 0 ELSE total[k-1] + lines[k] + 1
  IN  total[Len(lines)]

\* Mutant: every line of the text is taken.
splitAll(t) ==
  LET outlist[k \in 0..Len(buf[t])] ==
        IF k = 0 THEN <<>>
        ELSE IF buf[t][k] = 0 THEN outlist[k-1]
        ELSE Append(outlist[k-1], [by |-> t, len |-> buf[t][k]])
  IN  outlist[Len(buf[t])]

\* strtok() skips empty lines; what does not fit the list is not printed.
split(t) ==
  LET outlist[k \in 0..Len(buf[t])] ==
        IF k = 0 THEN <<>>
        ELSE IF buf[t][k] = 0 \/ Len(outlist[k-1]) = MAX_PAGE THEN outlist[k-1]
        ELSE Append(outlist[k-1], [by |-> t, len |-> buf[t][k]])
  IN  outlist[Len(buf[t])]

cut(l) == [l EXCEPT !.len = IF @ > Cut THEN Cut ELSE @]

\* Adafruit_GFX::writeChar(): the cursor moves to the next row with the
\* character that fills a row, and with the end of the line once more.
writeLine(l) ==
  IF l.len < Width THEN <<l>>
  ELSE <<[l EXCEPT !.len = Width], [l EXCEPT !.len = l.len - Width]>>

\* The k-th line drawn: the ring from the oldest line on.
Ring(k) == str[IF j + k <= MAX_PAGE THEN j + k - 1 ELSE j + k - 1 - MAX_PAGE]

\* What is below the display is not seen.
draw ==
  LET rows[k \in 0..MAX_PAGE] == IF k = 0 THEN <<>> ELSE rows[k-1] \o writeLine(Ring(k))
  IN  AtMost(MAX_PAGE, rows[MAX_PAGE])

Goes(t, from, to) == at[t] = from /\ at' = [at EXCEPT ![t] = to]

-----------------------------------------------------------------------------

\* Mutant: the buffer has room for a terminator that the ring's lines lack.
printf2NoTerminator(t) ==
  /\ Goes(t, "idle", "lock")
  /\ \E m \in Messages :
       /\ buf' = [buf EXCEPT ![t] = m.lines]
       /\ undefined' = IF Size(m.lines) - 1 > MAX_CHAR THEN "buf"
                       ELSE IF m.conv THEN "format" ELSE undefined
  /\ UNCHANGED <<cnt, i, mutex, tmp, str, j, oled, recent>>

\* vsprintf() into buf, and pc.printf() with buf as its format.
printf2(t) ==
  /\ Goes(t, "idle", "lock")
  /\ \E m \in Messages :
       /\ buf' = [buf EXCEPT ![t] = m.lines]
       /\ undefined' = IF Size(m.lines) > MAX_CHAR THEN "buf"
                       ELSE IF m.conv THEN "format" ELSE undefined
  /\ UNCHANGED <<cnt, i, mutex, tmp, str, j, oled, recent>>

\* Mutant: the display is not protected.
LockNot(t) ==
  /\ Goes(t, "lock", "split")
  /\ mutex' = t
  /\ UNCHANGED <<buf, cnt, i, tmp, str, j, oled, recent, undefined>>

Lock(t) ==
  /\ Goes(t, "lock", "split")
  /\ mutex = "nobody" /\ mutex' = t
  /\ UNCHANGED <<buf, cnt, i, tmp, str, j, oled, recent, undefined>>

Split(t) ==
  /\ Goes(t, "split", "store")
  /\ LET lines == split(t) IN
       /\ tmp' = [k \in Page |-> IF k < Len(lines) THEN lines[k+1] ELSE tmp[k]]
       /\ cnt' = [cnt EXCEPT ![t] = Len(lines)]
  /\ i' = [i EXCEPT ![t] = 0]
  /\ UNCHANGED <<buf, mutex, str, j, oled, recent, undefined>>

\* strcpy() and the cut, line by line: the whole line is copied, then cut.
Store(t) ==
  /\ at[t] = "store" /\ i[t] < cnt[t]
  /\ str' = [str EXCEPT ![j] = cut(tmp[i[t]])]
  /\ undefined' = IF tmp[i[t]].len + 1 > MAX_CHAR THEN "ring" ELSE undefined
  /\ j' = IF j + 1 >= MAX_PAGE THEN 0 ELSE j + 1
  /\ i' = [i EXCEPT ![t] = @ + 1]
  /\ UNCHANGED <<at, buf, cnt, mutex, tmp, oled, recent>>

Draw(t) ==
  /\ Goes(t, "store", "unlock") /\ i[t] >= cnt[t]
  /\ oled' = draw
  /\ UNCHANGED <<buf, cnt, i, mutex, tmp, str, j, recent, undefined>>

Unlock(t) ==
  /\ Goes(t, "unlock", "idle")
  /\ mutex' = "nobody"
  /\ recent' = LastOf(recent \o [k \in 1..cnt[t] |-> cut(split(t)[k])])
  /\ UNCHANGED <<buf, cnt, i, tmp, str, j, oled, undefined>>

Step(t) ==
  undefined = "none" /\
    (printf2(t) \/ Lock(t) \/ Split(t) \/ Store(t) \/ Draw(t) \/ Unlock(t))

\* Nothing is known of the program any more; the display may show anything.
Noise == [by |-> "nobody", len |-> Cut]
Undefined ==
  /\ undefined # "none"
  /\ oled' \in [1..MAX_PAGE -> {Blank, Noise}]
  /\ UNCHANGED <<threadVars, mutex, tmp, str, j, recent, undefined>>

Next == (\E t \in Threads : Step(t)) \/ Undefined

Spec == Init /\ [][Next]_vars

-----------------------------------------------------------------------------

InBounds ==
  /\ at \in [Threads -> {"idle", "lock", "split", "store", "unlock"}]
  /\ buf \in [Threads -> {lines \in Seq(Nat) : Size(lines) <= MAX_CHAR}]
  /\ cnt \in [Threads -> 0..MAX_PAGE] /\ i \in [Threads -> 0..MAX_PAGE]
  /\ mutex \in Threads \cup {"nobody"}
  /\ tmp \in [Page -> Line] /\ str \in [Page -> Line] /\ j \in Page
  /\ oled \in [1..MAX_PAGE -> Line] /\ recent \in [1..MAX_PAGE -> Line]

\* As long as texts fit the buffer and have no conversions of their own,
\* every index and every length stays inside its array.
TypeOK ==
  /\ undefined \in {"none", "buf", "format", "ring"}
  /\ undefined = "none" => InBounds

\* As long as texts fit the buffer and have no conversions of their own:
\* whenever nobody is printing, the display shows the latest lines, one per
\* row, oldest first, with the lines of a text next to each other.
ShowsLatestLines ==
  undefined = "none" /\ mutex = "nobody" => oled = recent

\* strcpy() into a line of the ring has no limit and copies a line before it
\* is cut; it is nevertheless not what overruns first, however long a text is:
\* a text that fits the buffer has no line that is too long for the ring.
RingNeverOverrun == undefined # "ring"
=============================================================================
