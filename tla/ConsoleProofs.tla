--------------------------- MODULE ConsoleProofs ----------------------------
(***************************************************************************)
(* The console on the display, for any number of threads, texts, rows and  *)
(* lengths, up to the first text that does not fit the buffer or has a     *)
(* conversion in it.  While a text is being stored the ring, read from its oldest   *)
(* line, is the tail of what was printed before followed by the lines      *)
(* stored so far; the mutex keeps the other threads out of it.             *)
(***************************************************************************)
EXTENDS Console, SequenceTheorems, Induction

-----------------------------------------------------------------------------
\* The buffer, split() and draw.

\* Every line of a text is shorter than the text with its terminator.
LEMMA SizeBounds ==
  ASSUME NEW b \in Seq(Nat)
  PROVE  /\ Size(b) \in Nat /\ (Len(b) = 0 => Size(b) = 0)
         /\ \A n \in 1..Len(b) : b[n] < Size(b)
PROOF
<1>n. PICK N \in Nat : N = Len(b)
  OBVIOUS
<1>b. \A k \in 1..N : b[k] \in Nat
  BY <1>n
<1> DEFINE g == [z \in Nat \X Nat |-> IF z[1] \notin 1..N THEN z[2] ELSE z[2] + b[z[1]] + 1]
<1>1. g \in [Nat \X Nat -> Nat]
  <2>1. \A k \in Nat, x \in Nat : (IF k \notin 1..N THEN x ELSE x + b[k] + 1) \in Nat
    BY <1>b
  <2> QED BY <2>1
<1>2. \A k \in 1..N : \A x \in Nat : g[<<k, x>>] = x + b[k] + 1
  OBVIOUS
<1> HIDE DEF g
<1>3. PICK f : Recurs(f, N, Nat, 0, g)
  BY <1>1, RecursExists
<1> DEFINE Body(h, k) == IF k = 0 THEN 0 ELSE h[k - 1] + b[k] + 1
<1>4. ASSUME NEW k \in 0..N PROVE f[k] = Body(f, k) /\ f[k] \in Nat
  <2>1. CASE k = 0
    BY <1>3, <2>1 DEF Recurs
  <2>2. CASE k \in 1..N
    <3>1. k - 1 \in 0..N /\ k # 0
      BY <2>2
    <3>2. f[k - 1] \in Nat /\ f[k] \in Nat /\ f[k] = g[<<k, f[k - 1]>>]
      BY <1>3, <2>2, <3>1 DEF Recurs
    <3> QED BY <1>2, <2>2, <3>1, <3>2
  <2> QED BY <2>1, <2>2
<1>5. f = [k \in 0..N |-> Body(f, k)]
  <2> HIDE DEF Body
  <2> QED BY <1>3, <1>4 DEF Recurs
<1> DEFINE total == CHOOSE h : h = [k \in 0..N |-> Body(h, k)]
<1>6. Size(b) = total[N]
  BY <1>n DEF Size
<1>7. total = [k \in 0..N |-> Body(total, k)]
  BY <1>5
<1> HIDE DEF total
<1>8. \A k \in 0..N : total[k] = Body(total, k)
  <2> HIDE DEF Body
  <2> QED BY <1>7
<1>9. total[0] = 0 /\ \A k \in 0..N-1 : total[k + 1] = total[k] + b[k + 1] + 1
  <2>1. total[0] = 0
    BY <1>8
  <2>2. ASSUME NEW k \in 0..N-1 PROVE total[k + 1] = total[k] + b[k + 1] + 1
    <3>1. k + 1 \in 0..N /\ k + 1 # 0 /\ (k + 1) - 1 = k
      OBVIOUS
    <3>2. total[k + 1] = Body(total, k + 1)
      BY <1>8, <3>1
    <3> QED BY <3>1, <3>2
  <2> QED BY <2>1, <2>2
<1> HIDE DEF Body
<1> DEFINE T == {k \in 0..N : total[k] \in Nat}
<1>10. \A k \in 0..N : k \in T
  <2>1. 0 \in T
    BY <1>9
  <2>2. ASSUME NEW k \in 0..N-1, k \in T PROVE k + 1 \in T
    <3>1. k + 1 \in 1..N /\ k + 1 \in 0..N
      OBVIOUS
    <3>2. total[k + 1] = total[k] + b[k + 1] + 1 /\ b[k + 1] \in Nat /\ total[k] \in Nat
      BY <1>9, <1>b, <2>2, <3>1
    <3>3. total[k + 1] \in Nat
      BY <3>2
    <3> QED BY <3>1, <3>3
  <2> HIDE DEF T
  <2> QED BY <2>1, <2>2, EveryPlace
<1>11. ASSUME NEW n \in 1..N PROVE b[n] < total[N]
  <2> DEFINE U == {k \in n..N : total[k] \in Nat /\ b[n] + 1 <= total[k]}
  <2>1. n \in Nat /\ n - 1 \in 0..N-1 /\ n - 1 \in 0..N /\ (n - 1) + 1 = n
    OBVIOUS
  <2>2. n \in U
    <3>1. total[n] = total[n - 1] + b[n] + 1
      BY <1>9, <2>1
    <3>2. total[n - 1] \in Nat /\ b[n] \in Nat
      BY <1>10, <1>b, <2>1
    <3> QED BY <2>1, <3>1, <3>2
  <2>3. ASSUME NEW k \in n..N-1, k \in U PROVE k + 1 \in U
    <3>1. k \in 0..N-1 /\ k + 1 \in 1..N /\ k + 1 \in n..N
      BY <2>1
    <3>2. total[k + 1] = total[k] + b[k + 1] + 1 /\ b[k + 1] \in Nat /\ b[n] \in Nat
      BY <1>9, <1>b, <3>1
    <3>3. total[k] \in Nat /\ b[n] + 1 <= total[k]
      BY <2>3
    <3>x. \A x, y, z \in Nat : x + 1 <= y => y + z + 1 \in Nat /\ x + 1 <= y + z + 1
      OBVIOUS
    <3>4. total[k + 1] \in Nat /\ b[n] + 1 <= total[k + 1]
      BY <3>2, <3>3, <3>x
    <3> QED BY <3>1, <3>4
  <2>4. \A k \in n..N : k \in U
    <3> HIDE DEF U
    <3> QED BY <2>1, <2>2, <2>3, EveryPlace
  <2>5. total[N] \in Nat /\ b[n] + 1 <= total[N] /\ b[n] \in Nat
    BY <1>b, <2>4
  <2> QED BY <2>5
<1>12. total[N] \in Nat
  BY <1>10
<1> QED BY <1>6, <1>9, <1>11, <1>12, <1>n

Fitting == {s \in Seq(Line) : Len(s) <= MAX_PAGE}

\* The list of lines has room for what split() puts into it.
LEMMA SplitFits ==
  ASSUME NEW t \in Threads, buf[t] \in Seq(Nat), Size(buf[t]) <= MAX_CHAR
  PROVE  split(t) \in Fitting
PROOF
<1>b. PICK b \in Seq(Nat) : b = buf[t]
  OBVIOUS
<1>n. PICK N \in Nat : N = Len(b)
  BY <1>b
<1>0. MAX_PAGE \in Nat
  BY ConsoleAssumption
<1> DEFINE new(k) == [by |-> t, len |-> b[k]]
           g == [z \in Nat \X Fitting |->
                   IF z[1] \notin 1..N \/ b[z[1]] = 0 \/ Len(z[2]) = MAX_PAGE THEN z[2]
                   ELSE Append(z[2], new(z[1]))]
<1>1. ASSUME NEW k \in 1..N, NEW s \in Fitting, Len(s) # MAX_PAGE PROVE Append(s, new(k)) \in Fitting
  <2>0. b[k] \in 0..MAX_CHAR-1
    <3>1. Size(b) <= MAX_CHAR /\ k \in 1..Len(b) /\ b[k] \in Nat
      BY <1>b, <1>n
    <3>2. b[k] < MAX_CHAR
      <4>1. Size(b) \in Nat /\ b[k] < Size(b) /\ MAX_CHAR \in Nat
        BY <3>1, SizeBounds, ConsoleAssumption
      <4> QED BY <3>1, <4>1
    <3> QED BY <3>1, <3>2, ConsoleAssumption
  <2>1. new(k) \in Line
    BY <2>0 DEF Line
  <2>2. s \in Seq(Line) /\ Len(s) \in Nat /\ Len(s) <= MAX_PAGE
    BY DEF Fitting
  <2> HIDE DEF new
  <2>3. Append(s, new(k)) \in Seq(Line) /\ Len(Append(s, new(k))) = Len(s) + 1
    BY <2>1, <2>2
  <2> QED BY <1>0, <1>1, <2>2, <2>3 DEF Fitting
<1> HIDE DEF new
<1>2. g \in [Nat \X Fitting -> Fitting]
  BY <1>1
<1>3. \A k \in 1..N : \A s \in Fitting :
        g[<<k, s>>] = IF b[k] = 0 \/ Len(s) = MAX_PAGE THEN s ELSE Append(s, new(k))
  OBVIOUS
<1> HIDE DEF g
<1>4. <<>> \in Fitting
  BY <1>0 DEF Fitting
<1>5. PICK f : Recurs(f, N, Fitting, <<>>, g)
  BY <1>2, <1>4, RecursExists
<1> DEFINE Body(h, k) == IF k = 0 THEN <<>>
                         ELSE IF b[k] = 0 \/ Len(h[k - 1]) = MAX_PAGE THEN h[k - 1]
                         ELSE Append(h[k - 1], new(k))
<1>6. ASSUME NEW k \in 0..N PROVE f[k] = Body(f, k) /\ f[k] \in Fitting
  <2>1. CASE k = 0
    BY <1>4, <1>5, <2>1 DEF Recurs
  <2>2. CASE k \in 1..N
    <3>1. k - 1 \in 0..N /\ k # 0
      BY <2>2
    <3>2. f[k - 1] \in Fitting /\ f[k] \in Fitting /\ f[k] = g[<<k, f[k - 1]>>]
      BY <1>5, <2>2, <3>1 DEF Recurs
    <3> QED BY <1>3, <2>2, <3>1, <3>2
  <2> QED BY <2>1, <2>2
<1>7. f = [k \in 0..N |-> Body(f, k)]
  <2> HIDE DEF Body
  <2> QED BY <1>5, <1>6 DEF Recurs
<1> DEFINE outlist == CHOOSE h : h = [k \in 0..N |-> Body(h, k)]
<1>8. split(t) = outlist[N]
  BY <1>b, <1>n DEF split, new
<1>9. outlist = [k \in 0..N |-> Body(outlist, k)]
  BY <1>7
<1> HIDE DEF outlist
<1>10. \A k \in 0..N : outlist[k] = Body(outlist, k)
  <2> HIDE DEF Body
  <2> QED BY <1>9
<1> DEFINE T == {k \in 0..N : outlist[k] = f[k]}
<1>11. 0 \in T
  BY <1>6, <1>10
<1>12. ASSUME NEW k \in 0..N-1, k \in T PROVE k + 1 \in T
  <2>1. k + 1 \in 0..N /\ (k + 1) - 1 = k /\ k + 1 # 0
    OBVIOUS
  <2>2. outlist[k] = f[k]
    BY <1>12
  <2>3. outlist[k + 1] = Body(outlist, k + 1) /\ f[k + 1] = Body(f, k + 1)
    BY <1>6, <1>10, <2>1
  <2>4. Body(outlist, k + 1) = Body(f, k + 1)
    BY <2>1, <2>2
  <2> QED BY <2>1, <2>3, <2>4
<1>13. \A k \in 0..N : k \in T
  <2> HIDE DEF T
  <2> QED BY <1>11, <1>12, EveryPlace
<1>14. outlist[N] = f[N] /\ f[N] \in Fitting
  BY <1>6, <1>13
<1> QED BY <1>8, <1>14

\* Lines that were cut take a row each.
LEMMA DrawIsRing ==
  ASSUME \A k \in 1..MAX_PAGE : Ring(k) \in Line /\ Ring(k).len <= Cut
  PROVE  draw = [k \in 1..MAX_PAGE |-> Ring(k)]
PROOF
<1>0. PICK N \in Nat : N = MAX_PAGE
  BY ConsoleAssumption
<1>1. ASSUME NEW k \in 1..N PROVE writeLine(Ring(k)) = <<Ring(k)>>
  <2>1. Ring(k).len \in Nat /\ Ring(k).len <= Cut
    BY <1>0 DEF Line
  <2> QED BY <2>1, ConsoleAssumption DEF writeLine
<1> DEFINE R(k) == [n \in 1..k |-> Ring(n)]
           W == [k \in 0..N |-> R(k)]
           Body(h, k) == IF k = 0 THEN <<>> ELSE h[k - 1] \o writeLine(Ring(k))
<1>2. ASSUME NEW k \in 1..N PROVE R(k) = R(k - 1) \o <<Ring(k)>>
  <2>1. k \in Nat /\ k - 1 \in Nat
    OBVIOUS
  <2>2. R(k) \in Seq(Line) /\ R(k - 1) \in Seq(Line) /\ Len(R(k)) = k /\ Len(R(k - 1)) = k - 1 /\ Ring(k) \in Line
    BY <1>0, <2>1
  <2>3. /\ \A n \in 1..k : R(k)[n] = Ring(n)
        /\ \A n \in 1..k-1 : R(k - 1)[n] = Ring(n)
    OBVIOUS
  <2>x. PICK x : x = R(k)
    OBVIOUS
  <2>y. PICK y : y = R(k - 1)
    OBVIOUS
  <2>l. PICK l : l = Ring(k)
    OBVIOUS
  <2> HIDE DEF R
  <2>4. <<l>> \in Seq(Line) /\ y \in Seq(Line) /\ Len(<<l>>) = 1 /\ <<l>>[1] = l
    BY <2>2, <2>l, <2>y
  <2>5. /\ y \o <<l>> \in Seq(Line) /\ Len(y \o <<l>>) = Len(y) + Len(<<l>>)
        /\ \A n \in 1..Len(y) + Len(<<l>>) : (y \o <<l>>)[n] = IF n <= Len(y) THEN y[n] ELSE <<l>>[n - Len(y)]
    BY <2>4, ConcatProperties
  <2>6. Len(y \o <<l>>) = k /\ \A n \in 1..k : (y \o <<l>>)[n] = x[n]
    <3>1. Len(y \o <<l>>) = k
      BY <2>1, <2>2, <2>4, <2>5, <2>y
    <3>2. ASSUME NEW n \in 1..k PROVE (y \o <<l>>)[n] = x[n]
      <4>1. CASE n = k
        <5>1. (y \o <<l>>)[n] = <<l>>[n - Len(y)] /\ n - Len(y) = 1
          BY <2>1, <2>2, <2>4, <2>5, <2>y, <4>1
        <5> QED BY <2>3, <2>4, <2>l, <2>x, <4>1, <5>1
      <4>2. CASE n \in 1..k-1
        <5>1. (y \o <<l>>)[n] = y[n]
          BY <2>1, <2>2, <2>4, <2>5, <2>y, <4>2
        <5> QED BY <2>3, <2>x, <2>y, <4>2, <5>1
      <4>3. n = k \/ n \in 1..k-1
        BY <2>1
      <4> QED BY <4>1, <4>2, <4>3
    <3> QED BY <3>1, <3>2
  <2>7. x = y \o <<l>>
    BY <2>2, <2>5, <2>6, <2>x, SeqEqual
  <2> QED BY <2>7, <2>l, <2>x, <2>y
<1>3. R(0) = <<>>
  OBVIOUS
<1> HIDE DEF R
<1>4. ASSUME NEW k \in 0..N PROVE W[k] = Body(W, k)
  <2>1. CASE k = 0
    BY <1>3, <2>1
  <2>2. CASE k \in 1..N
    <3>1. W[k] = R(k) /\ W[k - 1] = R(k - 1) /\ k # 0
      BY <2>2
    <3> QED BY <1>1, <1>2, <2>2, <3>1
  <2>3. k = 0 \/ k \in 1..N
    OBVIOUS
  <2> QED BY <2>1, <2>2, <2>3
<1>5. W = [k \in 0..N |-> Body(W, k)]
  <2> HIDE DEF Body
  <2> QED BY <1>4
<1>6. W[N] = R(N)
  OBVIOUS
<1> HIDE DEF W
<1> DEFINE rows == CHOOSE h : h = [k \in 0..N |-> Body(h, k)]
<1>7. draw = AtMost(N, rows[N])
  BY <1>0 DEF draw
<1>8. rows = [k \in 0..N |-> Body(rows, k)]
  BY <1>5
<1> HIDE DEF rows
<1>9. \A k \in 0..N : rows[k] = Body(rows, k)
  <2> HIDE DEF Body
  <2> QED BY <1>8
<1> DEFINE T == {k \in 0..N : rows[k] = W[k]}
<1>10. 0 \in T
  BY <1>4, <1>9
<1>11. ASSUME NEW k \in 0..N-1, k \in T PROVE k + 1 \in T
  <2>1. k + 1 \in 0..N /\ (k + 1) - 1 = k /\ k + 1 # 0
    OBVIOUS
  <2>2. rows[k] = W[k]
    BY <1>11
  <2>3. rows[k + 1] = Body(rows, k + 1) /\ W[k + 1] = Body(W, k + 1)
    BY <1>4, <1>9, <2>1
  <2>4. Body(rows, k + 1) = Body(W, k + 1)
    BY <2>1, <2>2
  <2> QED BY <2>1, <2>3, <2>4
<1>12. \A k \in 0..N : k \in T
  <2> HIDE DEF T
  <2> QED BY <1>10, <1>11, EveryPlace
<1>13. rows[N] = R(N)
  BY <1>6, <1>12
<1>14. R(N) \in Seq(Line) /\ Len(R(N)) = N
  BY <1>0 DEF R
<1>15. AtMost(N, R(N)) = R(N)
  <2>1. AtMost(N, R(N)) = SubSeq(R(N), 1, N)
    BY <1>14 DEF AtMost
  <2> QED BY <1>14, <2>1
<1> QED BY <1>0, <1>7, <1>13, <1>15 DEF R

-----------------------------------------------------------------------------
\* The invariant.

Inside == {"split", "store", "unlock"}

\* The mutex is held by the thread that is inside.
MutexInv == \A t \in Threads : at[t] \in Inside <=> mutex = t

CutInv == \A k \in Page : str[k] \in Line /\ str[k].len <= Cut

\* The k-th row once n lines of the text follow what was printed before.
Row(t, n, k) ==
  IF k + n <= MAX_PAGE THEN recent[k + n] ELSE cut(split(t)[k + n - MAX_PAGE])

\* Of a text that is being stored, i[t] lines are in the ring.
StoreInv(t) ==
  /\ cnt[t] = Len(split(t)) /\ i[t] <= cnt[t]
  /\ \A k \in 0..cnt[t]-1 : tmp[k] = split(t)[k + 1]
  /\ \A k \in 1..MAX_PAGE : Ring(k) = Row(t, i[t], k)

DrawInv(t) == i[t] = cnt[t] /\ oled = [k \in 1..MAX_PAGE |-> Ring(k)]

RingIsRecent == \A k \in 1..MAX_PAGE : Ring(k) = recent[k]

Inv ==
  /\ InBounds /\ MutexInv /\ CutInv
  /\ \A t \in Threads : at[t] \in {"store", "unlock"} => StoreInv(t)
  /\ \A t \in Threads : at[t] = "unlock" => DrawInv(t)
  /\ \A t \in Threads : at[t] = "split" => RingIsRecent
  /\ mutex = "nobody" => RingIsRecent /\ oled = recent

LEMMA TextType ==
  ASSUME InBounds, NEW t \in Threads
  PROVE  buf[t] \in Seq(Nat) /\ split(t) \in Seq(Line) /\ Len(split(t)) \in 0..MAX_PAGE
PROOF
<1>2. buf[t] \in Seq(Nat) /\ Size(buf[t]) <= MAX_CHAR
  BY DEF InBounds
<1>3. split(t) \in Fitting
  BY <1>2, SplitFits
<1>4. split(t) \in Seq(Line) /\ Len(split(t)) <= MAX_PAGE /\ Len(split(t)) \in Nat
  BY <1>3 DEF Fitting
<1> QED BY <1>2, <1>4, ConsoleAssumption

LEMMA CutType ==
  ASSUME NEW l \in Line PROVE cut(l) \in Line /\ cut(l).len <= Cut
BY ConsoleAssumption DEF cut, Line

LEMMA SplitSame ==
  ASSUME NEW t, buf'[t] = buf[t] PROVE split(t)' = split(t)
BY DEF split

LEMMA RingType ==
  ASSUME InBounds, CutInv, NEW k \in 1..MAX_PAGE PROVE Ring(k) \in Line /\ Ring(k).len <= Cut
PROOF
<1>1. j \in 0..MAX_PAGE-1 /\ MAX_PAGE \in Nat
  BY ConsoleAssumption DEF InBounds, Page
<1>a. (IF j + k <= MAX_PAGE THEN j + k - 1 ELSE j + k - 1 - MAX_PAGE) \in 0..MAX_PAGE-1
  <2>1. CASE j + k <= MAX_PAGE
    BY <1>1, <2>1
  <2>2. CASE ~(j + k <= MAX_PAGE)
    BY <1>1, <2>2
  <2> QED BY <2>1, <2>2
<1>2. PICK x \in Page : x = IF j + k <= MAX_PAGE THEN j + k - 1 ELSE j + k - 1 - MAX_PAGE
  BY <1>a DEF Page
<1> QED BY <1>2 DEF Ring, CutInv

LEMMA InitConsole == Init => Inv
PROOF
<1> SUFFICES ASSUME Init PROVE Inv
  OBVIOUS
<1>0. MAX_PAGE \in Nat /\ MAX_PAGE # 0 /\ Cut \in Nat /\ "nobody" \notin Threads
  BY ConsoleAssumption
<1>1. Blank \in Line /\ Blank.len = 0
  BY ConsoleAssumption DEF Blank, Line
<1>a. <<>> \in Seq(Nat) /\ Size(<<>>) <= MAX_CHAR
  <2>1. <<>> \in Seq(Nat) /\ Len(<<>>) = 0 /\ MAX_CHAR \in Nat
    BY ConsoleAssumption
  <2>2. Size(<<>>) = 0
    BY <2>1, SizeBounds
  <2> QED BY <2>1, <2>2
<1>2. InBounds
  <2>1. buf \in [Threads -> {lines \in Seq(Nat) : Size(lines) <= MAX_CHAR}]
    BY <1>a DEF Init
  <2> QED BY <1>0, <1>1, <2>1 DEF Init, InBounds, Page, Blanks
<1>3. MutexInv /\ CutInv
  BY <1>0, <1>1 DEF Init, MutexInv, CutInv, Page, Inside
<1>4. RingIsRecent
  BY <1>0 DEF Init, RingIsRecent, Ring, Blanks, Page
<1>5. oled = recent
  BY DEF Init
<1>6. \A t \in Threads : at[t] = "idle"
  BY DEF Init
<1> QED BY <1>2, <1>3, <1>4, <1>5, <1>6 DEF Inv

\* A step that leaves the ring alone.
LEMMA RingSame ==
  ASSUME UNCHANGED <<str, j>>, NEW k PROVE Ring(k)' = Ring(k)
BY DEF Ring

\* A text and the ring of a thread that is not concerned.
LEMMA OthersSame ==
  ASSUME NEW t \in Threads, buf'[t] = buf[t], cnt'[t] = cnt[t], i'[t] = i[t],
         UNCHANGED <<tmp, str, j, recent>>, StoreInv(t)
  PROVE  StoreInv(t)'
PROOF
<1>1. split(t)' = split(t)
  BY SplitSame
<1>2. \A k : Ring(k)' = Ring(k)
  BY RingSame
<1>3. \A n, k : Row(t, n, k)' = Row(t, n, k)
  BY <1>1 DEF Row
<1> QED BY <1>1, <1>2, <1>3 DEF StoreInv

LEMMA PrintfStep ==
  ASSUME Inv, NEW t \in Threads, printf2(t), undefined' = "none" PROVE Inv'
PROOF
<1>0. /\ at[t] = "idle" /\ at' = [at EXCEPT ![t] = "lock"]
      /\ UNCHANGED <<cnt, i, mutex, tmp, str, j, oled, recent>>
  BY DEF printf2, Goes
<1>m. PICK m \in Messages :
        /\ buf' = [buf EXCEPT ![t] = m.lines]
        /\ undefined' = IF Size(m.lines) > MAX_CHAR THEN "buf"
                        ELSE IF m.conv THEN "format" ELSE undefined
  BY DEF printf2
<1>1. buf' = [buf EXCEPT ![t] = m.lines] /\ m.lines \in Seq(Nat) /\ Size(m.lines) <= MAX_CHAR
  <2>1. m.lines \in Seq(Nat)
    BY ConsoleAssumption
  <2>2. ~(Size(m.lines) > MAX_CHAR)
    BY <1>m
  <2>3. Size(m.lines) \in Nat /\ MAX_CHAR \in Nat
    BY <2>1, SizeBounds, ConsoleAssumption
  <2> QED BY <1>m, <2>1, <2>2, <2>3
<1>2. InBounds'
  <2>1. buf' \in [Threads -> {lines \in Seq(Nat) : Size(lines) <= MAX_CHAR}]
    BY <1>1 DEF Inv, InBounds
  <2> QED BY <1>0, <2>1 DEF Inv, InBounds
<1>3. at'[t] = "lock" /\ \A s \in Threads : s # t => at'[s] = at[s] /\ buf'[s] = buf[s]
  BY <1>0, <1>1 DEF Inv, InBounds
<1>4. MutexInv' /\ CutInv'
  BY <1>0, <1>3 DEF Inv, MutexInv, CutInv, Inside
<1>5. RingIsRecent => RingIsRecent'
  BY <1>0, RingSame DEF RingIsRecent
<1>6. ASSUME NEW s \in Threads, at'[s] \in {"store", "unlock"} PROVE StoreInv(s)'
  BY <1>0, <1>3, <1>6, OthersSame DEF Inv
<1>7. ASSUME NEW s \in Threads, at'[s] = "unlock" PROVE DrawInv(s)'
  BY <1>0, <1>3, <1>7, RingSame DEF Inv, DrawInv
<1>8. \A s \in Threads : at'[s] = "split" => RingIsRecent'
  BY <1>3, <1>5 DEF Inv
<1> QED BY <1>0, <1>2, <1>4, <1>5, <1>6, <1>7, <1>8 DEF Inv

LEMMA LockStep ==
  ASSUME Inv, NEW t \in Threads, Lock(t) PROVE Inv'
PROOF
<1>0. /\ at[t] = "lock" /\ at' = [at EXCEPT ![t] = "split"] /\ mutex = "nobody" /\ mutex' = t
      /\ UNCHANGED <<buf, cnt, i, tmp, str, j, oled, recent>>
  BY DEF Lock, Goes
<1>1. InBounds'
  BY <1>0 DEF Inv, InBounds
<1>2. at'[t] = "split" /\ t # "nobody" /\ \A s \in Threads : s # t => at'[s] = at[s] /\ at'[s] \notin Inside
  <2>1. \A s \in Threads : s # "nobody"
    BY ConsoleAssumption
  <2> QED BY <1>0, <2>1 DEF Inv, InBounds, MutexInv
<1>3. MutexInv' /\ CutInv'
  BY <1>0, <1>2 DEF Inv, MutexInv, CutInv, Inside
<1>4. RingIsRecent'
  BY <1>0, RingSame DEF Inv, RingIsRecent
<1> QED BY <1>0, <1>1, <1>2, <1>3, <1>4 DEF Inv, Inside

LEMMA SplitStep ==
  ASSUME Inv, NEW t \in Threads, Split(t) PROVE Inv'
PROOF
<1>l. PICK lines : lines = split(t)
  OBVIOUS
<1>0. /\ at[t] = "split" /\ at' = [at EXCEPT ![t] = "store"]
      /\ tmp' = [k \in Page |-> IF k < Len(lines) THEN lines[k+1] ELSE tmp[k]]
      /\ cnt' = [cnt EXCEPT ![t] = Len(lines)] /\ i' = [i EXCEPT ![t] = 0]
      /\ UNCHANGED <<buf, mutex, str, j, oled, recent>>
  BY <1>l DEF Split, Goes
<1>1. lines \in Seq(Line) /\ Len(lines) \in 0..MAX_PAGE
  BY <1>l, TextType DEF Inv
<1>2. MAX_PAGE \in Nat
  BY ConsoleAssumption
<1>3. tmp' \in [Page -> Line]
  <2>1. ASSUME NEW k \in Page PROVE (IF k < Len(lines) THEN lines[k+1] ELSE tmp[k]) \in Line
    <3>1. CASE k < Len(lines)
      <4>1. k + 1 \in 1..Len(lines)
        BY <1>1, <3>1 DEF Page
      <4> QED BY <1>1, <3>1, <4>1
    <3>2. CASE ~(k < Len(lines))
      BY <3>2 DEF Inv, InBounds
    <3> QED BY <3>1, <3>2
  <2> QED BY <1>0, <2>1
<1>4. InBounds'
  <2>1. cnt' \in [Threads -> 0..MAX_PAGE] /\ i' \in [Threads -> 0..MAX_PAGE]
    BY <1>0, <1>1, <1>2 DEF Inv, InBounds
  <2>2. at' \in [Threads -> {"idle", "lock", "split", "store", "unlock"}]
    BY <1>0 DEF Inv, InBounds
  <2> QED BY <1>0, <1>3, <2>1, <2>2 DEF Inv, InBounds
<1>5. /\ mutex = t /\ at'[t] = "store" /\ t # "nobody" /\ cnt'[t] = Len(lines) /\ i'[t] = 0
      /\ \A s \in Threads : s # t => at'[s] = at[s] /\ at'[s] \notin Inside
  BY <1>0, ConsoleAssumption DEF Inv, InBounds, MutexInv, Inside
<1>6. MutexInv' /\ CutInv'
  BY <1>0, <1>5 DEF Inv, MutexInv, CutInv, Inside
<1>7. StoreInv(t)'
  <2>1. split(t)' = lines
    BY <1>0, <1>l, SplitSame
  <2>2. \A k \in 0..Len(lines)-1 : tmp'[k] = lines[k + 1]
    BY <1>0, <1>1, <1>2 DEF Page
  <2>3. ASSUME NEW k \in 1..MAX_PAGE PROVE Ring(k)' = Row(t, i[t], k)'
    <3>1. Ring(k)' = recent[k]
      BY <1>0, RingSame DEF Inv, RingIsRecent
    <3>2. Row(t, i[t], k)' = recent[k]
      BY <1>0, <1>2, <1>5 DEF Row
    <3> QED BY <3>1, <3>2
  <2> QED BY <1>1, <1>5, <2>1, <2>2, <2>3 DEF StoreInv
<1> QED BY <1>0, <1>4, <1>5, <1>6, <1>7 DEF Inv, Inside

\* The oldest line goes, the new one is the last.
LEMMA RingAdvances ==
  ASSUME InBounds, NEW l, str' = [str EXCEPT ![j] = l],
         j' = IF j + 1 >= MAX_PAGE THEN 0 ELSE j + 1, NEW k \in 1..MAX_PAGE
  PROVE  Ring(k)' = IF k = MAX_PAGE THEN l ELSE Ring(k + 1)
PROOF
<1>0. MAX_PAGE \in Nat /\ MAX_PAGE # 0 /\ j \in 0..MAX_PAGE-1 /\ k \in 1..MAX_PAGE
  BY ConsoleAssumption DEF InBounds, Page
<1>1. str'[j] = l /\ \A x \in 0..MAX_PAGE-1 : x # j => str'[x] = str[x]
  BY DEF InBounds, Page
<1>2. CASE k = MAX_PAGE
  <2>1. (IF j' + k <= MAX_PAGE THEN j' + k - 1 ELSE j' + k - 1 - MAX_PAGE) = j
    BY <1>0, <1>2
  <2> QED BY <1>1, <1>2, <2>1 DEF Ring
<1>3. CASE k # MAX_PAGE
  <2> DEFINE x == IF j + (k + 1) <= MAX_PAGE THEN j + (k + 1) - 1 ELSE j + (k + 1) - 1 - MAX_PAGE
  <2>1. (IF j' + k <= MAX_PAGE THEN j' + k - 1 ELSE j' + k - 1 - MAX_PAGE) = x
    BY <1>0, <1>3
  <2>2. x \in 0..MAX_PAGE-1 /\ x # j
    BY <1>0, <1>3
  <2>3. Ring(k + 1) = str[x]
    BY DEF Ring
  <2>4. Ring(k)' = str'[x]
    BY <2>1 DEF Ring
  <2> HIDE DEF x
  <2> QED BY <1>1, <1>3, <2>2, <2>3, <2>4
<1> QED BY <1>2, <1>3

LEMMA StoreStep ==
  ASSUME Inv, NEW t \in Threads, Store(t) PROVE Inv'
PROOF
<1>l. PICK l : l = cut(tmp[i[t]])
  OBVIOUS
<1>0. /\ at[t] = "store" /\ i[t] < cnt[t] /\ str' = [str EXCEPT ![j] = l]
      /\ j' = IF j + 1 >= MAX_PAGE THEN 0 ELSE j + 1
      /\ i' = [i EXCEPT ![t] = i[t] + 1]
      /\ UNCHANGED <<at, buf, cnt, mutex, tmp, oled, recent>>
  BY <1>l DEF Store
<1>1. InBounds /\ StoreInv(t) /\ MutexInv /\ CutInv
  BY <1>0 DEF Inv
<1>2. /\ MAX_PAGE \in Nat /\ MAX_PAGE # 0 /\ j \in 0..MAX_PAGE-1 /\ i[t] \in Nat /\ cnt[t] \in 0..MAX_PAGE
      /\ i[t] \in 0..MAX_PAGE-1 /\ i[t] \in 0..cnt[t]-1
  <2>1. MAX_PAGE \in Nat /\ MAX_PAGE # 0
    BY ConsoleAssumption
  <2>2. j \in 0..MAX_PAGE-1 /\ i[t] \in 0..MAX_PAGE /\ cnt[t] \in 0..MAX_PAGE
    BY <1>1 DEF InBounds, Page
  <2> QED BY <1>0, <2>1, <2>2
<1>3. l \in Line /\ l.len <= Cut /\ l = cut(split(t)[i[t] + 1])
  <2>1. tmp[i[t]] \in Line
    BY <1>1, <1>2 DEF InBounds, Page
  <2>2. tmp[i[t]] = split(t)[i[t] + 1]
    BY <1>1, <1>2 DEF StoreInv
  <2> QED BY <1>l, <2>1, <2>2, CutType
<1>4. str' \in [Page -> Line] /\ j' \in Page
  <2>1. str \in [Page -> Line]
    BY <1>1 DEF InBounds
  <2>2. j' \in Page
    BY <1>0, <1>2 DEF Page
  <2> QED BY <1>0, <1>3, <2>1, <2>2
<1>5. i' \in [Threads -> 0..MAX_PAGE] /\ i'[t] = i[t] + 1
  <2>1. i \in [Threads -> 0..MAX_PAGE] /\ i[t] + 1 \in 0..MAX_PAGE
    BY <1>1, <1>2 DEF InBounds
  <2> QED BY <1>0, <2>1
<1>6. InBounds'
  BY <1>0, <1>1, <1>4, <1>5 DEF InBounds
<1>7. MutexInv' /\ CutInv'
  <2>1. MutexInv'
    BY <1>0, <1>1 DEF MutexInv
  <2>2. CutInv'
    BY <1>0, <1>1, <1>3 DEF CutInv, InBounds
  <2> QED BY <2>1, <2>2
<1>8. mutex' = t /\ t # "nobody" /\ \A s \in Threads : s # t => at'[s] \notin Inside
  BY <1>0, <1>1, ConsoleAssumption DEF MutexInv, Inside
<1>9. split(t)' = split(t)
  BY <1>0, SplitSame
<1>10. ASSUME NEW k \in 1..MAX_PAGE PROVE Ring(k)' = Row(t, i[t], k)'
  <2>1. Ring(k)' = IF k = MAX_PAGE THEN l ELSE Ring(k + 1)
    BY <1>0, <1>1, RingAdvances
  <2>2. Row(t, i[t], k)' = IF k + (i[t] + 1) <= MAX_PAGE THEN recent[k + (i[t] + 1)]
                           ELSE cut(split(t)[k + (i[t] + 1) - MAX_PAGE])
    BY <1>0, <1>5, <1>9 DEF Row
  <2>3. CASE k = MAX_PAGE
    <3>1. ~(k + (i[t] + 1) <= MAX_PAGE) /\ k + (i[t] + 1) - MAX_PAGE = i[t] + 1
      BY <1>2, <2>3
    <3> QED BY <1>3, <2>1, <2>2, <2>3, <3>1
  <2>4. CASE k # MAX_PAGE
    <3>1. k + 1 \in 1..MAX_PAGE /\ (k + 1) + i[t] = k + (i[t] + 1)
      BY <1>2, <2>4
    <3>2. Ring(k + 1) = Row(t, i[t], k + 1)
      BY <1>1, <3>1 DEF StoreInv
    <3>3. PICK z \in Nat : z = k + (i[t] + 1)
      BY <1>2
    <3>4. Ring(k + 1) = IF z <= MAX_PAGE THEN recent[z] ELSE cut(split(t)[z - MAX_PAGE])
      BY <1>2, <3>1, <3>2, <3>3 DEF Row
    <3> QED BY <1>2, <2>1, <2>2, <2>4, <3>3, <3>4
  <2> QED BY <2>3, <2>4
<1>11. StoreInv(t)'
  <2>1. cnt'[t] = Len(split(t)') /\ i'[t] <= cnt'[t]
    BY <1>0, <1>1, <1>2, <1>5, <1>9 DEF StoreInv
  <2>2. \A k \in 0..cnt'[t]-1 : tmp'[k] = split(t)'[k + 1]
    BY <1>0, <1>1, <1>9 DEF StoreInv
  <2> QED BY <1>10, <2>1, <2>2 DEF StoreInv
<1> QED BY <1>0, <1>6, <1>7, <1>8, <1>11 DEF Inv, Inside

\* A line that is stored came from a text that fits the buffer.
LEMMA StoredLineFits ==
  ASSUME Inv, undefined = "none", NEW t \in Threads, Store(t) PROVE undefined' = "none"
PROOF
<1>1. i[t] \in Page
  <2>1. i[t] \in 0..MAX_PAGE /\ cnt[t] \in 0..MAX_PAGE /\ i[t] < cnt[t] /\ MAX_PAGE \in Nat
    BY ConsoleAssumption DEF Store, Inv, InBounds
  <2> QED BY <2>1 DEF Page
<1>2. tmp[i[t]] \in Line
  BY <1>1 DEF Inv, InBounds
<1>3. tmp[i[t]].len \in 0..MAX_CHAR-1 /\ MAX_CHAR \in Nat
  BY <1>2, ConsoleAssumption DEF Line
<1>4. ~(tmp[i[t]].len + 1 > MAX_CHAR)
  BY <1>3
<1> QED BY <1>4 DEF Store

LEMMA DrawStep ==
  ASSUME Inv, NEW t \in Threads, Draw(t) PROVE Inv'
PROOF
<1>0. /\ at[t] = "store" /\ at' = [at EXCEPT ![t] = "unlock"] /\ i[t] >= cnt[t] /\ oled' = draw
      /\ UNCHANGED <<buf, cnt, i, mutex, tmp, str, j, recent>>
  BY DEF Draw, Goes
<1>1. InBounds /\ StoreInv(t) /\ MutexInv /\ CutInv
  BY <1>0 DEF Inv
<1>2. \A k \in 1..MAX_PAGE : Ring(k) \in Line /\ Ring(k).len <= Cut
  BY <1>1, RingType
<1>3. oled' = [k \in 1..MAX_PAGE |-> Ring(k)]
  BY <1>0, <1>2, DrawIsRing
<1>4. oled' \in [1..MAX_PAGE -> Line]
  BY <1>2, <1>3
<1>5. InBounds'
  <2>1. at' \in [Threads -> {"idle", "lock", "split", "store", "unlock"}]
    BY <1>0, <1>1 DEF InBounds
  <2> QED BY <1>0, <1>1, <1>4, <2>1 DEF InBounds
<1>6. at'[t] = "unlock" /\ t # "nobody" /\ mutex = t /\ \A s \in Threads : s # t => at'[s] = at[s] /\ at'[s] \notin Inside
  BY <1>0, <1>1, ConsoleAssumption DEF InBounds, MutexInv, Inside
<1>7. MutexInv' /\ CutInv'
  BY <1>0, <1>1, <1>6 DEF MutexInv, CutInv, Inside
<1>8. StoreInv(t)'
  BY <1>0, <1>1, OthersSame
<1>9. DrawInv(t)'
  <2>1. i[t] = cnt[t]
    <3>1. i[t] \in Nat /\ cnt[t] \in Nat /\ i[t] <= cnt[t]
      BY <1>1, ConsoleAssumption DEF InBounds, StoreInv
    <3> QED BY <1>0, <3>1
  <2>2. \A k \in 1..MAX_PAGE : Ring(k)' = Ring(k)
    BY <1>0, RingSame
  <2> QED BY <1>0, <1>3, <2>1, <2>2 DEF DrawInv
<1> QED BY <1>0, <1>5, <1>6, <1>7, <1>8, <1>9 DEF Inv, Inside

\* The last MAX_PAGE of the lines before and n lines more.
LEMMA LastOfBoth ==
  ASSUME NEW r \in [1..MAX_PAGE -> Line], NEW n \in 0..MAX_PAGE, NEW s \in [1..n -> Line]
  PROVE  /\ LastOf(r \o s) \in [1..MAX_PAGE -> Line]
         /\ \A k \in 1..MAX_PAGE : LastOf(r \o s)[k] =
              IF k + n <= MAX_PAGE THEN r[k + n] ELSE s[k + n - MAX_PAGE]
PROOF
<1>m. PICK M \in Nat : M = MAX_PAGE
  BY ConsoleAssumption
<1>0. n \in Nat /\ n <= M
  BY <1>m
<1>1. r \in Seq(Line) /\ s \in Seq(Line) /\ Len(r) = M /\ Len(s) = n
  BY <1>m, <1>0
<1>w. PICK w : w = r \o s
  OBVIOUS
<1>2. /\ w \in Seq(Line) /\ Len(w) = M + n
      /\ \A k \in 1..M+n : w[k] = IF k <= M THEN r[k] ELSE s[k - M]
  BY <1>1, <1>w, ConcatProperties
<1>3. LastOf(w) = SubSeq(w, n + 1, M + n)
  <2>1. Len(w) - MAX_PAGE + 1 = n + 1
    BY <1>0, <1>2, <1>m
  <2> QED BY <1>2, <2>1 DEF LastOf
<1>4. LastOf(w) = [k \in 1..M |-> w[k + n]]
  <2>1. SubSeq(w, n + 1, M + n) = [k \in 1..(M + n) - (n + 1) + 1 |-> w[k + (n + 1) - 1]]
    BY <1>0, <1>2
  <2>2. (M + n) - (n + 1) + 1 = M /\ \A k \in 1..M : k + (n + 1) - 1 = k + n
    BY <1>0
  <2> QED BY <1>3, <2>1, <2>2
<1>5. ASSUME NEW k \in 1..M
      PROVE  /\ LastOf(w)[k] = IF k + n <= M THEN r[k + n] ELSE s[k + n - M]
             /\ LastOf(w)[k] \in Line
  <2>1. LastOf(w)[k] = w[k + n] /\ k + n \in 1..M+n
    BY <1>0, <1>4
  <2>2. w[k + n] = IF k + n <= M THEN r[k + n] ELSE s[k + n - M]
    BY <1>2, <2>1
  <2>3. w[k + n] \in Line
    BY <1>2, <2>1
  <2> QED BY <2>1, <2>2, <2>3
<1> QED BY <1>4, <1>5, <1>m, <1>w

LEMMA UnlockStep ==
  ASSUME Inv, NEW t \in Threads, Unlock(t) PROVE Inv'
PROOF
<1>s. PICK s : s = [k \in 1..cnt[t] |-> cut(split(t)[k])]
  OBVIOUS
<1>0. /\ at[t] = "unlock" /\ at' = [at EXCEPT ![t] = "idle"] /\ mutex' = "nobody"
      /\ recent' = LastOf(recent \o s)
      /\ UNCHANGED <<buf, cnt, i, tmp, str, j, oled>>
  BY <1>s DEF Unlock, Goes
<1>1. InBounds /\ StoreInv(t) /\ MutexInv /\ CutInv /\ DrawInv(t)
  BY <1>0 DEF Inv
<1>2. recent \in [1..MAX_PAGE -> Line] /\ cnt[t] \in 0..MAX_PAGE /\ i[t] = cnt[t] /\ MAX_PAGE \in Nat
  BY <1>1, ConsoleAssumption DEF InBounds, DrawInv
<1>3. s \in [1..cnt[t] -> Line]
  <2>1. ASSUME NEW k \in 1..cnt[t] PROVE cut(split(t)[k]) \in Line
    <3>1. split(t) \in Seq(Line) /\ cnt[t] = Len(split(t))
      BY <1>1, TextType DEF StoreInv
    <3>2. split(t)[k] \in Line
      BY <3>1
    <3> QED BY <3>2, CutType
  <2> QED BY <1>s, <2>1
<1>n. PICK n \in 0..MAX_PAGE : n = cnt[t]
  BY <1>2
<1>4. /\ recent' \in [1..MAX_PAGE -> Line]
      /\ \A k \in 1..MAX_PAGE : recent'[k] = IF k + n <= MAX_PAGE THEN recent[k + n] ELSE s[k + n - MAX_PAGE]
  BY <1>0, <1>2, <1>3, <1>n, LastOfBoth
<1>5. ASSUME NEW k \in 1..MAX_PAGE PROVE Ring(k) = recent'[k]
  <2>1. Ring(k) = Row(t, n, k)
    BY <1>1, <1>2, <1>n DEF StoreInv
  <2>2. CASE k + n <= MAX_PAGE
    BY <1>4, <2>1, <2>2 DEF Row
  <2>3. CASE ~(k + n <= MAX_PAGE)
    <3>1. k + n - MAX_PAGE \in 1..cnt[t]
      BY <1>2, <1>n, <2>3
    <3>2. s[k + n - MAX_PAGE] = cut(split(t)[k + n - MAX_PAGE])
      BY <1>s, <3>1
    <3> QED BY <1>4, <2>1, <2>3, <3>2 DEF Row
  <2> QED BY <2>2, <2>3
<1>6. RingIsRecent'
  <2>1. \A k \in 1..MAX_PAGE : Ring(k)' = Ring(k)
    BY <1>0, RingSame
  <2> QED BY <1>5, <2>1 DEF RingIsRecent
<1>7. oled' = recent'
  <2>1. oled = [k \in 1..MAX_PAGE |-> Ring(k)]
    BY <1>1 DEF DrawInv
  <2> QED BY <1>0, <1>4, <1>5, <2>1
<1>8. at'[t] = "idle" /\ t # "nobody" /\ \A x \in Threads : x # t => at'[x] = at[x] /\ at'[x] \notin Inside
  BY <1>0, <1>1, ConsoleAssumption DEF InBounds, MutexInv, Inside
<1>9. InBounds'
  <2>1. at' \in [Threads -> {"idle", "lock", "split", "store", "unlock"}]
    BY <1>0, <1>1 DEF InBounds
  <2> QED BY <1>0, <1>1, <1>4, <2>1 DEF InBounds
<1>10. MutexInv' /\ CutInv'
  <2>1. \A x \in Threads : x # "nobody"
    BY ConsoleAssumption
  <2> QED BY <1>0, <1>1, <1>8, <2>1 DEF MutexInv, CutInv, Inside
<1> QED BY <1>0, <1>6, <1>7, <1>8, <1>9, <1>10 DEF Inv, Inside

\* What is known of a run: no line overruns the ring's, and as long as the
\* texts are what the buffer and the format can take, the invariant holds.
ConsoleInv == undefined \in {"none", "buf", "format"} /\ (undefined = "none" => Inv)

LEMMA NextConsole == ConsoleInv /\ [Next]_vars => ConsoleInv'
PROOF
<1> SUFFICES ASSUME ConsoleInv, [Next]_vars PROVE ConsoleInv'
  OBVIOUS
<1>1. ASSUME NEW t \in Threads, Step(t) PROVE ConsoleInv'
  <2>1. undefined = "none" /\ Inv
    BY <1>1 DEF Step, ConsoleInv
  <2>2. CASE printf2(t)
    <3>1. undefined' \in {"none", "buf", "format"}
      BY <2>1, <2>2 DEF printf2
    <3> QED BY <2>1, <2>2, <3>1, PrintfStep DEF ConsoleInv
  <2>3. CASE Lock(t)
    BY <2>1, <2>3, LockStep DEF Lock, ConsoleInv
  <2>4. CASE Split(t)
    BY <2>1, <2>4, SplitStep DEF Split, ConsoleInv
  <2>5. CASE Store(t)
    <3>1. Inv'
      BY <2>1, <2>5, StoreStep
    <3>2. undefined' = "none"
      BY <2>1, <2>5, StoredLineFits
    <3> QED BY <3>1, <3>2 DEF ConsoleInv
  <2>6. CASE Draw(t)
    BY <2>1, <2>6, DrawStep DEF Draw, ConsoleInv
  <2>7. CASE Unlock(t)
    BY <2>1, <2>7, UnlockStep DEF Unlock, ConsoleInv
  <2> QED BY <1>1, <2>2, <2>3, <2>4, <2>5, <2>6, <2>7 DEF Step
<1>2. CASE Undefined
  BY <1>2 DEF Undefined, ConsoleInv
<1>3. CASE UNCHANGED vars
  <2>1. UNCHANGED <<at, buf, cnt, i, mutex, tmp, str, j, oled, recent, undefined>>
    BY <1>3 DEF vars, threadVars
  <2> SUFFICES ASSUME Inv PROVE Inv'
    BY <2>1 DEF ConsoleInv
  <2>2. InBounds' /\ MutexInv' /\ CutInv'
    BY <2>1 DEF Inv, InBounds, MutexInv, CutInv
  <2>3. \A k : Ring(k)' = Ring(k)
    BY <2>1, RingSame
  <2>4. ASSUME NEW t \in Threads, StoreInv(t) PROVE StoreInv(t)'
    BY <2>1, <2>4, OthersSame
  <2>5. ASSUME NEW t \in Threads, DrawInv(t) PROVE DrawInv(t)'
    BY <2>1, <2>3, <2>5 DEF DrawInv
  <2>6. RingIsRecent => RingIsRecent'
    BY <2>1, <2>3 DEF RingIsRecent
  <2> QED BY <2>1, <2>2, <2>4, <2>5, <2>6 DEF Inv
<1> QED BY <1>1, <1>2, <1>3 DEF Next

LEMMA ConsoleInvariance == Spec => []ConsoleInv
PROOF
<1>1. Init => ConsoleInv
  BY InitConsole DEF Init, ConsoleInv
<1> QED BY <1>1, NextConsole, PTL DEF Spec

\* As long as every text fits the buffer of printf2() with its terminator and
\* has no conversions of its own, no line is stored outside the ring or the
\* list of a text, no line is longer than its place in the ring, and every row
\* of the display is drawn from a line (split and printOLED in
\* PrintfWrapper.cpp).
THEOREM ConsoleTypes == Spec => []TypeOK
PROOF
<1>1. ConsoleInv => TypeOK
  BY DEF ConsoleInv, Inv, TypeOK
<1> QED BY <1>1, ConsoleInvariance, PTL

\* However many threads print, and however many lines their texts have, the
\* display shows the latest lines whenever nobody prints: one per row, oldest
\* first, a text's lines together (printOLED in PrintfWrapper.cpp with the
\* wrapping of Adafruit_GFX::writeChar); up to the first text that does not
\* fit the buffer of printf2() or has a conversion in it.
THEOREM DisplayAlwaysLatest == Spec => []ShowsLatestLines
PROOF
<1>1. ConsoleInv => ShowsLatestLines
  BY DEF ConsoleInv, Inv, ShowsLatestLines
<1> QED BY <1>1, ConsoleInvariance, PTL

\* Texts of any length: what the strcpy() of printOLED() copies into a line of
\* the ring before the line is cut always fits there, since the buffer of
\* printf2() is no longer than that line and would have been overrun before.
THEOREM RingLinesAlwaysFit == Spec => []RingNeverOverrun
PROOF
<1>1. ConsoleInv => RingNeverOverrun
  BY DEF ConsoleInv, RingNeverOverrun
<1> QED BY <1>1, ConsoleInvariance, PTL
=============================================================================
