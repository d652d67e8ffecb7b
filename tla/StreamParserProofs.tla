------------------------- MODULE StreamParserProofs -------------------------
(***************************************************************************)
(* Theorems about StreamParser: the checksum and the verdict, for streams  *)
(* of any length, any slices, any damage to one byte and any size of byte. *)
(***************************************************************************)
EXTENDS StreamParser, FiniteSetTheorems, SequenceTheorems, TLAPS

Digit == 0 .. Base - 1
Sums == [1 .. 4 -> 0 .. WordSize - 1]

(***************************************************************************)
(* The inductive invariant, by parts.                                      *)
(***************************************************************************)
\* Where the record in hand starts, or the bytes that are not summed yet.
Place == at - Len(buf)
\* Where the next header starts.
Mark == IF remaining > 0 THEN at + remaining ELSE Place

\* The sum stops at a whole word, and a payload fills its last word.
SumInv ==
  /\ Place \in Nat /\ Place % 2 = 0
  /\ SumOfTheStream
  /\ remaining > 0 => (Len(buf) + remaining) % 2 = 0
  /\ ~started => Place = 0 /\ remaining = 0

\* The verdict of Finish is that of the last byte.
EndInv ==
  /\ damaged > 0 => cut = Total
  /\ verdict = "ok" => at = cut /\ remaining = 0 /\ buf = <<>>
  /\ verdict = "truncated" => at = cut /\ ~(remaining = 0 /\ buf = <<>>)

\* The header that arrives at b, and whether what the parser steers by is as it was sent.
HeaderRead(b) == Words(Slice(b, b + HeaderLen), stream.swapped)
HeaderKept(b) ==
  /\ TypeOf(HeaderRead(b)) = TypeOf(HeaderAt(stream, b))
  /\ PayloadOf(HeaderRead(b)) = PayloadOf(HeaderAt(stream, b))
  /\ b = 0 => HeaderRead(b)[3] = Magic
FramingKept == \A b \in stream.bounds \ {Total} : HeaderKept(b)

\* The parser is at a record, or in its payload, and knows which one.
InStep ==
  /\ Mark \in stream.bounds
  /\ remaining > 0 => \A c \in stream.bounds : c < at \/ c >= Mark
  /\ started <=> Mark > 0
  /\ started => swap = stream.swapped
  /\ depth = IF Mark \in {0, Total} THEN 0 ELSE 1
  /\ finished <=> Mark = Total

TrackInv == FramingKept => InStep

\* A good stream is not refused, and its END has been read when it is over.
JudgeInv ==
  damaged = 0 =>
    /\ verdict # "refused"
    /\ ends = IF Mark = Total THEN <<stream.total>> ELSE <<>>

(***************************************************************************)
(* When the checksums are sure to tell.  A record is sealed if it holds its*)
(* sum, before and after the damage (zero stands for none).  Either every  *)
(* record but the BEGIN is, and the damage neither touches what the BEGIN  *)
(* steers the parser by nor makes a BEGIN of another record, which the     *)
(* parser would not verify; or only the END is, and the damage leaves all  *)
(* types and lengths alone.                                                *)
(***************************************************************************)
Sealed(b) == ZeroSum \notin {EmbeddedOf(HeaderAt(stream, b)), EmbeddedOf(HeaderRead(b))}
AllSealed ==
  /\ HeaderKept(0)
  /\ \A b \in stream.bounds \ {0, Total} : TypeOf(HeaderRead(b)) # Begin /\ Sealed(b)
EndSealed ==
  \A b \in stream.bounds \ {Total} : TypeOf(HeaderAt(stream, b)) = End => Sealed(b)
Covered == AllSealed \/ (FramingKept /\ EndSealed)

\* The end of a damaged stream is not reached.
CatchInv == damaged > 0 /\ Covered => InStep /\ Mark # Total

IInv == TypeOK /\ SumInv /\ EndInv /\ TrackInv /\ JudgeInv /\ CatchInv

(***************************************************************************)
(* Induction, recursion and arithmetic.                                    *)
(***************************************************************************)
\* Induction, in a form without operators: a set of naturals that holds 0 and
\* the successor of each of its members holds them all.  (Otherwise i + 1 would
\* map the finite set of its members up to a missing one into, and so onto, itself.)
LEMMA Induction ==
  ASSUME NEW S, 0 \in S, \A n \in Nat : n \in S => n + 1 \in S
  PROVE  \A n \in Nat : n \in S
<1> SUFFICES ASSUME NEW k \in Nat, k \notin S PROVE FALSE
  OBVIOUS
<1> DEFINE A == {i \in 0 .. k : i \in S}
           f == [i \in A |-> i + 1]
<1>1. IsFiniteSet(A)
  <2>1. IsFiniteSet(0 .. k) BY FS_Interval
  <2>2. A \in SUBSET (0 .. k) OBVIOUS
  <2> QED BY <2>1, <2>2, FS_Subset
<1>2. f \in Injection(A, A)
  <2>1. \A i \in A : i + 1 \in A OBVIOUS
  <2>2. f \in [A -> A] BY <2>1
  <2>3. \A i, j \in A : f[i] = f[j] => i = j OBVIOUS
  <2> QED BY <2>2, <2>3 DEF Injection, IsInjective
<1>3. f \in Surjection(A, A)
  <2> HIDE DEF f, A
  <2> QED BY <1>1, <1>2, FS_Injection
<1>4. 0 \in A OBVIOUS
<1>5. PICK i \in A : f[i] = 0
  <2> HIDE DEF f, A
  <2> QED BY <1>3, <1>4 DEF Surjection
<1> QED BY <1>5

\* A word has a size.
LEMMA Sizes == WordSize \in Nat /\ WordSize > 0
BY ParserAssumption DEF WordSize

\* A remainder is less than what is divided by.
LEMMA Remainder ==
  ASSUME NEW x \in Nat, NEW m \in Nat, m > 0
  PROVE  x % m \in 0 .. m - 1
OBVIOUS

\* Adding a word to the four sums keeps them in their range.
LEMMA AddWordType ==
  ASSUME NEW sum \in Sums, NEW w \in Nat
  PROVE  AddWord(sum, w) \in Sums
<1> DEFINE a == (sum[1] + w) % WordSize
           b == (sum[2] + a) % WordSize
           c == (sum[3] + b) % WordSize
           d == (sum[4] + c) % WordSize
<1>0. /\ sum[1] \in Nat /\ sum[2] \in Nat /\ sum[3] \in Nat /\ sum[4] \in Nat
  BY Sizes DEF Sums
<1>1. a \in 0 .. WordSize - 1 BY <1>0, Sizes, Remainder
<1>2. b \in 0 .. WordSize - 1 BY <1>0, <1>1, Sizes, Remainder
<1>3. c \in 0 .. WordSize - 1 BY <1>0, <1>2, Sizes, Remainder
<1>4. d \in 0 .. WordSize - 1 BY <1>0, <1>3, Sizes, Remainder
<1>5. AddWord(sum, w) = <<a, b, c, d>> BY DEF AddWord
<1> HIDE DEF a, b, c, d
<1> QED BY <1>1, <1>2, <1>3, <1>4, <1>5 DEF Sums

\* r holds the sums after each of the first n words, starting with z.
IsRun(r, z, w, n) == r[0] = z /\ \A i \in 1 .. n : r[i] = AddWord(r[i - 1], w[i])

\* There are such sums, for any number of words.
LEMMA RunExists ==
  ASSUME NEW z \in Sums, NEW N \in Nat, NEW w \in [1 .. N -> Nat]
  PROVE  \E r \in [0 .. N -> Sums] : IsRun(r, z, w, N)
<1> DEFINE S == {n \in Nat : n <= N => \E r \in [0 .. n -> Sums] : IsRun(r, z, w, n)}
<1>1. 0 \in S
  <2>1. [i \in 0 .. 0 |-> z] \in [0 .. 0 -> Sums] OBVIOUS
  <2>2. IsRun([i \in 0 .. 0 |-> z], z, w, 0) BY DEF IsRun
  <2> QED BY <2>1, <2>2
<1>2. ASSUME NEW n \in Nat, n \in S PROVE n + 1 \in S
  <2> SUFFICES ASSUME n + 1 <= N
               PROVE \E r \in [0 .. n + 1 -> Sums] : IsRun(r, z, w, n + 1)
    OBVIOUS
  <2>1. PICK r \in [0 .. n -> Sums] : IsRun(r, z, w, n) BY <1>2
  <2> DEFINE q == [i \in 0 .. n + 1 |-> IF i <= n THEN r[i] ELSE AddWord(r[n], w[n + 1])]
  <2>2. q \in [0 .. n + 1 -> Sums]
    <3>1. AddWord(r[n], w[n + 1]) \in Sums BY AddWordType
    <3>2. \A i \in 0 .. n + 1 : i <= n => i \in 0 .. n OBVIOUS
    <3> QED BY <3>1, <3>2
  <2>3. q[0] = z BY <2>1 DEF IsRun
  <2>4. ASSUME NEW i \in 1 .. n + 1 PROVE q[i] = AddWord(q[i - 1], w[i])
    <3>1. CASE i <= n
      <4>1. i \in 1 .. n /\ q[i] = r[i] /\ q[i - 1] = r[i - 1] BY <3>1
      <4> QED BY <4>1, <2>1 DEF IsRun
    <3>2. CASE i = n + 1
      <4>1. q[n + 1] = AddWord(r[n], w[n + 1]) /\ q[n] = r[n] OBVIOUS
      <4> HIDE DEF q
      <4>2. i - 1 = n BY <3>2
      <4> QED BY <3>2, <4>1, <4>2
    <3> QED BY <3>1, <3>2
  <2> HIDE DEF q
  <2> QED BY <2>2, <2>3, <2>4 DEF IsRun
<1>3. \A n \in Nat : n \in S
  <2> HIDE DEF S
  <2> QED BY <1>1, <1>2, Induction
<1> QED BY <1>3

\* And only one choice of them.
LEMMA RunUnique ==
  ASSUME NEW z, NEW N \in Nat, NEW w, NEW r, NEW q, IsRun(r, z, w, N), IsRun(q, z, w, N)
  PROVE  \A i \in 0 .. N : r[i] = q[i]
<1> DEFINE S == {n \in Nat : n <= N => r[n] = q[n]}
<1>1. 0 \in S BY DEF IsRun
<1>2. ASSUME NEW n \in Nat, n \in S PROVE n + 1 \in S
  <2> SUFFICES ASSUME n + 1 <= N PROVE r[n + 1] = q[n + 1]
    OBVIOUS
  <2>1. r[n] = q[n] BY <1>2
  <2>2. n + 1 \in 1 .. N /\ (n + 1) - 1 = n OBVIOUS
  <2>3. r[n + 1] = AddWord(r[n], w[n + 1]) BY <2>2 DEF IsRun
  <2>4. q[n + 1] = AddWord(q[n], w[n + 1]) BY <2>2 DEF IsRun
  <2> QED BY <2>1, <2>3, <2>4
<1>3. \A n \in Nat : n \in S
  <2> HIDE DEF S
  <2> QED BY <1>1, <1>2, Induction
<1> QED BY <1>3

\* A word is a number.
LEMMA WordType ==
  ASSUME NEW b1 \in Digit, NEW b2 \in Digit, NEW sw \in BOOLEAN
  PROVE  Word(b1, b2, sw) \in Nat
BY ParserAssumption DEF Word, Digit

\* The words of a buffer: one for each two bytes.
LEMMA WordsType ==
  ASSUME NEW s \in Seq(Digit), NEW sw \in BOOLEAN
  PROVE  /\ Words(s, sw) \in [1 .. Len(s) \div 2 -> Nat]
         /\ Len(Words(s, sw)) = Len(s) \div 2
         /\ Len(s) \div 2 \in Nat
<1>1. Len(s) \div 2 \in Nat OBVIOUS
<1>2. ASSUME NEW i \in 1 .. Len(s) \div 2
      PROVE  Word(s[2 * i - 1], s[2 * i], sw) \in Nat
  <2>1. 2 * i - 1 \in 1 .. Len(s) /\ 2 * i \in 1 .. Len(s) OBVIOUS
  <2> QED BY <2>1, WordType
<1>3. Words(s, sw) = [i \in 1 .. Len(s) \div 2 |-> Word(s[2 * i - 1], s[2 * i], sw)]
  BY DEF Words, WordLen
<1>4. Words(s, sw) \in [1 .. Len(s) \div 2 -> Nat] BY <1>2, <1>3
<1>5. Len(Words(s, sw)) = Len(s) \div 2 BY <1>3, <1>1
<1> QED BY <1>1, <1>4, <1>5

\* What Update (Fletcher4::update) computes: the last of the sums.
LEMMA UpdateRun ==
  ASSUME NEW z \in Sums, NEW s \in Seq(Digit), NEW sw \in BOOLEAN,
         NEW r, IsRun(r, z, Words(s, sw), Len(s) \div 2)
  PROVE  Update(z, s, sw) = r[Len(s) \div 2]
<1> DEFINE w == Words(s, sw)
           n == Len(s) \div 2
           P(g) == g = [i \in 0 .. n |-> IF i = 0 THEN z ELSE AddWord(g[i - 1], w[i])]
           f == CHOOSE g : P(g)
<1>1. w \in [1 .. n -> Nat] /\ Len(w) = n /\ n \in Nat BY WordsType
<1>2. Update(z, s, sw) = f[n] BY <1>1, Zenon DEF Update
<1>3. PICK q \in [0 .. n -> Sums] : IsRun(q, z, w, n)
  <2> HIDE DEF w, n
  <2> QED BY <1>1, RunExists
<1>4. P(q)
  <2> HIDE DEF w, n
  <2> QED BY <1>1, <1>3 DEF IsRun
<1>5. P(f)
  <2> HIDE DEF P
  <2> QED BY <1>4
<1>6. IsRun(f, z, w, n)
  <2> HIDE DEF f, w, n
  <2> QED BY <1>1, <1>5 DEF IsRun
<1> HIDE DEF f, w, n
<1>7. f[n] = r[n] BY <1>1, <1>6, RunUnique DEF w, n
<1> QED BY <1>2, <1>7 DEF n

\* It returns four sums.
LEMMA UpdateType ==
  ASSUME NEW z \in Sums, NEW s \in Seq(Digit), NEW sw \in BOOLEAN
  PROVE  Update(z, s, sw) \in Sums
<1>1. /\ Words(s, sw) \in [1 .. Len(s) \div 2 -> Nat]
      /\ Len(s) \div 2 \in Nat
  BY WordsType
<1>2. PICK r \in [0 .. Len(s) \div 2 -> Sums] : IsRun(r, z, Words(s, sw), Len(s) \div 2)
  BY <1>1, RunExists
<1>3. r[Len(s) \div 2] \in Sums BY <1>1, <1>2
<1> QED BY <1>2, <1>3, UpdateRun

\* Nothing to add.
LEMMA UpdateEmpty ==
  ASSUME NEW z \in Sums, NEW sw \in BOOLEAN
  PROVE  Update(z, << >>, sw) = z
<1> DEFINE r == [i \in {0} |-> z]
<1>1. << >> \in Seq(Digit) /\ Len(<< >>) \div 2 = 0 OBVIOUS
<1>2. IsRun(r, z, Words(<< >>, sw), 0) BY DEF IsRun
<1>3. Update(z, << >>, sw) = r[0] BY <1>1, <1>2, UpdateRun
<1> QED BY <1>3

\* The words of two buffers, the first of which has whole words.
LEMMA WordsConcat ==
  ASSUME NEW s \in Seq(Digit), NEW t \in Seq(Digit), NEW sw \in BOOLEAN, Len(s) % 2 = 0
  PROVE  /\ Len(s \o t) \div 2 = Len(s) \div 2 + Len(t) \div 2
         /\ \A i \in 1 .. Len(s) \div 2 : Words(s \o t, sw)[i] = Words(s, sw)[i]
         /\ \A i \in 1 .. Len(t) \div 2 :
              Words(s \o t, sw)[Len(s) \div 2 + i] = Words(t, sw)[i]
<1> DEFINE n == Len(s) \div 2
           m == Len(t) \div 2
<1>1. /\ s \o t \in Seq(Digit) /\ Len(s \o t) = Len(s) + Len(t)
      /\ Len(s) \in Nat /\ Len(t) \in Nat
      /\ \A i \in 1 .. Len(s) : (s \o t)[i] = s[i]
      /\ \A i \in Len(s) + 1 .. Len(s) + Len(t) : (s \o t)[i] = t[i - Len(s)]
  OBVIOUS
<1>2. Len(s) = 2 * n /\ n \in Nat /\ m \in Nat /\ Len(s \o t) \div 2 = n + m BY <1>1
<1>3. ASSUME NEW i \in 1 .. n PROVE Words(s \o t, sw)[i] = Words(s, sw)[i]
  <2>1. /\ 2 * i - 1 \in 1 .. Len(s) /\ 2 * i \in 1 .. Len(s)
        /\ i \in 1 .. n + m
    BY <1>2
  <2>2. (s \o t)[2 * i - 1] = s[2 * i - 1] /\ (s \o t)[2 * i] = s[2 * i]
    BY <1>1, <2>1
  <2> QED BY <1>2, <2>1, <2>2 DEF Words, WordLen
<1>4. ASSUME NEW i \in 1 .. m PROVE Words(s \o t, sw)[n + i] = Words(t, sw)[i]
  <2>1. /\ 2 * (n + i) - 1 \in 1 .. Len(s) + Len(t) /\ 2 * (n + i) \in 1 .. Len(s) + Len(t)
        /\ n + i \in 1 .. n + m
        /\ 2 * (n + i) - 1 > Len(s) /\ 2 * (n + i) > Len(s)
        /\ 2 * (n + i) - 1 - Len(s) = 2 * i - 1 /\ 2 * (n + i) - Len(s) = 2 * i
    <3>1. 2 * m <= Len(t) BY <1>1
    <3> HIDE DEF n, m
    <3> QED BY <1>1, <1>2, <3>1
  <2>2. (s \o t)[2 * (n + i) - 1] = t[2 * i - 1] /\ (s \o t)[2 * (n + i)] = t[2 * i]
    BY <1>1, <2>1
  <2> QED BY <1>2, <2>1, <2>2 DEF Words, WordLen
<1> QED BY <1>2, <1>3, <1>4

\* Summing two buffers in turn sums them as one, if the first has whole words:
\* the reason why the parser keeps a ragged byte for the next slice.
LEMMA UpdateConcat ==
  ASSUME NEW z \in Sums, NEW s \in Seq(Digit), NEW t \in Seq(Digit), NEW sw \in BOOLEAN,
         Len(s) % 2 = 0
  PROVE  Update(Update(z, s, sw), t, sw) = Update(z, s \o t, sw)
<1> DEFINE n == Len(s) \div 2
           m == Len(t) \div 2
           v == Words(s, sw)
           w == Words(t, sw)
           x == Words(s \o t, sw)
<1>1. v \in [1 .. n -> Nat] /\ w \in [1 .. m -> Nat] /\ n \in Nat /\ m \in Nat
  BY WordsType
<1>2. PICK r \in [0 .. n -> Sums] : IsRun(r, z, v, n)
  <2> HIDE DEF v, n
  <2> QED BY <1>1, RunExists
<1>3. r[n] \in Sums /\ Update(z, s, sw) = r[n]
  <2>1. r[n] \in Sums
    <3> HIDE DEF n
    <3> QED BY <1>1
  <2> QED BY <2>1, <1>2, UpdateRun
<1>4. PICK q \in [0 .. m -> Sums] : IsRun(q, r[n], w, m)
  <2> HIDE DEF w, m, n
  <2> QED BY <1>1, <1>3, RunExists
<1>5. Update(r[n], t, sw) = q[m] BY <1>3, <1>4, UpdateRun
<1>6. /\ Len(s \o t) \div 2 = n + m
      /\ \A i \in 1 .. n : x[i] = v[i]
      /\ \A i \in 1 .. m : x[n + i] = w[i]
      /\ s \o t \in Seq(Digit)
  BY WordsConcat
<1> DEFINE p == [i \in 0 .. n + m |-> IF i <= n THEN r[i] ELSE q[i - n]]
<1> HIDE DEF n, m, v, w, x
<1>7. p[n + m] = q[m]
  <2>1. CASE m = 0 BY <2>1, <1>1, <1>4 DEF IsRun
  <2>2. CASE m > 0 BY <2>2, <1>1
  <2> QED BY <2>1, <2>2, <1>1
<1>8. IsRun(p, z, x, n + m)
  <2>1. p[0] = z BY <1>1, <1>2 DEF IsRun
  <2>2. ASSUME NEW i \in 1 .. n + m PROVE p[i] = AddWord(p[i - 1], x[i])
    <3>1. CASE i <= n
      <4>1. i \in 1 .. n /\ p[i] = r[i] /\ p[i - 1] = r[i - 1] BY <3>1, <1>1
      <4>2. r[i] = AddWord(r[i - 1], v[i]) BY <4>1, <1>2 DEF IsRun
      <4> QED BY <4>1, <4>2, <1>6
    <3>2. CASE i > n
      <4> DEFINE j == i - n
      <4>1. j \in 1 .. m /\ p[i] = q[j] /\ n + j = i BY <3>2, <1>1
      <4>2. q[j] = AddWord(q[j - 1], w[j]) BY <4>1, <1>4 DEF IsRun
      <4>3. p[i - 1] = q[j - 1]
        <5>1. CASE j = 1 BY <5>1, <1>1, <1>4 DEF IsRun
        <5>2. CASE j > 1 BY <5>2, <1>1, <4>1
        <5> QED BY <5>1, <5>2, <4>1
      <4> QED BY <4>1, <4>2, <4>3, <1>6
    <3> QED BY <3>1, <3>2, <1>1
  <2> QED BY <2>1, <2>2 DEF IsRun
<1>9. Update(z, s \o t, sw) = p[n + m]
  <2> HIDE DEF p
  <2>1. IsRun(p, z, Words(s \o t, sw), Len(s \o t) \div 2) BY <1>6, <1>8 DEF x
  <2>2. s \o t \in Seq(Digit) BY <1>6
  <2>3. Update(z, s \o t, sw) = p[Len(s \o t) \div 2] BY <2>1, <2>2, UpdateRun
  <2> QED BY <2>3, <1>6
<1> QED BY <1>3, <1>5, <1>7, <1>9

\* What is added on one side of a sum modulo m can be told from the sum.
LEMMA ModCancel ==
  ASSUME NEW m \in Nat, m > 0, NEW x \in 0 .. m - 1, NEW y \in 0 .. m - 1, NEW u \in Nat,
         (x + u) % m = (y + u) % m
  PROVE  x = y
<1> DEFINE a == (x + u) \div m
           b == (y + u) \div m
<1>1. a \in Int /\ b \in Int /\ x + u = m * a + ((x + u) % m) /\ y + u = m * b + ((y + u) % m)
  OBVIOUS
<1> HIDE DEF a, b
<1>2. x - y = m * (a - b) BY <1>1
<1>3. a = b
  <2>1. CASE a > b
    <3>1. m * (a - b) >= m BY <2>1, <1>1
    <3> QED BY <3>1, <1>2
  <2>2. CASE a < b
    <3>1. m * (a - b) <= 0 - m BY <2>2, <1>1
    <3> QED BY <3>1, <1>2
  <2> QED BY <2>1, <2>2, <1>1
<1>4. m * (a - b) = 0 BY <1>1, <1>3
<1> QED BY <1>2, <1>4

\* And on the other.
LEMMA ModCancelRight ==
  ASSUME NEW m \in Nat, m > 0, NEW x \in Nat, NEW v \in 0 .. m - 1, NEW w \in 0 .. m - 1,
         (x + v) % m = (x + w) % m
  PROVE  v = w
<1>1. x + v = v + x /\ x + w = w + x OBVIOUS
<1>2. (v + x) % m = (w + x) % m BY <1>1
<1> QED BY <1>2, ModCancel, Zenon

\* Other bytes make another word, in either byte order.
LEMMA WordInjective ==
  ASSUME NEW b1 \in Digit, NEW b2 \in Digit, NEW c1 \in Digit, NEW c2 \in Digit, NEW sw \in BOOLEAN,
         Word(b1, b2, sw) = Word(c1, c2, sw)
  PROVE  b1 = c1 /\ b2 = c2
<1>1. ASSUME NEW x \in Digit, NEW y \in Digit, NEW u \in Digit, NEW v \in Digit,
             Base * x + y = Base * u + v
      PROVE  x = u /\ y = v
  <2>0. Base \in Nat /\ Base > 3 /\ x \in Int /\ y \in 0 .. Base - 1 /\ u \in Int /\ v \in 0 .. Base - 1
    BY ParserAssumption DEF Digit
  <2>1. Base * (x - u) = v - y BY <1>1, <2>0
  <2>2. x = u
    <3>1. CASE x > u
      <4>1. Base * (x - u) >= Base BY <3>1, <2>0
      <4> QED BY <4>1, <2>0, <2>1
    <3>2. CASE x < u
      <4>1. Base * (x - u) <= 0 - Base BY <3>2, <2>0
      <4> QED BY <4>1, <2>0, <2>1
    <3> QED BY <3>1, <3>2, <2>0
  <2>3. Base * (x - u) = 0 BY <2>0, <2>2
  <2> QED BY <2>0, <2>1, <2>2, <2>3
<1>2. CASE sw
  <2>1. Base * b1 + b2 = Base * c1 + c2 BY <1>2 DEF Word
  <2> QED BY <2>1, <1>1
<1>3. CASE ~sw
  <2>1. b1 + Base * b2 = c1 + Base * c2 BY <1>3 DEF Word
  <2>2. Base * b2 + b1 = Base * c2 + c1 BY <2>1, ParserAssumption DEF Digit
  <2> QED BY <2>2, <1>1
<1> QED BY <1>2, <1>3

\* A word fits in its size.
LEMMA WordRange ==
  ASSUME NEW b1 \in Digit, NEW b2 \in Digit, NEW sw \in BOOLEAN
  PROVE  Word(b1, b2, sw) \in 0 .. WordSize - 1
<1>1. ASSUME NEW x \in Digit, NEW y \in Digit PROVE Base * x + y \in 0 .. WordSize - 1
  <2>1. Base \in Nat /\ x \in 0 .. Base - 1 /\ y \in 0 .. Base - 1 BY ParserAssumption DEF Digit
  <2>2. Base * x <= Base * (Base - 1) BY <2>1
  <2>3. Base * x >= 0 /\ Base * x \in Int BY <2>1
  <2>4. Base * (Base - 1) = WordSize - Base BY <2>1 DEF WordSize
  <2> QED BY <2>1, <2>2, <2>3, <2>4, Sizes
<1>2. CASE sw BY <1>1, <1>2 DEF Word
<1>3. CASE ~sw
  <2>1. Base * b2 + b1 = b1 + Base * b2 BY ParserAssumption DEF Digit
  <2> QED BY <2>1, <1>1, <1>3 DEF Word
<1> QED BY <1>2, <1>3

\* First sums that differ still differ after the same word.
LEMMA AddWordFirst ==
  ASSUME NEW x \in Sums, NEW y \in Sums, NEW w \in Nat, x[1] # y[1]
  PROVE  AddWord(x, w)[1] # AddWord(y, w)[1]
<1>1. AddWord(x, w)[1] = (x[1] + w) % WordSize /\ AddWord(y, w)[1] = (y[1] + w) % WordSize
  BY DEF AddWord
<1>2. x[1] \in 0 .. WordSize - 1 /\ y[1] \in 0 .. WordSize - 1 BY DEF Sums
<1> QED BY <1>1, <1>2, ModCancel, Sizes

\* Equal sums differ after different words.
LEMMA AddWordOther ==
  ASSUME NEW x \in Sums, NEW v \in 0 .. WordSize - 1, NEW w \in 0 .. WordSize - 1, v # w
  PROVE  AddWord(x, v)[1] # AddWord(x, w)[1]
<1>1. AddWord(x, w)[1] = (x[1] + w) % WordSize /\ AddWord(x, v)[1] = (x[1] + v) % WordSize
  BY DEF AddWord
<1>2. x[1] \in Nat BY Sizes DEF Sums
<1> QED BY <1>1, <1>2, ModCancelRight, Sizes

\* Two buffers that differ in one byte have different checksums: what fletcher4
\* promises the parser, for buffers of any length.
LEMMA UpdateTellsApart ==
  ASSUME NEW z \in Sums, NEW s \in Seq(Digit), NEW t \in Seq(Digit), NEW sw \in BOOLEAN,
         Len(s) = Len(t), Len(s) % 2 = 0,
         NEW j \in 1 .. Len(s), s[j] # t[j],
         \A i \in 1 .. Len(s) : i # j => s[i] = t[i]
  PROVE  Update(z, s, sw)[1] # Update(z, t, sw)[1]
<1> DEFINE n == Len(s) \div 2
           v == Words(s, sw)
           w == Words(t, sw)
           k == (j + 1) \div 2
<1>1. /\ n \in Nat /\ Len(s) = 2 * n /\ k \in 1 .. n
      /\ j \in {2 * k - 1, 2 * k}
  OBVIOUS
<1>2. v \in [1 .. n -> Nat] /\ w \in [1 .. n -> Nat] BY WordsType
<1>3. \A i \in 1 .. n :
         /\ 2 * i - 1 \in 1 .. Len(s) /\ 2 * i \in 1 .. Len(s)
         /\ v[i] = Word(s[2 * i - 1], s[2 * i], sw)
         /\ w[i] = Word(t[2 * i - 1], t[2 * i], sw)
  BY <1>1 DEF Words, WordLen
<1>4. \A i \in 1 .. Len(s) : s[i] \in Digit /\ t[i] \in Digit OBVIOUS
<1> HIDE DEF n, v, w, k
<1>5. ASSUME NEW i \in 1 .. n, i # k PROVE v[i] = w[i]
  <2>1. 2 * i - 1 # j /\ 2 * i # j BY <1>1, <1>5
  <2> QED BY <2>1, <1>3, <1>5
<1>6. /\ v[k] # w[k]
      /\ v[k] \in 0 .. WordSize - 1 /\ w[k] \in 0 .. WordSize - 1
  <2>1. v[k] \in 0 .. WordSize - 1 /\ w[k] \in 0 .. WordSize - 1
    <3>1. /\ s[2 * k - 1] \in Digit /\ s[2 * k] \in Digit
          /\ t[2 * k - 1] \in Digit /\ t[2 * k] \in Digit
      BY <1>1, <1>3, <1>4
    <3>2. /\ v[k] = Word(s[2 * k - 1], s[2 * k], sw)
          /\ w[k] = Word(t[2 * k - 1], t[2 * k], sw)
      BY <1>1, <1>3
    <3> QED BY <3>1, <3>2, WordRange
  <2>2. SUFFICES ASSUME v[k] = w[k] PROVE FALSE BY <2>1
  <2>3. s[2 * k - 1] = t[2 * k - 1] /\ s[2 * k] = t[2 * k]
    BY <1>1, <1>3, <1>4, <2>2, WordInjective
  <2> QED BY <1>1, <2>3
<1>7. PICK r \in [0 .. n -> Sums] : IsRun(r, z, v, n) BY <1>1, <1>2, RunExists
<1>8. PICK q \in [0 .. n -> Sums] : IsRun(q, z, w, n) BY <1>1, <1>2, RunExists
<1>9. Update(z, s, sw) = r[n] /\ Update(z, t, sw) = q[n] BY <1>7, <1>8, UpdateRun DEF n, v, w
<1> DEFINE S == {m \in Nat : m <= n => IF m < k THEN r[m] = q[m] ELSE r[m][1] # q[m][1]}
<1>10. 0 \in S BY <1>1, <1>7, <1>8 DEF IsRun
<1>11. ASSUME NEW m \in Nat, m \in S PROVE m + 1 \in S
  <2> SUFFICES ASSUME m + 1 <= n
               PROVE IF m + 1 < k THEN r[m + 1] = q[m + 1] ELSE r[m + 1][1] # q[m + 1][1]
    OBVIOUS
  <2>1. m + 1 \in 1 .. n /\ (m + 1) - 1 = m /\ m \in 0 .. n BY <1>1
  <2>2. r[m + 1] = AddWord(r[m], v[m + 1]) /\ q[m + 1] = AddWord(q[m], w[m + 1])
    BY <2>1, <1>7, <1>8 DEF IsRun
  <2>3. r[m] \in Sums /\ q[m] \in Sums BY <2>1, <1>7, <1>8
  <2>4. CASE m + 1 < k
    <3>1. r[m] = q[m] BY <1>11, <2>1, <2>4, <1>1
    <3>2. v[m + 1] = w[m + 1] BY <2>1, <2>4, <1>5, <1>1
    <3> QED BY <2>2, <2>4, <3>1, <3>2
  <2>5. CASE m + 1 = k
    <3>1. r[m] = q[m] BY <1>11, <2>1, <2>5, <1>1
    <3>2. r[m + 1][1] # q[m + 1][1] BY <1>6, <2>2, <2>3, <2>5, <3>1, AddWordOther
    <3> QED BY <2>5, <3>2
  <2>6. CASE m + 1 > k
    <3>1. r[m][1] # q[m][1] BY <1>11, <2>1, <2>6, <1>1
    <3>2. v[m + 1] = w[m + 1] /\ v[m + 1] \in Nat BY <2>1, <2>6, <1>5, <1>2, <1>1
    <3>3. r[m + 1][1] # q[m + 1][1] BY <2>2, <2>3, <3>1, <3>2, AddWordFirst
    <3> QED BY <2>6, <3>3, <1>1
  <2> QED BY <2>4, <2>5, <2>6, <1>1
<1>12. \A m \in Nat : m \in S
  <2> HIDE DEF S
  <2> QED BY <1>10, <1>11, Induction
<1>13. n \in S BY <1>1, <1>12
<1> QED BY <1>1, <1>9, <1>13

(***************************************************************************)
(* Bytes, slices and headers.                                              *)
(***************************************************************************)
\* What is known of a stream.
LEMMA StreamType ==
  ASSUME stream \in Streams
  PROVE  /\ WellFormed(stream)
         /\ stream.bytes \in Seq(Digit) /\ Total \in Nat \ {0}
         /\ stream.swapped \in BOOLEAN
         /\ stream.bounds \subseteq 0 .. Total /\ 0 \in stream.bounds /\ Total \in stream.bounds
<1>1. WellFormed(stream) BY ParserAssumption
<1>2. /\ stream.bytes \in Seq(Digit) /\ stream.bytes # <<>>
      /\ stream.swapped \in BOOLEAN
      /\ stream.bounds \subseteq 0 .. Total /\ 0 \in stream.bounds /\ Total \in stream.bounds
  BY <1>1 DEF WellFormed, Digit, Total
<1>3. Total \in Nat \ {0} BY <1>2, EmptySeq DEF Total
<1> QED BY <1>1, <1>2, <1>3

\* What arrives is bytes.
LEMMA ByteType ==
  ASSUME TypeOK, NEW i \in 1 .. Total
  PROVE  Byte(i) \in Digit
<1>1. stream.bytes[i] \in Digit BY StreamType DEF TypeOK, Total
<1>2. by \in Nat /\ Base \in Nat /\ Base > 0 BY ParserAssumption DEF TypeOK
<1>3. (stream.bytes[i] + by) % Base \in Digit BY <1>1, <1>2, Remainder DEF Digit
<1> QED BY <1>1, <1>3 DEF Byte

\* What a slice holds.
LEMMA SliceType ==
  ASSUME TypeOK, NEW i \in 0 .. Total, NEW j \in i .. Total
  PROVE  /\ Slice(i, j) \in Seq(Digit)
         /\ Len(Slice(i, j)) = j - i
         /\ \A k \in 1 .. j - i : Slice(i, j)[k] = Byte(i + k)
<1>0. Total \in Nat BY StreamType DEF TypeOK
<1>1. \A k \in 1 .. j - i : Byte(i + k) \in Digit
  <2> TAKE k \in 1 .. j - i
  <2>1. i + k \in 1 .. Total BY <1>0
  <2> QED BY <2>1, ByteType
<1>2. Slice(i, j) = [k \in 1 .. j - i |-> Byte(i + k)] BY DEF Slice
<1>3. j - i \in Nat BY <1>0
<1> QED BY <1>1, <1>2, <1>3

\* Slices that follow each other make one.
LEMMA SliceConcat ==
  ASSUME TypeOK, NEW i \in 0 .. Total, NEW j \in i .. Total, NEW k \in j .. Total
  PROVE  Slice(i, j) \o Slice(j, k) = Slice(i, k)
<1> DEFINE s == Slice(i, j)
           t == Slice(j, k)
           u == Slice(i, k)
<1>0. Total \in Nat /\ j \in 0 .. Total /\ k \in i .. Total BY StreamType DEF TypeOK
<1>1. /\ s \in Seq(Digit) /\ Len(s) = j - i /\ \A x \in 1 .. j - i : s[x] = Byte(i + x)
      /\ t \in Seq(Digit) /\ Len(t) = k - j /\ \A x \in 1 .. k - j : t[x] = Byte(j + x)
      /\ u \in Seq(Digit) /\ Len(u) = k - i /\ \A x \in 1 .. k - i : u[x] = Byte(i + x)
  BY <1>0, SliceType
<1> HIDE DEF s, t, u
<1>2. /\ s \o t \in Seq(Digit) /\ Len(s \o t) = k - i
      /\ \A x \in 1 .. j - i : (s \o t)[x] = s[x]
      /\ \A x \in j - i + 1 .. k - i : (s \o t)[x] = t[x - (j - i)]
  BY <1>0, <1>1
<1>3. ASSUME NEW x \in 1 .. k - i PROVE (s \o t)[x] = u[x]
  <2>0. x \in Int /\ j - i \in Int BY <1>0
  <2>1. CASE x <= j - i BY <2>1, <1>0, <1>1, <1>2
  <2>2. CASE x > j - i
    <3>1. /\ x \in j - i + 1 .. k - i /\ x - (j - i) \in 1 .. k - j
          /\ j + (x - (j - i)) = i + x
      BY <2>2, <1>0
    <3> QED BY <3>1, <1>1, <1>2
  <2>3. x <= j - i \/ x > j - i
    <3> HIDE DEF s, t, u
    <3> QED BY <2>0
  <2> QED BY <2>1, <2>2, <2>3
<1>4. s \o t = u BY <1>1, <1>2, <1>3, SeqEqual
<1> QED BY <1>4 DEF s, t, u

\* A slice is cut in two.
LEMMA SliceSub ==
  ASSUME TypeOK, NEW i \in 0 .. Total, NEW j \in i .. Total, NEW k \in j .. Total
  PROVE  /\ SubSeq(Slice(i, k), 1, j - i) = Slice(i, j)
         /\ SubSeq(Slice(i, k), j - i + 1, k - i) = Slice(j, k)
<1>0. Total \in Nat /\ j \in 0 .. Total /\ k \in i .. Total BY StreamType DEF TypeOK
<1>1. /\ Slice(i, j) \in Seq(Digit) /\ Len(Slice(i, j)) = j - i
      /\ \A x \in 1 .. j - i : Slice(i, j)[x] = Byte(i + x)
      /\ Slice(j, k) \in Seq(Digit) /\ Len(Slice(j, k)) = k - j
      /\ \A x \in 1 .. k - j : Slice(j, k)[x] = Byte(j + x)
      /\ Slice(i, k) \in Seq(Digit) /\ Len(Slice(i, k)) = k - i
      /\ \A x \in 1 .. k - i : Slice(i, k)[x] = Byte(i + x)
  BY <1>0, SliceType
<1> DEFINE u == Slice(i, k)
           s == SubSeq(u, 1, j - i)
           t == SubSeq(u, j - i + 1, k - i)
<1>2. /\ s \in Seq(Digit) /\ Len(s) = j - i
      /\ \A x \in 1 .. j - i : s[x] = u[x]
  <2>1. u \in Seq(Digit) /\ Len(u) = k - i BY <1>1
  <2> HIDE DEF u
  <2> QED BY <2>1, <1>0
<1>3. /\ t \in Seq(Digit) /\ Len(t) = k - j
      /\ \A x \in 1 .. k - j : t[x] = u[(j - i) + x]
  <2>1. u \in Seq(Digit) /\ Len(u) = k - i BY <1>1
  <2> HIDE DEF u
  <2> QED BY <2>1, <1>0
<1>4. s = Slice(i, j)
  <2>1. \A x \in 1 .. j - i : u[x] = Byte(i + x) BY <1>0, <1>1
  <2> HIDE DEF s, u
  <2> QED BY <2>1, <1>1, <1>2, SeqEqual
<1>5. t = Slice(j, k)
  <2>1. \A x \in 1 .. k - j : u[(j - i) + x] = Byte(j + x)
    <3> TAKE x \in 1 .. k - j
    <3>1. (j - i) + x \in 1 .. k - i /\ i + ((j - i) + x) = j + x BY <1>0
    <3> QED BY <3>1, <1>1
  <2> HIDE DEF t, u
  <2> QED BY <2>1, <1>1, <1>3, SeqEqual
<1> QED BY <1>4, <1>5

\* Zero is a checksum.
LEMMA ZeroType == ZeroSum \in Sums
BY Sizes DEF ZeroSum, Sums

\* The words and fields of a header.
LEMMA HeaderWords ==
  ASSUME NEW h \in Seq(Digit), Len(h) = HeaderLen, NEW sw \in BOOLEAN
  PROVE  /\ Words(h, sw) \in [1 .. 10 -> 0 .. WordSize - 1]
         /\ Len(Words(h, sw)) = 10
         /\ UnionOf(Words(h, sw)) \in Sums
         /\ EmbeddedOf(Words(h, sw)) \in Sums
         /\ \A i \in 1 .. 4 : EmbeddedOf(Words(h, sw))[i] = Words(h, sw)[i + 6]
         /\ PayloadOf(Words(h, sw)) \in Nat
<1> DEFINE w == Words(h, sw)
<1>1. Len(h) = 20 BY DEF HeaderLen, WordLen
<1>2. ASSUME NEW i \in 1 .. 10 PROVE Word(h[2 * i - 1], h[2 * i], sw) \in 0 .. WordSize - 1
  <2>1. 2 * i - 1 \in 1 .. Len(h) /\ 2 * i \in 1 .. Len(h) BY <1>1
  <2>2. h[2 * i - 1] \in Digit /\ h[2 * i] \in Digit BY <2>1, ElementOfSeq
  <2> QED BY <2>2, WordRange
<1>3. w = [i \in 1 .. 10 |-> Word(h[2 * i - 1], h[2 * i], sw)] BY <1>1 DEF Words, WordLen
<1>4. w \in [1 .. 10 -> 0 .. WordSize - 1] BY <1>2, <1>3
<1>5. Len(w) = 10 BY <1>3
<1> HIDE DEF w
<1>6. ASSUME NEW m \in {3, 7}
      PROVE  /\ SubSeq(w, m, m + 3) \in Sums
             /\ \A i \in 1 .. 4 : SubSeq(w, m, m + 3)[i] = w[i + m - 1]
  <2>1. SubSeq(w, m, m + 3) = [i \in 1 .. 4 |-> w[i + m - 1]] BY <1>4, <1>5
  <2>2. \A i \in 1 .. 4 : i + m - 1 \in 1 .. 10 OBVIOUS
  <2> QED BY <1>4, <2>1, <2>2 DEF Sums
<1>7. UnionOf(w) \in Sums BY <1>6 DEF UnionOf
<1>9. EmbeddedOf(w) \in Sums /\ \A i \in 1 .. 4 : EmbeddedOf(w)[i] = w[i + 6]
  <2>1. \A i \in 1 .. 4 : i + 7 - 1 = i + 6 OBVIOUS
  <2> QED BY <1>6, <2>1 DEF EmbeddedOf
<1>8. PayloadOf(w) \in Nat
  <2>1. w[2] \in Nat /\ w[3] \in Nat /\ w[4] \in Nat BY <1>4, Sizes
  <2>2. RoundUp(w[3]) \in Nat BY <2>1 DEF RoundUp, WordLen
  <2> QED BY <2>1, <2>2 DEF PayloadOf
<1> QED BY <1>4, <1>5, <1>7, <1>8, <1>9 DEF w

\* Min and Max of two numbers.
LEMMA MinOfTwo ==
  ASSUME NEW a \in Int, NEW b \in Int
  PROVE  /\ Min({a, b}) = IF a <= b THEN a ELSE b
         /\ Max({a, b}) = IF a >= b THEN a ELSE b
<1>1. Min({a, b}) = IF a <= b THEN a ELSE b
  <2> DEFINE c == IF a <= b THEN a ELSE b
  <2>1. c \in {a, b} /\ \A y \in {a, b} : c <= y OBVIOUS
  <2>2. \A x \in {a, b} : (\A y \in {a, b} : x <= y) => x = c OBVIOUS
  <2> QED BY <2>1, <2>2 DEF Min
<1>2. Max({a, b}) = IF a >= b THEN a ELSE b
  <2> DEFINE c == IF a >= b THEN a ELSE b
  <2>1. c \in {a, b} /\ \A y \in {a, b} : c >= y OBVIOUS
  <2>2. \A x \in {a, b} : (\A y \in {a, b} : x >= y) => x = c OBVIOUS
  <2> QED BY <2>1, <2>2 DEF Max
<1> QED BY <1>1, <1>2

\* The header that process_chunk has put together.
LEMMA HeaderType ==
  ASSUME TypeOK, Header
  PROVE  /\ TheHeader \in Seq(Digit) /\ Len(TheHeader) = HeaderLen
         /\ at + HeaderLen - Len(buf) \in at + 1 .. sliced
         /\ Swapped \in BOOLEAN
<1>0. /\ at \in 0 .. sliced /\ sliced \in 0 .. cut /\ cut \in 0 .. Total /\ Total \in Nat
      /\ buf \in Seq(Digit) /\ Len(buf) \in Nat /\ Len(buf) < HeaderLen /\ HeaderLen = 20
      /\ Len(buf) + sliced - at >= HeaderLen
  BY StreamType DEF TypeOK, Header, Digit, HeaderLen, WordLen
<1>1. at + HeaderLen - Len(buf) \in at + 1 .. sliced BY <1>0
<1> DEFINE s == Slice(at, at + HeaderLen - Len(buf))
<1>2. s \in Seq(Digit) /\ Len(s) = HeaderLen - Len(buf)
  <2>1. at \in 0 .. Total /\ at + HeaderLen - Len(buf) \in at .. Total BY <1>0, <1>1
  <2>2. (at + HeaderLen - Len(buf)) - at = HeaderLen - Len(buf) BY <1>0
  <2> QED BY <2>1, <2>2, SliceType
<1>3. TheHeader = buf \o s BY DEF TheHeader
<1> HIDE DEF s
<1>4. TheHeader \in Seq(Digit) /\ Len(TheHeader) = HeaderLen BY <1>0, <1>2, <1>3
<1>5. Swapped \in BOOLEAN BY DEF Swapped, TypeOK
<1> QED BY <1>1, <1>4, <1>5

\* And its fields.
LEMMA FieldType ==
  ASSUME TypeOK, Header
  PROVE  /\ Field \in [1 .. 10 -> 0 .. WordSize - 1]
         /\ Union \in Sums /\ Embedded \in Sums /\ PayloadLen \in Nat
BY HeaderType, HeaderWords DEF Field, Union, Embedded, PayloadLen

\* A part of a sequence, and its length.
LEMMA SubSeqType ==
  ASSUME NEW S, NEW s \in Seq(S), NEW m \in 1 .. Len(s) + 1, NEW n \in m - 1 .. Len(s)
  PROVE  SubSeq(s, m, n) \in Seq(S) /\ Len(SubSeq(s, m, n)) = n - m + 1
OBVIOUS

\* What checksum_ragged and flush_ragged return: less than a word is kept, and
\* nothing at the end of a payload.
LEMMA RaggedType ==
  ASSUME TypeOK, NEW sum \in Sums, NEW kept \in Seq(Digit), NEW chunk \in Seq(Digit)
  PROVE  /\ ChecksumRagged(sum, kept, chunk).sum \in Sums
         /\ ChecksumRagged(sum, kept, chunk).buf \in Seq(Digit)
         /\ Len(ChecksumRagged(sum, kept, chunk).buf) = (Len(kept) + Len(chunk)) % 2
         /\ FlushRagged(ChecksumRagged(sum, kept, chunk)).sum \in Sums
         /\ FlushRagged(ChecksumRagged(sum, kept, chunk)).buf = <<>>
<1> DEFINE all == kept \o chunk
           aligned == Len(all) - (Len(all) % WordLen)
           r == ChecksumRagged(sum, kept, chunk)
<1>1. all \in Seq(Digit) /\ Len(all) = Len(kept) + Len(chunk) /\ Len(all) \in Nat OBVIOUS
<1>2. r = [sum |-> Update(sum, SubSeq(all, 1, aligned), swap), buf |-> SubSeq(all, aligned + 1, Len(all))]
  BY DEF ChecksumRagged
<1> HIDE DEF all, r
<1>3. aligned \in 0 .. Len(all) /\ Len(all) - aligned = Len(all) % 2 BY <1>1 DEF WordLen
<1> HIDE DEF aligned
<1>4. SubSeq(all, 1, aligned) \in Seq(Digit) BY <1>1, <1>3
<1>5. /\ SubSeq(all, aligned + 1, Len(all)) \in Seq(Digit)
      /\ Len(SubSeq(all, aligned + 1, Len(all))) = Len(all) - aligned
  <2>1. aligned + 1 \in 1 .. Len(all) + 1 /\ Len(all) \in (aligned + 1) - 1 .. Len(all) BY <1>1, <1>3
  <2>2. Len(all) - (aligned + 1) + 1 = Len(all) - aligned BY <1>1, <1>3
  <2> QED BY <1>1, <2>1, <2>2, SubSeqType
<1>6. r.sum \in Sums BY <1>2, <1>4, UpdateType DEF TypeOK
<1>7. r.buf \in Seq(Digit) /\ Len(r.buf) = (Len(kept) + Len(chunk)) % 2 BY <1>1, <1>2, <1>3, <1>5
<1>8. FlushRagged(r).sum \in Sums /\ FlushRagged(r).buf = <<>>
  <2>1. r.buf \o <<0>> \in Seq(Digit)
    <3>1. 0 \in Digit BY ParserAssumption DEF Digit
    <3> QED BY <3>1, <1>7
  <2>2. Update(r.sum, r.buf \o <<0>>, swap) \in Sums BY <2>1, <1>6, UpdateType DEF TypeOK
  <2> QED BY <1>6, <2>2 DEF FlushRagged
<1> QED BY <1>6, <1>7, <1>8 DEF r

(***************************************************************************)
(* Type correctness.                                                       *)
(***************************************************************************)
\* The variables have their types: a partial header is shorter than a header, and
\* a partial word of a payload than a word (StreamParser::buf).
THEOREM TypeCorrect == Spec => []TypeOK
<1> USE ParserAssumption
<1>1. Init => TypeOK
  <2> SUFFICES ASSUME Init PROVE TypeOK
    OBVIOUS
  <2>1. Total \in Nat \ {0}
    <3>1. stream \in Streams BY DEF Init
    <3> QED BY <3>1, StreamType
  <2>2. ZeroSum \in [1 .. 4 -> 0 .. WordSize - 1] BY ZeroType DEF Sums
  <2>3. damaged \in 0 .. Total /\ by \in 1 .. Base - 1 /\ cut \in 0 .. Total BY <2>1 DEF Init
  <2>4. /\ stream \in Streams /\ at = 0 /\ sliced = 0 /\ buf = <<>> /\ remaining = 0
        /\ cksum = ZeroSum /\ swap = FALSE /\ started = FALSE
        /\ depth = 0 /\ ends = <<>> /\ finished = FALSE /\ verdict = "none"
    BY DEF Init
  <2>5. at \in 0 .. sliced /\ sliced \in 0 .. cut BY <2>1, <2>3, <2>4
  <2>6. buf \in Seq(0 .. Base - 1) /\ ends \in Seq([1 .. 4 -> 0 .. WordSize - 1]) BY <2>4
  <2>7. Len(buf) < IF remaining > 0 THEN WordLen ELSE HeaderLen BY <2>4 DEF HeaderLen, WordLen
  <2> QED BY <2>2, <2>3, <2>4, <2>5, <2>6, <2>7 DEF TypeOK
<1>2. TypeOK /\ [Next]_vars => TypeOK'
  <2> SUFFICES ASSUME TypeOK, [Next]_vars PROVE TypeOK'
    OBVIOUS
  <2>0. /\ stream' = stream /\ damaged' = damaged /\ by' = by /\ cut' = cut
        /\ Total' = Total /\ Total \in Nat
    BY StreamType DEF TypeOK, Next, vars, input, Read, Payload, PartHeader, Record, Refuse, Finish, Total
  <2>1. ASSUME NEW n \in SliceLens, Read(n) PROVE TypeOK'
    <3>1. at + n \in Int /\ cut \in Int BY <2>0 DEF TypeOK
    <3>2. sliced' \in 0 .. cut /\ at <= sliced'
      <4>1. Min({at + n, cut}) = IF at + n <= cut THEN at + n ELSE cut BY <3>1, MinOfTwo, Zenon
      <4>2. at \in Nat /\ n \in Nat /\ cut \in Nat /\ at < cut /\ sliced' = Min({at + n, cut})
        BY <2>0, <2>1 DEF Read, TypeOK
      <4> QED BY <4>1, <4>2
    <3> QED BY <2>0, <2>1, <3>2 DEF Read, TypeOK
  <2>2. CASE Payload
    <3> DEFINE take == Min({remaining, sliced - at})
               r == ChecksumRagged(cksum, buf, Slice(at, at + take))
               s == IF take = remaining THEN FlushRagged(r) ELSE r
    <3>1. /\ take \in 0 .. remaining /\ at + take \in at .. sliced /\ take \in Nat
      <4>1. remaining \in Nat /\ at \in Nat /\ sliced \in Nat /\ at < sliced /\ remaining > 0
        BY <2>0, <2>2 DEF Payload, TypeOK
      <4>2. sliced - at \in Int /\ remaining \in Int BY <4>1
      <4>3. take = IF remaining <= sliced - at THEN remaining ELSE sliced - at
        BY <4>2, MinOfTwo, Zenon
      <4> HIDE DEF take
      <4> QED BY <4>1, <4>3
    <3>2. /\ at' = at + take /\ remaining' = remaining - take
          /\ cksum' = s.sum /\ buf' = s.buf
          /\ UNCHANGED <<input, sliced, swap, started, depth, ends, finished, verdict>>
      BY <2>2 DEF Payload
    <3> HIDE DEF take
    <3>3. Slice(at, at + take) \in Seq(Digit)
      <4>1. at \in 0 .. Total /\ at + take \in at .. Total BY <2>0, <3>1 DEF TypeOK
      <4> QED BY <4>1, SliceType
    <3>4. /\ r.sum \in Sums /\ r.buf \in Seq(Digit) /\ Len(r.buf) < 2
          /\ FlushRagged(r).sum \in Sums /\ FlushRagged(r).buf = <<>>
      <4>1. cksum \in Sums /\ buf \in Seq(Digit) BY DEF TypeOK, Sums, Digit
      <4>2. (Len(buf) + Len(Slice(at, at + take))) % 2 < 2 BY <3>3, <4>1
      <4> HIDE DEF r
      <4> QED BY <3>3, <4>1, <4>2, RaggedType DEF r
    <3> HIDE DEF r
    <3>5. /\ cksum' \in [1 .. 4 -> 0 .. WordSize - 1] /\ buf' \in Seq(0 .. Base - 1)
          /\ Len(buf') < IF remaining' > 0 THEN WordLen ELSE HeaderLen
      <4>1. CASE take = remaining
        <5>1. cksum' \in Sums /\ buf' = <<>> BY <3>2, <3>4, <4>1
        <5>2. Len(buf') < IF remaining' > 0 THEN WordLen ELSE HeaderLen
          BY <5>1 DEF WordLen, HeaderLen
        <5> QED BY <5>1, <5>2 DEF Sums
      <4>2. CASE take # remaining
        <5>1. cksum' \in Sums /\ buf' \in Seq(Digit) /\ Len(buf') < 2 BY <3>2, <3>4, <4>2
        <5>2. Len(buf') < IF remaining' > 0 THEN WordLen ELSE HeaderLen
          BY <5>1 DEF WordLen, HeaderLen
        <5> QED BY <5>1, <5>2 DEF Sums, Digit
      <4> QED BY <4>1, <4>2
    <3>6. at' \in 0 .. sliced' /\ remaining' \in Nat BY <3>1, <3>2 DEF TypeOK
    <3> QED BY <2>0, <3>2, <3>5, <3>6 DEF TypeOK
  <2>3. CASE PartHeader
    <3>1. /\ at < sliced /\ remaining = 0 /\ Len(buf) + sliced - at < HeaderLen
          /\ buf' = buf \o Slice(at, sliced) /\ at' = sliced /\ verdict' = verdict
          /\ UNCHANGED <<input, sliced, remaining, cksum, swap, started, depth, ends, finished>>
      BY <2>3 DEF PartHeader
    <3>2. Slice(at, sliced) \in Seq(Digit) /\ Len(Slice(at, sliced)) = sliced - at
      <4>1. at \in 0 .. Total /\ sliced \in at .. Total BY <2>0, <3>1 DEF TypeOK
      <4> QED BY <4>1, SliceType
    <3>3. buf' \in Seq(Digit) /\ Len(buf') = Len(buf) + (sliced - at)
      <4>1. buf \in Seq(Digit) BY DEF TypeOK, Digit
      <4> DEFINE s == Slice(at, sliced)
      <4>2. s \in Seq(Digit) /\ Len(s) = sliced - at BY <3>2
      <4>3. buf' = buf \o s BY <3>1
      <4>4. sliced - at \in Int BY <2>0 DEF TypeOK
      <4> HIDE DEF s
      <4>5. buf \o s \in Seq(Digit) /\ Len(buf \o s) = Len(buf) + Len(s)
        BY <4>1, <4>2, ConcatProperties, Zenon
      <4> QED BY <4>2, <4>3, <4>5
    <3>4. Len(buf') < HeaderLen BY <3>1, <3>3 DEF TypeOK
    <3> QED BY <2>0, <3>1, <3>3, <3>4 DEF TypeOK, Digit
  <2>4. CASE Record
    <3>1. /\ Header
          /\ at' = at + HeaderLen - Len(buf) /\ buf' = <<>> /\ started' = TRUE
          /\ swap' = Swapped /\ cksum' = Update(cksum, TheHeader, Swapped) /\ remaining' = PayloadLen
          /\ depth' = CASE Type = Begin -> depth + 1 [] Type = End -> Max({depth - 1, 0}) [] OTHER -> depth
          /\ ends' = IF Type = End THEN Append(ends, Union) ELSE ends
          /\ finished' = (finished \/ (Type = End /\ depth' = 0))
          /\ UNCHANGED <<input, sliced, verdict>>
      BY <2>4 DEF Record
    <3>2. at' \in 0 .. sliced /\ swap' \in BOOLEAN /\ TheHeader \in Seq(Digit)
      <4>1. at + HeaderLen - Len(buf) \in at + 1 .. sliced /\ Swapped \in BOOLEAN
            /\ TheHeader \in Seq(Digit)
        BY <3>1, HeaderType
      <4>2. at \in Nat BY <2>0 DEF TypeOK
      <4> QED BY <3>1, <4>1, <4>2
    <3>3. cksum' \in Sums BY <3>1, <3>2, UpdateType DEF TypeOK, Sums
    <3>4. remaining' \in Nat /\ Union \in Sums BY <3>1, FieldType
    <3>5. depth' \in Nat
      <4>1. depth \in Nat /\ Max({depth - 1, 0}) \in Nat
        <5>1. depth \in Nat BY DEF TypeOK
        <5>2. depth - 1 \in Int /\ 0 \in Int BY <5>1
        <5>3. Max({depth - 1, 0}) = IF depth - 1 >= 0 THEN depth - 1 ELSE 0 BY <5>2, MinOfTwo, Zenon
        <5> QED BY <5>1, <5>3
      <4> QED BY <3>1, <4>1
    <3>6. ends' \in Seq(Sums) BY <3>1, <3>4 DEF TypeOK, Sums
    <3>7. Len(buf') < IF remaining' > 0 THEN WordLen ELSE HeaderLen
      BY <3>1 DEF WordLen, HeaderLen
    <3>8. finished' \in BOOLEAN BY <3>1 DEF TypeOK
    <3> QED BY <2>0, <3>1, <3>2, <3>3, <3>4, <3>5, <3>6, <3>7, <3>8 DEF TypeOK, Sums
  <2>5. CASE Refuse BY <2>0, <2>5 DEF Refuse, TypeOK
  <2>6. CASE Finish BY <2>0, <2>6 DEF Finish, TypeOK
  <2>7. CASE UNCHANGED vars BY <2>0, <2>7 DEF vars, input, TypeOK
  <2> QED BY <2>1, <2>2, <2>3, <2>4, <2>5, <2>6, <2>7 DEF Next
<1> QED BY <1>1, <1>2, PTL DEF Spec

(***************************************************************************)
(* The running checksum is that of the stream so far.                      *)
(***************************************************************************)
\* SumOfTheStream after a step, from the place where the sum has come to.
LEMMA SumPrime ==
  ASSUME UNCHANGED input, NEW p, NEW a, at' = a, at' - Len(buf') = p,
         buf' = Slice(p, a), cksum' = Update(ZeroSum, Slice(0, p), swap')
  PROVE  SumOfTheStream'
<1>1. /\ buf' = Slice(at' - Len(buf'), at')
      /\ cksum' = Update(ZeroSum, Slice(0, at' - Len(buf')), swap')
  OBVIOUS
<1>2. stream' = stream /\ damaged' = damaged /\ by' = by BY DEF input
<1> QED BY <1>1, <1>2 DEF SumOfTheStream, Slice, Byte

\* Where everything is.
LEMMA Positions ==
  ASSUME TypeOK, SumInv
  PROVE  /\ Place \in 0 .. at /\ at \in 0 .. sliced /\ sliced \in 0 .. cut /\ cut \in 0 .. Total
         /\ Total \in Nat /\ Len(buf) = at - Place /\ Place % 2 = 0
         /\ buf = Slice(Place, at) /\ buf \in Seq(Digit)
         /\ Slice(0, Place) \in Seq(Digit) /\ Len(Slice(0, Place)) = Place
         /\ cksum = Update(ZeroSum, Slice(0, Place), swap)
         /\ remaining \in Nat /\ swap \in BOOLEAN
         /\ remaining = 0 => at - Place < HeaderLen
<1>1. /\ at \in 0 .. sliced /\ sliced \in 0 .. cut /\ cut \in 0 .. Total /\ Total \in Nat
      /\ buf \in Seq(Digit) /\ Len(buf) \in Nat /\ remaining \in Nat /\ swap \in BOOLEAN
      /\ remaining = 0 => Len(buf) < HeaderLen
  BY StreamType DEF TypeOK, Digit
<1>2. Place \in Nat /\ Place = at - Len(buf) /\ Place % 2 = 0 BY DEF SumInv, Place
<1>3. Place \in 0 .. at /\ Len(buf) = at - Place BY <1>1, <1>2
<1>4. /\ buf = Slice(Place, at)
      /\ cksum = Update(ZeroSum, Slice(0, Place), swap)
  BY DEF SumInv, SumOfTheStream, Place
<1>5. Slice(0, Place) \in Seq(Digit) /\ Len(Slice(0, Place)) = Place
  <2>1. 0 \in 0 .. Total /\ Place \in 0 .. Total /\ Place - 0 = Place BY <1>1, <1>3
  <2> QED BY <2>1, SliceType
<1> QED BY <1>1, <1>2, <1>3, <1>4, <1>5

\* The sum of what comes first, and of what follows, is that of both.
LEMMA UpdateSlice ==
  ASSUME TypeOK, NEW i \in 0 .. Total, NEW j \in i .. Total, i % 2 = 0, NEW sw \in BOOLEAN
  PROVE  Update(Update(ZeroSum, Slice(0, i), sw), Slice(i, j), sw) = Update(ZeroSum, Slice(0, j), sw)
<1>1. Total \in Nat BY StreamType DEF TypeOK
<1>2. /\ Slice(0, i) \in Seq(Digit) /\ Len(Slice(0, i)) = i
  <2>1. 0 \in 0 .. Total /\ i \in 0 .. Total /\ i - 0 = i BY <1>1
  <2> QED BY <2>1, SliceType
<1>3. Slice(i, j) \in Seq(Digit) BY SliceType
<1>4. Slice(0, i) \o Slice(i, j) = Slice(0, j)
  <2>1. 0 \in 0 .. Total /\ i \in 0 .. Total BY <1>1
  <2> QED BY <2>1, SliceConcat
<1>5. Len(Slice(0, i)) % 2 = 0 BY <1>2
<1>6. Update(Update(ZeroSum, Slice(0, i), sw), Slice(i, j), sw)
        = Update(ZeroSum, Slice(0, i) \o Slice(i, j), sw)
  BY <1>2, <1>3, <1>5, ZeroType, UpdateConcat, Zenon
<1> QED BY <1>4, <1>6

\* The header starts where the sum stops.
LEMMA HeaderIs ==
  ASSUME TypeOK, SumInv, Header
  PROVE  /\ TheHeader = Slice(Place, Place + HeaderLen)
         /\ at + HeaderLen - Len(buf) = Place + HeaderLen
         /\ Place + HeaderLen \in at + 1 .. sliced
<1>1. at + HeaderLen - Len(buf) \in at + 1 .. sliced BY HeaderType
<1>2. at + HeaderLen - Len(buf) = Place + HeaderLen BY Positions DEF HeaderLen, WordLen
<1>3. Place \in 0 .. Total /\ at \in Place .. Total /\ Place + HeaderLen \in at .. Total
  BY <1>1, <1>2, Positions
<1>4. TheHeader = Slice(Place, at) \o Slice(at, Place + HeaderLen)
  BY <1>2, Positions DEF TheHeader
<1> QED BY <1>1, <1>2, <1>3, <1>4, SliceConcat

\* Nothing is summed at first.
LEMMA SumInit == Init => SumInv
<1> SUFFICES ASSUME Init PROVE SumInv
  OBVIOUS
<1>1. at = 0 /\ buf = <<>> /\ remaining = 0 /\ cksum = ZeroSum /\ swap = FALSE BY DEF Init
<1>2. at - Len(buf) = 0
  <2>1. Len(buf) = 0 BY <1>1
  <2>2. at - Len(buf) = 0 - 0 BY <1>1, <2>1, Zenon
  <2> QED BY <2>2
<1>3. Slice(0, 0) = <<>> BY DEF Slice
<1>4. Update(ZeroSum, <<>>, swap) = ZeroSum BY <1>1, ZeroType, UpdateEmpty
<1> QED BY <1>1, <1>2, <1>3, <1>4 DEF SumInv, SumOfTheStream, Place

\* A piece of a payload is summed up to its last whole word.
LEMMA SumPayload == ASSUME TypeOK, SumInv, Payload PROVE SumInv'
<1> DEFINE take == Min({remaining, sliced - at})
           chunk == Slice(at, at + take)
           r == ChecksumRagged(cksum, buf, chunk)
           s == IF take = remaining THEN FlushRagged(r) ELSE r
<1>0. /\ Place \in 0 .. at /\ at \in 0 .. sliced /\ sliced \in 0 .. cut /\ cut \in 0 .. Total
      /\ Total \in Nat /\ Len(buf) = at - Place /\ Place % 2 = 0
      /\ buf = Slice(Place, at) /\ buf \in Seq(Digit)
      /\ cksum = Update(ZeroSum, Slice(0, Place), swap)
      /\ remaining \in Nat /\ swap \in BOOLEAN
  BY Positions
<1>1. /\ at' = at + take /\ remaining' = remaining - take
      /\ cksum' = s.sum /\ buf' = s.buf /\ swap' = swap /\ started' = started
      /\ UNCHANGED input /\ at < sliced /\ remaining > 0
  BY DEF Payload
<1>2. take \in 0 .. remaining /\ at + take \in at .. sliced /\ take \in Nat
  <2>1. sliced - at \in Int /\ remaining \in Int BY <1>0
  <2>2. take = IF remaining <= sliced - at THEN remaining ELSE sliced - at
    BY <2>1, MinOfTwo, Zenon
  <2> HIDE DEF take
  <2> QED BY <1>0, <1>1, <2>2
<1> HIDE DEF take
<1> DEFINE all == buf \o chunk
           q == at + take - ((at + take - Place) % 2)
<1>3. all = Slice(Place, at + take)
  <2>1. Place \in 0 .. Total /\ at \in Place .. Total /\ at + take \in at .. Total BY <1>0, <1>2
  <2> QED BY <1>0, <2>1, SliceConcat
<1>4. /\ q \in Place .. at + take /\ q % 2 = 0 /\ at + take - q \in {0, 1}
      /\ (at + take - Place) % 2 = at + take - q
      /\ at + take \in 0 .. Total
  BY <1>0, <1>2
<1>5. Len(all) = at + take - Place
  <2>1. Place \in 0 .. Total /\ at + take \in Place .. Total BY <1>0, <1>2
  <2>2. Len(Slice(Place, at + take)) = (at + take) - Place BY <2>1, SliceType, Zenon
  <2> HIDE DEF all
  <2>3. (at + take) - Place = at + take - Place BY <1>0, <1>2
  <2> QED BY <1>3, <2>2, <2>3, Zenon
<1> HIDE DEF q, chunk
<1>6. r = [sum |-> Update(cksum, Slice(Place, q), swap), buf |-> Slice(q, at + take)]
  <2>1. Len(all) - (Len(all) % WordLen) = q - Place
    <3> HIDE DEF all
    <3> QED BY <1>0, <1>2, <1>4, <1>5 DEF WordLen
  <2>2. /\ SubSeq(all, 1, q - Place) = Slice(Place, q)
        /\ SubSeq(all, q - Place + 1, Len(all)) = Slice(q, at + take)
    <3>1. Place \in 0 .. Total /\ q \in Place .. Total /\ at + take \in q .. Total BY <1>0, <1>4
    <3>2. /\ SubSeq(Slice(Place, at + take), 1, q - Place) = Slice(Place, q)
          /\ SubSeq(Slice(Place, at + take), q - Place + 1, (at + take) - Place) = Slice(q, at + take)
      BY <3>1, SliceSub, Zenon
    <3>3. Len(all) = (at + take) - Place
      <4>1. (at + take) - Place = at + take - Place BY <1>0, <1>2
      <4> QED BY <1>5, <4>1, Zenon
    <3> HIDE DEF all
    <3> QED BY <1>3, <3>2, <3>3, Zenon
  <2>3. r = [sum |-> Update(cksum, SubSeq(all, 1, Len(all) - (Len(all) % WordLen)), swap),
             buf |-> SubSeq(all, (Len(all) - (Len(all) % WordLen)) + 1, Len(all))]
    BY DEF ChecksumRagged
  <2> HIDE DEF all, r
  <2> QED BY <2>1, <2>2, <2>3
<1>7. Update(cksum, Slice(Place, q), swap) = Update(ZeroSum, Slice(0, q), swap)
  <2>1. Place \in 0 .. Total /\ q \in Place .. Total BY <1>0, <1>4
  <2> QED BY <1>0, <2>1, UpdateSlice
<1>8. take = remaining => q = at + take
  <2> SUFFICES ASSUME take = remaining PROVE q = at + take
    OBVIOUS
  <2>1. (at - Place + remaining) % 2 = 0 BY <1>0, <1>1 DEF SumInv
  <2>2. at - Place + remaining = at + take - Place BY <1>0, <1>2
  <2> QED BY <1>0, <1>2, <1>4, <2>1, <2>2
<1> HIDE DEF r, all
<1>9. s = r
  <2>1. CASE take = remaining
    <3>1. r.buf = Slice(q, q) /\ Slice(q, q) = <<>> BY <1>6, <1>8, <2>1, <1>4 DEF Slice
    <3> QED BY <2>1, <3>1 DEF FlushRagged
  <2>2. CASE take # remaining BY <2>2
  <2> QED BY <2>1, <2>2
<1> HIDE DEF s
<1>10. buf' = Slice(q, at + take) /\ cksum' = Update(ZeroSum, Slice(0, q), swap')
  BY <1>1, <1>6, <1>7, <1>9
<1>11. Len(buf') = at + take - q
  <2>1. q \in 0 .. Total /\ at + take \in q .. Total BY <1>0, <1>4
  <2>2. Len(Slice(q, at + take)) = (at + take) - q BY <2>1, SliceType, Zenon
  <2>3. (at + take) - q = at + take - q BY <1>0, <1>2, <1>4
  <2> QED BY <1>10, <2>2, <2>3, Zenon
<1>12. at' - Len(buf') = q BY <1>0, <1>1, <1>2, <1>4, <1>11
<1>13. SumOfTheStream' BY <1>1, <1>10, <1>12, SumPrime
<1>14. Place' = q BY <1>12 DEF Place
<1>15. remaining' > 0 => (Len(buf') + remaining') % 2 = 0
  <2>1. (at - Place + remaining) % 2 = 0 BY <1>0, <1>1 DEF SumInv
  <2>2. Len(buf') + remaining' = (at - Place + remaining) - (q - Place) BY <1>0, <1>1, <1>2, <1>4, <1>11
  <2> QED BY <1>0, <1>4, <2>1, <2>2
<1>16. started BY <1>0, <1>1 DEF SumInv
<1> QED BY <1>0, <1>1, <1>4, <1>13, <1>14, <1>15, <1>16 DEF SumInv

\* The start of a header is not summed yet.
LEMMA SumPartHeader == ASSUME TypeOK, SumInv, PartHeader PROVE SumInv'
<1>0. /\ Place \in 0 .. at /\ at \in 0 .. sliced /\ sliced \in 0 .. cut /\ cut \in 0 .. Total
      /\ Total \in Nat /\ Len(buf) = at - Place /\ Place % 2 = 0
      /\ buf = Slice(Place, at) /\ buf \in Seq(Digit)
      /\ cksum = Update(ZeroSum, Slice(0, Place), swap)
  BY Positions
<1>1. /\ buf' = buf \o Slice(at, sliced) /\ at' = sliced /\ remaining' = remaining /\ remaining = 0
      /\ cksum' = cksum /\ swap' = swap /\ started' = started /\ UNCHANGED input
  BY DEF PartHeader
<1>2. Place \in 0 .. Total /\ at \in Place .. Total /\ sliced \in at .. Total BY <1>0
<1>3. buf' = Slice(Place, sliced) BY <1>0, <1>1, <1>2, SliceConcat
<1>4. Len(buf') = sliced - Place
  <2>1. sliced \in Place .. Total BY <1>0
  <2> QED BY <1>2, <1>3, <2>1, SliceType
<1>5. at' - Len(buf') = Place BY <1>0, <1>1, <1>4
<1>6. SumOfTheStream' BY <1>0, <1>1, <1>3, <1>5, SumPrime
<1>7. Place' = Place BY <1>5 DEF Place
<1> QED BY <1>0, <1>1, <1>6, <1>7 DEF SumInv

\* A header is summed when it is whole, in the byte order it shows.
LEMMA SumRecord == ASSUME TypeOK, SumInv, Record PROVE SumInv'
<1> DEFINE q == Place + HeaderLen
<1>0. /\ Place \in 0 .. at /\ at \in 0 .. sliced /\ sliced \in 0 .. cut /\ cut \in 0 .. Total
      /\ Total \in Nat /\ Place % 2 = 0
      /\ cksum = Update(ZeroSum, Slice(0, Place), swap)
  BY Positions
<1>1. /\ Header /\ ~Refused
      /\ at' = at + HeaderLen - Len(buf) /\ buf' = <<>> /\ started' = TRUE
      /\ swap' = Swapped /\ cksum' = Update(cksum, TheHeader, Swapped) /\ remaining' = PayloadLen
      /\ UNCHANGED input
  BY DEF Record
<1>2. TheHeader = Slice(Place, q) /\ at' = q /\ q \in at + 1 .. sliced BY <1>1, HeaderIs
<1>3. q % 2 = 0 /\ q \in Place .. Total BY <1>0, <1>2 DEF HeaderLen, WordLen
<1>4. cksum = Update(ZeroSum, Slice(0, Place), Swapped)
  <2>1. CASE started BY <2>1, <1>0 DEF Swapped
  <2>2. CASE ~started
    <3>1. Place = 0 BY <2>2 DEF SumInv
    <3>2. Slice(0, 0) = <<>> BY DEF Slice
    <3>3. Swapped \in BOOLEAN /\ swap \in BOOLEAN BY <1>1, HeaderType, Positions
    <3> QED BY <1>0, <3>1, <3>2, <3>3, ZeroType, UpdateEmpty
  <2> QED BY <2>1, <2>2
<1> HIDE DEF q
<1>5. cksum' = Update(ZeroSum, Slice(0, q), Swapped)
  <2>1. Place \in 0 .. Total /\ Swapped \in BOOLEAN BY <1>0, <1>1, HeaderType
  <2> QED BY <1>0, <1>1, <1>2, <1>3, <1>4, <2>1, UpdateSlice
<1>6. buf' = Slice(q, q) /\ at' - Len(buf') = q
  <2>1. Slice(q, q) = <<>> BY <1>0, <1>3 DEF Slice
  <2> QED BY <1>0, <1>1, <1>2, <2>1
<1>7. SumOfTheStream' BY <1>1, <1>2, <1>5, <1>6, SumPrime
<1>8. Place' = q BY <1>6 DEF Place
<1>9. (Len(buf') + remaining') % 2 = 0
  <2>1. PayloadLen % 2 = 0 BY <1>1 DEF Refused, WordLen
  <2>2. PayloadLen \in Nat BY <1>1, FieldType
  <2> QED BY <1>1, <2>1, <2>2
<1> QED BY <1>0, <1>1, <1>3, <1>7, <1>8, <1>9 DEF SumInv

\* Steps that leave all this alone.
LEMMA SumSame ==
  ASSUME SumInv, UNCHANGED <<input, at, buf, remaining, cksum, swap, started>>
  PROVE  SumInv'
<1>1. /\ at' = at /\ buf' = buf /\ remaining' = remaining /\ cksum' = cksum /\ swap' = swap /\ started' = started
      /\ UNCHANGED input
  OBVIOUS
<1>2. SumOfTheStream' BY <1>1, SumPrime DEF SumInv, SumOfTheStream
<1> QED BY <1>1, <1>2 DEF SumInv, Place

\* Every step keeps the sum.
LEMMA SumNext == TypeOK /\ SumInv /\ [Next]_vars => SumInv'
<1> SUFFICES ASSUME TypeOK, SumInv, [Next]_vars PROVE SumInv'
  OBVIOUS
<1>1. ASSUME NEW n \in SliceLens, Read(n) PROVE SumInv' BY <1>1, SumSame DEF Read
<1>2. CASE Payload BY <1>2, SumPayload
<1>3. CASE PartHeader BY <1>3, SumPartHeader
<1>4. CASE Record BY <1>4, SumRecord
<1>5. CASE Refuse BY <1>5, SumSame DEF Refuse
<1>6. CASE Finish BY <1>6, SumSame DEF Finish
<1>7. CASE UNCHANGED vars BY <1>7, SumSame DEF vars
<1> QED BY <1>1, <1>2, <1>3, <1>4, <1>5, <1>6, <1>7 DEF Next

\* Wherever slices cut headers and words, the running checksum of the parser
\* (StreamParser::cksum) is that of the bytes it has taken, each once and in order.
THEOREM SumsTheStream == Spec => []SumOfTheStream
<1>1. TypeOK /\ SumInv /\ [Next]_vars => SumInv' BY SumNext
<1>2. SumInv => SumOfTheStream BY DEF SumInv
<1> QED BY <1>1, <1>2, SumInit, TypeCorrect, PTL DEF Spec

(***************************************************************************)
(* The parser stays in step with the records.                              *)
(***************************************************************************)
\* What stands at the start of a record.
LEMMA BoundIs ==
  ASSUME TypeOK, NEW b \in stream.bounds, b # Total
  PROVE  /\ b \in Nat /\ Total \in Nat
         /\ RecordAt(stream, b)
         /\ PayloadOf(HeaderAt(stream, b)) \in Nat
         /\ NextOf(stream, b) = b + HeaderLen + PayloadOf(HeaderAt(stream, b))
         /\ NextOf(stream, b) \in stream.bounds
         /\ NextOf(stream, b) \in 0 .. Total
         /\ b + HeaderLen <= Total /\ HeaderLen = 20
         /\ SubSeq(stream.bytes, b + 1, b + HeaderLen) \in Seq(Digit)
         /\ Len(SubSeq(stream.bytes, b + 1, b + HeaderLen)) = HeaderLen
         /\ \A k \in 1 .. HeaderLen :
              SubSeq(stream.bytes, b + 1, b + HeaderLen)[k] = stream.bytes[b + k]
<1>1. /\ WellFormed(stream) /\ stream.bytes \in Seq(Digit) /\ Total \in Nat
      /\ stream.bounds \subseteq 0 .. Total /\ stream.swapped \in BOOLEAN
  BY StreamType DEF TypeOK
<1>2. RecordAt(stream, b) BY <1>1 DEF WellFormed, Total
<1>3. NextOf(stream, b) \in stream.bounds /\ HeaderLen = 20
  BY <1>2 DEF RecordAt, HeaderLen, WordLen
<1>4. b \in Nat /\ b + HeaderLen <= Total BY <1>1, <1>2 DEF RecordAt, Total
<1> DEFINE h == SubSeq(stream.bytes, b + 1, b + HeaderLen)
<1>5. /\ h \in Seq(Digit) /\ Len(h) = HeaderLen
      /\ \A k \in 1 .. HeaderLen : h[k] = stream.bytes[b + k]
  <2>1. b + 1 \in 1 .. Len(stream.bytes) + 1 /\ b + HeaderLen \in b .. Len(stream.bytes)
    BY <1>1, <1>3, <1>4 DEF Total
  <2>2. \A k \in 1 .. HeaderLen : (b + 1) + k - 1 = b + k BY <1>3, <1>4
  <2> QED BY <1>1, <1>3, <1>4, <2>1, <2>2
<1>6. PayloadOf(HeaderAt(stream, b)) \in Nat BY <1>1, <1>5, HeaderWords DEF HeaderAt
<1>7. NextOf(stream, b) = b + HeaderLen + PayloadOf(HeaderAt(stream, b)) BY DEF NextOf
<1> QED BY <1>1, <1>2, <1>3, <1>4, <1>5, <1>6, <1>7

\* What arrives there.
LEMMA ReadIs ==
  ASSUME TypeOK, NEW b \in stream.bounds, b # Total
  PROVE  /\ Slice(b, b + HeaderLen) \in Seq(Digit)
         /\ Len(Slice(b, b + HeaderLen)) = HeaderLen
         /\ \A k \in 1 .. HeaderLen : Slice(b, b + HeaderLen)[k] = Byte(b + k)
         /\ stream.swapped \in BOOLEAN
<1>1. b \in 0 .. Total /\ b + HeaderLen \in b .. Total /\ (b + HeaderLen) - b = HeaderLen BY BoundIs
<1>2. stream.swapped \in BOOLEAN BY StreamType DEF TypeOK
<1> QED BY <1>1, <1>2, SliceType

\* The stream and its damage do not change.
LEMMA InputKept ==
  ASSUME UNCHANGED input
  PROVE  /\ Total' = Total /\ stream' = stream /\ damaged' = damaged /\ cut' = cut
         /\ FramingKept' <=> FramingKept
         /\ EndSealed' <=> EndSealed
         /\ Covered' <=> Covered
<1>1. stream' = stream /\ damaged' = damaged /\ by' = by /\ cut' = cut BY DEF input
<1>2. Total' = Total BY <1>1 DEF Total
<1>3. FramingKept' <=> FramingKept
  BY <1>1, <1>2 DEF FramingKept, HeaderKept, HeaderRead, Slice, Byte
<1>4. EndSealed' <=> EndSealed BY <1>1, <1>2 DEF EndSealed, Sealed, HeaderRead, Slice, Byte
<1>5. AllSealed' <=> AllSealed
  BY <1>1, <1>2 DEF AllSealed, Sealed, HeaderKept, HeaderRead, Slice, Byte
<1>6. Covered' <=> Covered BY <1>3, <1>4, <1>5 DEF Covered
<1> QED BY <1>1, <1>2, <1>3, <1>4, <1>6

\* Before the wrong byte, what arrives is what was sent.
LEMMA SliceIntact ==
  ASSUME TypeOK, NEW i \in 0 .. Total, damaged \notin 1 .. i
  PROVE  Slice(0, i) = SubSeq(stream.bytes, 1, i)
<1>0. Total \in Nat /\ stream.bytes \in Seq(Digit) /\ Len(stream.bytes) = Total
  BY StreamType DEF TypeOK, Total
<1> DEFINE s == Slice(0, i)
           t == SubSeq(stream.bytes, 1, i)
<1>1. s \in Seq(Digit) /\ Len(s) = i /\ \A k \in 1 .. i : s[k] = Byte(0 + k)
  <2>1. 0 \in 0 .. Total /\ i \in 0 .. Total /\ i - 0 = i BY <1>0
  <2> QED BY <2>1, SliceType
<1>2. t \in Seq(Digit) /\ Len(t) = i /\ \A k \in 1 .. i : t[k] = stream.bytes[k] BY <1>0
<1>3. \A k \in 1 .. i : Byte(0 + k) = stream.bytes[k] BY <1>0 DEF Byte
<1> HIDE DEF s, t
<1>4. \A k \in 1 .. i : s[k] = t[k] BY <1>1, <1>2, <1>3
<1>5. s = t BY <1>1, <1>2, <1>4, SeqEqual
<1> QED BY <1>5 DEF s, t

\* A header without the wrong byte is read as it was sent.
LEMMA HeaderIntact ==
  ASSUME TypeOK, NEW b \in stream.bounds, b # Total, damaged \notin b + 1 .. b + HeaderLen
  PROVE  HeaderRead(b) = HeaderAt(stream, b) /\ HeaderKept(b)
<1> DEFINE s == Slice(b, b + HeaderLen)
           t == SubSeq(stream.bytes, b + 1, b + HeaderLen)
<1>1. s \in Seq(Digit) /\ Len(s) = HeaderLen /\ \A k \in 1 .. HeaderLen : s[k] = Byte(b + k)
  BY ReadIs
<1>2. /\ t \in Seq(Digit) /\ Len(t) = HeaderLen /\ \A k \in 1 .. HeaderLen : t[k] = stream.bytes[b + k]
      /\ b \in Nat /\ HeaderLen = 20 /\ RecordAt(stream, b)
  BY BoundIs
<1> HIDE DEF s, t
<1>3. \A k \in 1 .. HeaderLen : Byte(b + k) = stream.bytes[b + k]
  <2>1. b \in Nat /\ HeaderLen \in Nat BY <1>2
  <2>2. \A k \in 1 .. HeaderLen : b + k # damaged BY <2>1
  <2> QED BY <2>2 DEF Byte
<1>4. \A k \in 1 .. HeaderLen : s[k] = t[k] BY <1>1, <1>2, <1>3
<1>5. s = t BY <1>1, <1>2, <1>4, SeqEqual
<1>6. HeaderRead(b) = HeaderAt(stream, b) BY <1>5 DEF s, t, HeaderRead, HeaderAt
<1> QED BY <1>2, <1>6 DEF HeaderKept, RecordAt

\* And so is a stream without one.
LEMMA Undamaged ==
  ASSUME TypeOK, damaged = 0
  PROVE  /\ \A i \in 0 .. Total : Slice(0, i) = SubSeq(stream.bytes, 1, i)
         /\ \A b \in stream.bounds \ {Total} : HeaderRead(b) = HeaderAt(stream, b)
         /\ FramingKept
<1>1. \A i \in 0 .. Total : damaged \notin 1 .. i OBVIOUS
<1>2. \A b \in stream.bounds \ {Total} : damaged \notin b + 1 .. b + HeaderLen
  <2>1. \A b \in stream.bounds \ {Total} : b \in Nat BY BoundIs
  <2> QED BY <2>1
<1>3. \A b \in stream.bounds \ {Total} : HeaderRead(b) = HeaderAt(stream, b) /\ HeaderKept(b)
  BY <1>2, HeaderIntact
<1> QED BY <1>1, <1>3, SliceIntact DEF FramingKept

\* The magic of the first header shows the byte order of the sender: read the
\* other way, it is another number.
LEMMA MagicShowsOrder ==
  ASSUME NEW h \in Seq(Digit), Len(h) = HeaderLen, NEW sw \in BOOLEAN, Words(h, sw)[3] = Magic
  PROVE  (Words(h, FALSE)[3] # Magic) = sw
<1>1. Len(h) = 20 /\ WordLen = 2 BY DEF HeaderLen, WordLen
<1>2. 5 \in 1 .. Len(h) /\ 6 \in 1 .. Len(h) BY <1>1
<1>3. h[5] \in Digit /\ h[6] \in Digit BY <1>2, ElementOfSeq
<1>4. ASSUME NEW o \in BOOLEAN PROVE Words(h, o)[3] = Word(h[5], h[6], o)
  BY <1>1 DEF Words
<1>5. CASE sw = FALSE BY <1>5
<1>6. CASE sw = TRUE
  <2>1. Base \in Nat /\ Base > 3 /\ 1 \in Digit /\ 2 \in Digit BY ParserAssumption DEF Digit
  <2>2. Word(1, 2, TRUE) = Magic BY <2>1 DEF Word, Magic
  <2>3. h[5] = 1 /\ h[6] = 2
    <3>1. Word(1, 2, sw) = Magic BY <1>6, <2>2
    <3>2. Word(h[5], h[6], sw) = Word(1, 2, sw) BY <1>4, <3>1
    <3> QED BY <1>3, <2>1, <3>2, WordInjective
  <2>4. Words(h, FALSE)[3] = 1 + Base * 2 BY <1>4, <2>3 DEF Word
  <2>5. 1 + Base * 2 # Magic BY <2>1 DEF Magic
  <2> QED BY <1>6, <2>4, <2>5
<1> QED BY <1>5, <1>6

\* A header is read where a record starts, in the order of the sender, and both
\* sums that verify compares with are known.
LEMMA HeaderInStep ==
  ASSUME TypeOK, SumInv, InStep, Header, HeaderKept(0)
  PROVE  /\ Place \in stream.bounds /\ Place # Total /\ Mark = Place
         /\ Place = 0 <=> ~started
         /\ Swapped = stream.swapped
         /\ Field = HeaderRead(Place)
         /\ cksum = Update(ZeroSum, Slice(0, Place), stream.swapped)
         /\ SumBefore = Update(ZeroSum, Slice(0, Place + CksumOff), stream.swapped)
<1>0. /\ Place \in 0 .. at /\ at \in 0 .. sliced /\ sliced \in 0 .. cut /\ cut \in 0 .. Total
      /\ Total \in Nat /\ Place % 2 = 0
      /\ cksum = Update(ZeroSum, Slice(0, Place), swap) /\ swap \in BOOLEAN
  BY Positions
<1>1. at < sliced /\ remaining = 0 BY DEF Header
<1>2. Mark = Place BY <1>1 DEF Mark
<1>3. Place \in stream.bounds BY <1>2 DEF InStep
<1>4. Place # Total BY <1>0, <1>1
<1>5. Place = 0 <=> ~started BY <1>0, <1>2 DEF InStep
<1>6. TheHeader = Slice(Place, Place + HeaderLen) BY HeaderIs
<1>7. Swapped = stream.swapped
  <2>1. CASE started BY <2>1 DEF Swapped, InStep
  <2>2. CASE ~started
    <3>1. HeaderRead(Place)[3] = Magic BY <1>5, <2>2 DEF HeaderKept
    <3>2. Words(TheHeader, stream.swapped)[3] = Magic BY <1>6, <3>1 DEF HeaderRead
    <3>3. TheHeader \in Seq(Digit) /\ Len(TheHeader) = HeaderLen BY HeaderType
    <3>4. stream.swapped \in BOOLEAN BY StreamType DEF TypeOK
    <3>5. (Words(TheHeader, FALSE)[3] # Magic) = stream.swapped BY <3>2, <3>3, <3>4, MagicShowsOrder
    <3> QED BY <2>2, <3>5 DEF Swapped
  <2> QED BY <2>1, <2>2
<1>8. Field = HeaderRead(Place) BY <1>6, <1>7 DEF Field, HeaderRead
<1>9. stream.swapped \in BOOLEAN BY StreamType DEF TypeOK
<1>10. cksum = Update(ZeroSum, Slice(0, Place), stream.swapped)
  <2>1. CASE started BY <1>0, <2>1 DEF InStep
  <2>2. CASE ~started
    <3>1. Slice(0, 0) = <<>> BY DEF Slice
    <3> QED BY <1>0, <1>5, <1>9, <2>2, <3>1, ZeroType, UpdateEmpty
  <2> QED BY <2>1, <2>2
<1>11. SumBefore = Update(ZeroSum, Slice(0, Place + CksumOff), stream.swapped)
  <2>1. /\ Place \in 0 .. Total /\ Place + HeaderLen <= Total
        /\ HeaderLen = 20 /\ CksumOff = 12
    BY <1>0, <1>3, <1>4, BoundIs DEF CksumOff, WordLen
  <2>2. Place + CksumOff \in Place .. Total /\ Place + HeaderLen \in Place + CksumOff .. Total
        /\ (Place + CksumOff) - Place = CksumOff
    BY <1>0, <2>1
  <2>3. SubSeq(TheHeader, 1, CksumOff) = Slice(Place, Place + CksumOff)
    BY <1>6, <2>1, <2>2, SliceSub
  <2>4. SumBefore = Update(cksum, Slice(Place, Place + CksumOff), stream.swapped)
    BY <1>7, <2>3 DEF SumBefore
  <2> QED BY <1>0, <1>9, <1>10, <2>1, <2>2, <2>4, UpdateSlice
<1> QED BY <1>2, <1>3, <1>4, <1>5, <1>7, <1>8, <1>10, <1>11

\* That record is one whose header the damage may have kept.
LEMMA KeptHere ==
  ASSUME TypeOK, SumInv, InStep, Header
  PROVE  /\ Place \in stream.bounds \ {Total} /\ 0 \in stream.bounds \ {Total}
         /\ FramingKept => HeaderKept(0) /\ HeaderKept(Place)
<1>1. Place <= at /\ at < sliced /\ sliced <= Total /\ Place \in Nat /\ Total \in Nat
      /\ at \in Nat /\ sliced \in Nat
  BY Positions DEF Header
<1>2. Mark = Place BY DEF Mark, Header
<1>3. Place \in stream.bounds /\ 0 \in stream.bounds /\ Place # Total /\ 0 # Total
  BY <1>1, <1>2, StreamType DEF InStep, TypeOK
<1> QED BY <1>3 DEF FramingKept

\* What the parser takes from a header, and where the next record starts.
LEMMA RecordInStep ==
  ASSUME TypeOK, SumInv, InStep, Header, HeaderKept(0), HeaderKept(Place)
  PROVE  /\ RecordAt(stream, Place)
         /\ Type = TypeOf(HeaderAt(stream, Place))
         /\ PayloadLen = PayloadOf(HeaderAt(stream, Place)) /\ PayloadLen \in Nat
         /\ NextOf(stream, Place) = Place + HeaderLen + PayloadLen
         /\ NextOf(stream, Place) \in stream.bounds
         /\ Type = Begin <=> Place = 0
         /\ Type = End <=> NextOf(stream, Place) = Total
         /\ Type \in RecordTypes
<1>1. Place \in stream.bounds /\ Place # Total /\ Field = HeaderRead(Place) BY HeaderInStep
<1>2. RecordAt(stream, Place) /\ NextOf(stream, Place) \in stream.bounds BY <1>1, BoundIs
<1>3. Type = TypeOf(HeaderAt(stream, Place)) /\ PayloadLen = PayloadOf(HeaderAt(stream, Place))
  BY <1>1 DEF HeaderKept, Type, PayloadLen
<1>4. PayloadLen \in Nat /\ NextOf(stream, Place) = Place + HeaderLen + PayloadLen
  BY <1>1, <1>3, BoundIs
<1>5. /\ Type = Begin <=> Place = 0
      /\ Type = End <=> NextOf(stream, Place) = Total
      /\ Type \in RecordTypes
  BY <1>2, <1>3 DEF RecordAt, Total
<1> QED BY <1>2, <1>3, <1>4, <1>5

\* It goes there.
LEMMA RecordMoves ==
  ASSUME TypeOK, SumInv, InStep, Record, HeaderKept(0), HeaderKept(Place)
  PROVE  /\ at' = Place + HeaderLen /\ buf' = <<>> /\ remaining' = PayloadLen
         /\ Mark' = NextOf(stream, Place)
         /\ Total' = Total /\ stream' = stream
<1>1. /\ Header /\ at' = at + HeaderLen - Len(buf) /\ buf' = <<>> /\ remaining' = PayloadLen
      /\ UNCHANGED input
  BY DEF Record
<1>2. at' = Place + HeaderLen BY <1>1, HeaderIs
<1>3. /\ PayloadLen \in Nat /\ Place \in Nat /\ HeaderLen = 20
      /\ NextOf(stream, Place) = Place + HeaderLen + PayloadLen
  BY <1>1, RecordInStep, HeaderInStep, BoundIs
<1>4. Len(buf') = 0 BY <1>1
<1>5. at' - Len(buf') = at' BY <1>2, <1>3, <1>4
<1>6. Mark' = NextOf(stream, Place)
  <2>1. Mark' = IF remaining' > 0 THEN at' + remaining' ELSE at' - Len(buf') BY DEF Mark, Place
  <2> QED BY <1>1, <1>2, <1>3, <1>5, <2>1
<1>7. Total' = Total /\ stream' = stream BY <1>1, InputKept
<1> QED BY <1>1, <1>2, <1>6, <1>7

\* And is in step there: inside the stream after its BEGIN, finished after its END.
LEMMA TrackRecord ==
  ASSUME TypeOK, SumInv, InStep, Record, HeaderKept(0), HeaderKept(Place)
  PROVE  InStep'
<1> DEFINE next == NextOf(stream, Place)
<1>1. /\ Header /\ started' = TRUE /\ swap' = Swapped
      /\ depth' = CASE Type = Begin -> depth + 1 [] Type = End -> Max({depth - 1, 0}) [] OTHER -> depth
      /\ finished' = (finished \/ (Type = End /\ depth' = 0))
  BY DEF Record
<1>2. /\ at' = Place + HeaderLen /\ remaining' = PayloadLen /\ Mark' = next
      /\ Total' = Total /\ stream' = stream
  BY RecordMoves
<1>3. /\ RecordAt(stream, Place) /\ PayloadLen \in Nat /\ next = Place + HeaderLen + PayloadLen
      /\ next \in stream.bounds
      /\ Type = Begin <=> Place = 0
      /\ Type = End <=> next = Total
  BY <1>1, RecordInStep
<1>4. Place \in stream.bounds /\ Place # Total /\ Mark = Place /\ Swapped = stream.swapped
  BY <1>1, HeaderInStep
<1>5. Place \in Nat /\ HeaderLen = 20 /\ stream.bounds \subseteq 0 .. Total /\ Total \in Nat
  BY <1>4, BoundIs, StreamType DEF TypeOK
<1>6. \A c \in stream.bounds : c <= Place \/ c >= next BY <1>3 DEF RecordAt
<1> HIDE DEF next
<1>7. \A c \in stream.bounds : c < at' \/ c >= next BY <1>2, <1>5, <1>6
<1>8. next > 0 BY <1>3, <1>5
<1>9. /\ depth' = IF next = Total THEN 0 ELSE 1
      /\ finished' <=> next = Total
  <2>1. depth = (IF Place = 0 THEN 0 ELSE 1) /\ ~finished BY <1>4 DEF InStep
  <2>2. Max({1 - 1, 0}) = 0
    <3>1. 1 - 1 \in Int /\ 0 \in Int OBVIOUS
    <3>2. Max({1 - 1, 0}) = IF 1 - 1 >= 0 THEN 1 - 1 ELSE 0 BY <3>1, MinOfTwo, Zenon
    <3> QED BY <3>2
  <2>3. Begin # End BY DEF Begin, End
  <2>4. CASE Place = 0
    <3>1. Type = Begin /\ Type # End /\ next # Total BY <1>3, <2>3, <2>4
    <3>2. depth' = 1 BY <1>1, <2>1, <2>4, <3>1
    <3>3. ~finished' BY <1>1, <2>1, <3>1
    <3> QED BY <3>1, <3>2, <3>3
  <2>5. CASE Place # 0 /\ Type = End
    <3>1. Type # Begin /\ next = Total BY <1>3, <2>5
    <3>2. depth' = Max({depth - 1, 0}) BY <1>1, <2>5, <3>1
    <3>3. depth = 1 BY <2>1, <2>5
    <3>4. depth' = 0 BY <2>2, <3>2, <3>3
    <3>5. finished' BY <1>1, <2>5, <3>4
    <3> QED BY <3>1, <3>4, <3>5
  <2>6. CASE Place # 0 /\ Type # End
    <3>1. Type # Begin /\ next # Total BY <1>3, <2>6
    <3>2. depth' = depth BY <1>1, <2>6, <3>1
    <3>3. depth' = 1 BY <2>1, <2>6, <3>2
    <3>4. ~finished' BY <1>1, <2>1, <2>6
    <3> QED BY <3>1, <3>3, <3>4
  <2> QED BY <2>4, <2>5, <2>6
<1>10. swap' = stream.swapped BY <1>1, <1>4
<1>11. /\ Mark' \in stream'.bounds /\ swap' = stream'.swapped
       /\ remaining' > 0 => \A c \in stream'.bounds : c < at' \/ c >= Mark'
       /\ started' <=> Mark' > 0
       /\ depth' = IF Mark' \in {0, Total'} THEN 0 ELSE 1
       /\ finished' <=> Mark' = Total'
  BY <1>1, <1>2, <1>3, <1>7, <1>8, <1>9, <1>10
<1> QED BY <1>11 DEF InStep

\* A payload ends where the next record starts, with nothing left over.
LEMMA PayloadMoves ==
  ASSUME TypeOK, Payload
  PROVE  /\ Mark' = Mark /\ at' >= at /\ remaining > 0
         /\ remaining' > 0 => remaining' < remaining
<1> DEFINE take == Min({remaining, sliced - at})
           r == ChecksumRagged(cksum, buf, Slice(at, at + take))
           s == IF take = remaining THEN FlushRagged(r) ELSE r
<1>1. /\ at' = at + take /\ remaining' = remaining - take /\ buf' = s.buf
      /\ at < sliced /\ remaining > 0
  BY DEF Payload
<1>0. /\ at \in Nat /\ remaining \in Nat /\ sliced \in Nat /\ Total \in Nat
      /\ at <= sliced /\ sliced <= Total
  BY StreamType DEF TypeOK
<1>2. take \in 1 .. remaining /\ at + take \in at .. sliced
  <2>1. sliced - at \in Int /\ remaining \in Int BY <1>0
  <2>2. take = IF remaining <= sliced - at THEN remaining ELSE sliced - at
    BY <2>1, MinOfTwo, Zenon
  <2> HIDE DEF take
  <2> QED BY <1>0, <1>1, <2>2
<1>3. take = remaining => buf' = <<>>
  <2>1. cksum \in Sums /\ buf \in Seq(Digit) BY DEF TypeOK, Sums, Digit
  <2>2. Slice(at, at + take) \in Seq(Digit)
    <3>1. at \in 0 .. Total /\ at + take \in at .. Total
      <4> HIDE DEF take
      <4> QED BY <1>0, <1>2
    <3> QED BY <3>1, SliceType
  <2>3. FlushRagged(r).buf = <<>> BY <2>1, <2>2, RaggedType
  <2> QED BY <1>1, <2>3
<1> HIDE DEF take, s
<1>4. Mark' = IF remaining' > 0 THEN at' + remaining' ELSE at' - Len(buf') BY DEF Mark, Place
<1>5. Mark' = at + remaining
  <2>1. CASE take = remaining
    <3>1. remaining' = 0 /\ Len(buf') = 0 BY <1>0, <1>1, <1>3, <2>1
    <3>2. at' = at + remaining BY <1>1, <2>1
    <3> QED BY <1>0, <1>4, <3>1, <3>2
  <2>2. CASE take # remaining
    <3>1. remaining' > 0 /\ at' + remaining' = at + remaining BY <2>2, <1>0, <1>1, <1>2
    <3> QED BY <1>4, <3>1
  <2> QED BY <2>1, <2>2
<1>6. Mark = at + remaining BY <1>1 DEF Mark
<1> QED BY <1>0, <1>1, <1>2, <1>5, <1>6

\* No record starts in it.
LEMMA PayloadTracks == ASSUME TypeOK, InStep, Payload PROVE InStep'
<1>1. Mark' = Mark /\ at' >= at /\ remaining > 0 BY PayloadMoves
<1>2. UNCHANGED <<input, swap, started, depth, finished>> BY DEF Payload
<1>3. Total' = Total /\ stream' = stream BY <1>2, InputKept
<1>4. \A c \in stream.bounds : c < at' \/ c >= Mark
  <2>1. \A c \in stream.bounds : c < at \/ c >= Mark BY <1>1 DEF InStep
  <2>2. at \in Nat /\ at' \in Int /\ stream.bounds \subseteq Nat
    <3>1. at' = at + Min({remaining, sliced - at}) BY DEF Payload
    <3>2. at \in Nat /\ sliced \in Nat /\ remaining \in Nat BY DEF TypeOK
    <3>3. Min({remaining, sliced - at}) \in Int
      <4>1. sliced - at \in Int /\ remaining \in Int BY <3>2
      <4> QED BY <4>1, MinOfTwo
    <3>4. stream.bounds \subseteq 0 .. Total BY StreamType DEF TypeOK
    <3> QED BY <3>1, <3>2, <3>3, <3>4
  <2> QED BY <1>1, <2>1, <2>2
<1> QED BY <1>1, <1>2, <1>3, <1>4 DEF InStep

\* A part of a header moves nothing.
LEMMA PartHeaderMoves ==
  ASSUME TypeOK, SumInv, PartHeader
  PROVE  Mark' = Mark /\ remaining' = 0
<1>1. remaining = 0 /\ remaining' = 0 /\ buf' = buf \o Slice(at, sliced) /\ at' = sliced
  BY DEF PartHeader
<1>2. /\ buf \in Seq(Digit) /\ at \in 0 .. Total /\ sliced \in at .. Total
      /\ Len(buf) \in Nat /\ at \in Nat /\ sliced \in Nat
  BY Positions DEF TypeOK
<1> DEFINE s == Slice(at, sliced)
<1>3. s \in Seq(Digit) /\ Len(s) = sliced - at BY <1>2, SliceType
<1> HIDE DEF s
<1>4. Len(buf \o s) = Len(buf) + Len(s) BY <1>2, <1>3, ConcatProperties, Zenon
<1>5. Len(buf') = Len(buf) + (sliced - at) BY <1>1, <1>3, <1>4 DEF s
<1>6. at' - Len(buf') = at - Len(buf) BY <1>1, <1>2, <1>5
<1> QED BY <1>1, <1>6 DEF Mark, Place

\* So the parser stays in step.
LEMMA PartHeaderTracks ==
  ASSUME TypeOK, SumInv, PartHeader
  PROVE  Mark' = Mark /\ (InStep => InStep')
<1>1. Mark' = Mark /\ remaining' = 0 BY PartHeaderMoves
<1>2. UNCHANGED <<input, swap, started, depth, finished>> BY DEF PartHeader
<1>3. Total' = Total /\ stream' = stream BY <1>2, InputKept
<1> QED BY <1>1, <1>2, <1>3 DEF InStep

\* Steps that leave all this alone.
LEMMA StillInStep ==
  ASSUME UNCHANGED <<input, at, buf, remaining, swap, started, depth, finished>>
  PROVE  Mark' = Mark /\ (InStep => InStep')
<1>1. /\ at' = at /\ buf' = buf /\ remaining' = remaining /\ swap' = swap /\ started' = started
      /\ depth' = depth /\ finished' = finished /\ UNCHANGED input
  OBVIOUS
<1>2. Mark' = Mark BY <1>1 DEF Mark, Place
<1>3. Total' = Total /\ stream' = stream BY <1>1, InputKept
<1> QED BY <1>1, <1>2, <1>3 DEF InStep

\* The first record starts at the first byte.
LEMMA StartInStep == Init => InStep /\ Mark = 0 /\ Total # 0
<1> SUFFICES ASSUME Init PROVE InStep /\ Mark = 0 /\ Total # 0
  OBVIOUS
<1>1. /\ at = 0 /\ buf = <<>> /\ remaining = 0 /\ started = FALSE /\ depth = 0 /\ finished = FALSE
      /\ stream \in Streams
  BY DEF Init
<1>2. Len(buf) = 0 BY <1>1
<1>3. at - Len(buf) = 0 - 0 BY <1>1, <1>2, Zenon
<1>4. Mark = 0 BY <1>1, <1>3 DEF Mark, Place
<1>5. 0 \in stream.bounds /\ Total # 0 BY <1>1, StreamType
<1> QED BY <1>1, <1>4, <1>5 DEF InStep

\* Every step stays in step.
LEMMA TrackNext == TypeOK /\ SumInv /\ TrackInv /\ [Next]_vars => TrackInv'
<1> SUFFICES ASSUME TypeOK, SumInv, TrackInv, [Next]_vars, FramingKept' PROVE InStep'
  BY DEF TrackInv
<1>0. UNCHANGED input
  BY DEF Next, vars, Read, Payload, PartHeader, Record, Refuse, Finish
<1>00. FramingKept /\ InStep BY <1>0, InputKept DEF TrackInv
<1>1. ASSUME NEW n \in SliceLens, Read(n) PROVE InStep' BY <1>00, <1>1, StillInStep DEF Read
<1>2. CASE Payload BY <1>00, <1>2, PayloadTracks
<1>3. CASE PartHeader BY <1>00, <1>3, PartHeaderTracks
<1>4. CASE Record
  <2>1. HeaderKept(0) /\ HeaderKept(Place) BY <1>00, <1>4, KeptHere DEF Record
  <2> QED BY <1>00, <1>4, <2>1, TrackRecord
<1>5. CASE Refuse BY <1>00, <1>5, StillInStep DEF Refuse
<1>6. CASE Finish BY <1>00, <1>6, StillInStep DEF Finish
<1>7. CASE UNCHANGED vars BY <1>00, <1>7, StillInStep DEF vars
<1> QED BY <1>1, <1>2, <1>3, <1>4, <1>5, <1>6, <1>7 DEF Next

(***************************************************************************)
(* The verdict.                                                            *)
(***************************************************************************)
\* There is no verdict at first.
LEMMA EndInit == Init => EndInv
<1> SUFFICES ASSUME Init PROVE EndInv
  OBVIOUS
<1>1. verdict = "none" /\ (damaged = 0 \/ cut = Total) BY DEF Init
<1> QED BY <1>1 DEF EndInv

\* Finish gives it, at the last byte.
LEMMA EndNext == EndInv /\ [Next]_vars => EndInv'
<1> SUFFICES ASSUME EndInv, [Next]_vars PROVE EndInv'
  OBVIOUS
<1>0. UNCHANGED input
  BY DEF Next, vars, Read, Payload, PartHeader, Record, Refuse, Finish
<1>00. Total' = Total /\ damaged' = damaged /\ cut' = cut BY <1>0, InputKept
<1>1. ASSUME NEW n \in SliceLens, Read(n) PROVE EndInv' BY <1>00, <1>1 DEF Read, EndInv
<1>2. CASE Payload BY <1>00, <1>2 DEF Payload, EndInv
<1>3. CASE PartHeader BY <1>00, <1>3 DEF PartHeader, EndInv
<1>4. CASE Record BY <1>00, <1>4 DEF Record, Header, EndInv
<1>5. CASE Refuse BY <1>00, <1>5 DEF Refuse, EndInv
<1>6. CASE Finish BY <1>00, <1>6 DEF Finish, EndInv
<1>7. CASE UNCHANGED vars BY <1>00, <1>7 DEF vars, EndInv
<1> QED BY <1>1, <1>2, <1>3, <1>4, <1>5, <1>6, <1>7 DEF Next

\* A record that was not damaged is not refused, and the END has the stream's total.
LEMMA GoodRecord ==
  ASSUME TypeOK, SumInv, InStep, Header, damaged = 0
  PROVE  ~Refused /\ (Type = End => Union = stream.total)
<1>1. FramingKept /\ HeaderRead(Place) = HeaderAt(stream, Place)
      /\ \A i \in 0 .. Total : Slice(0, i) = SubSeq(stream.bytes, 1, i)
  <2>1. Place \in stream.bounds \ {Total} BY KeptHere
  <2> QED BY <2>1, Undamaged
<1>01. HeaderKept(0) /\ HeaderKept(Place) BY <1>1, KeptHere
<1>2. /\ Place \in stream.bounds /\ Place # Total /\ (Place = 0 <=> ~started)
      /\ Field = HeaderAt(stream, Place)
      /\ cksum = Update(ZeroSum, Slice(0, Place), stream.swapped)
      /\ SumBefore = Update(ZeroSum, Slice(0, Place + CksumOff), stream.swapped)
  BY <1>01, <1>1, HeaderInStep
<1>3. Place \in 0 .. Total /\ Place + CksumOff \in 0 .. Total
  <2>1. Place \in Nat /\ Total \in Nat /\ Place + HeaderLen <= Total /\ HeaderLen = 20 /\ CksumOff = 12
    BY <1>2, BoundIs DEF CksumOff, WordLen
  <2> QED BY <2>1
<1>4. cksum = SumAt(stream, Place) /\ SumBefore = SumAt(stream, Place + CksumOff)
  BY <1>1, <1>2, <1>3 DEF SumAt
<1>5. /\ RecordAt(stream, Place) /\ Type = TypeOf(HeaderAt(stream, Place))
      /\ PayloadLen = PayloadOf(HeaderAt(stream, Place))
      /\ Type = Begin <=> Place = 0
      /\ Type \in RecordTypes
  BY <1>01, RecordInStep
<1>6. Union = UnionOf(HeaderAt(stream, Place)) /\ Embedded = EmbeddedOf(HeaderAt(stream, Place))
  BY <1>2 DEF Union, Embedded
<1>7. /\ Type = End => Union = stream.total /\ stream.total \in {ZeroSum, cksum}
      /\ Type # Begin => Embedded \in {ZeroSum, SumBefore}
      /\ PayloadLen % WordLen = 0
      /\ Place = 0 => Field[3] = Magic
  BY <1>2, <1>4, <1>5, <1>6 DEF RecordAt
<1>8. ~BadSum BY <1>7 DEF BadSum
<1> QED BY <1>2, <1>5, <1>7, <1>8 DEF Refused

\* No END is read at first.
LEMMA JudgeInit == Init => JudgeInv
<1>1. Init => ends = <<>> /\ verdict = "none" BY DEF Init
<1> QED BY <1>1, StartInStep DEF JudgeInv

\* A good stream is not refused by any step.
LEMMA JudgeNext == TypeOK /\ SumInv /\ TrackInv /\ JudgeInv /\ [Next]_vars => JudgeInv'
<1> SUFFICES ASSUME TypeOK, SumInv, TrackInv, JudgeInv, [Next]_vars, damaged' = 0
             PROVE  /\ verdict' # "refused"
                    /\ ends' = IF Mark' = Total' THEN <<stream'.total>> ELSE <<>>
  BY DEF JudgeInv
<1>0. UNCHANGED input
  BY DEF Next, vars, Read, Payload, PartHeader, Record, Refuse, Finish
<1>00. Total' = Total /\ stream' = stream /\ damaged = 0 BY <1>0, InputKept
<1>01. FramingKept /\ InStep BY <1>00, Undamaged DEF TrackInv
<1>02. verdict # "refused" /\ ends = IF Mark = Total THEN <<stream.total>> ELSE <<>>
  BY <1>00 DEF JudgeInv
<1> DEFINE Goal == /\ verdict' # "refused"
                   /\ ends' = IF Mark' = Total' THEN <<stream'.total>> ELSE <<>>
<1>1. ASSUME NEW n \in SliceLens, Read(n) PROVE Goal BY <1>00, <1>02, <1>1, StillInStep DEF Read
<1>2. CASE Payload BY <1>00, <1>02, <1>2, PayloadMoves DEF Payload
<1>3. CASE PartHeader BY <1>00, <1>02, <1>3, PartHeaderMoves DEF PartHeader
<1>4. CASE Record
  <2>1. Header /\ verdict' = verdict /\ ends' = IF Type = End THEN Append(ends, Union) ELSE ends
    BY <1>4 DEF Record
  <2>8. HeaderKept(0) /\ HeaderKept(Place) BY <1>01, <2>1, KeptHere
  <2>2. Mark' = NextOf(stream, Place) BY <1>01, <1>4, <2>8, RecordMoves
  <2>3. Mark = Place /\ Place # Total BY <1>01, <2>1, <2>8, HeaderInStep
  <2>4. Type = End <=> NextOf(stream, Place) = Total BY <1>01, <2>1, <2>8, RecordInStep
  <2>5. Type = End => Union = stream.total BY <1>00, <1>01, <2>1, GoodRecord
  <2>6. ends = <<>> BY <1>02, <2>3
  <2>7. \A x : Append(<<>>, x) = <<x>> OBVIOUS
  <2> QED BY <1>00, <1>02, <2>1, <2>2, <2>4, <2>5, <2>6, <2>7
<1>5. CASE Refuse BY <1>00, <1>01, <1>5, GoodRecord DEF Refuse
<1>6. CASE Finish
  <2>1. verdict' # "refused" /\ ends' = ends BY <1>6 DEF Finish
  <2> QED BY <1>00, <1>02, <1>6, <2>1, StillInStep DEF Finish
<1>7. CASE UNCHANGED vars BY <1>00, <1>02, <1>7, StillInStep DEF vars
<1> QED BY <1>1, <1>2, <1>3, <1>4, <1>5, <1>6, <1>7 DEF Next

(***************************************************************************)
(* Damage is caught.                                                       *)
(***************************************************************************)
\* The wrong byte is not the one that was sent.
LEMMA DamagedByte ==
  ASSUME TypeOK, damaged > 0
  PROVE  Byte(damaged) # stream.bytes[damaged]
<1>1. damaged \in 1 .. Total /\ Total \in Nat BY StreamType DEF TypeOK
<1>2. stream.bytes[damaged] \in Digit BY <1>1, StreamType DEF TypeOK, Total
<1>3. by \in 1 .. Base - 1 /\ Base \in Nat BY ParserAssumption DEF TypeOK
<1> DEFINE x == stream.bytes[damaged]
<1> HIDE DEF x
<1>4. x \in 0 .. Base - 1 BY <1>2 DEF Digit, x
<1>5. (x + by) % Base # x
  <2>1. CASE x + by < Base BY <1>3, <1>4, <2>1
  <2>2. CASE x + by >= Base
    <3>1. x + by - Base \in 0 .. Base - 1 /\ x + by - Base # x BY <1>3, <1>4, <2>2
    <3>2. (x + by) % Base = x + by - Base BY <1>3, <1>4, <2>2
    <3> QED BY <3>1, <3>2
  <2> QED BY <1>3, <1>4, <2>1, <2>2
<1> QED BY <1>5 DEF Byte, x

\* It shows in every sum that covers it.
LEMMA DamagedSum ==
  ASSUME TypeOK, NEW i \in 0 .. Total, i % 2 = 0, damaged \in 1 .. i
  PROVE  Update(ZeroSum, Slice(0, i), stream.swapped) # SumAt(stream, i)
<1>0. Total \in Nat /\ stream.bytes \in Seq(Digit) /\ Len(stream.bytes) = Total /\ stream.swapped \in BOOLEAN
  BY StreamType DEF TypeOK, Total
<1> DEFINE s == Slice(0, i)
           t == SubSeq(stream.bytes, 1, i)
<1>1. s \in Seq(Digit) /\ Len(s) = i /\ \A k \in 1 .. i : s[k] = Byte(k)
  <2>1. 0 \in 0 .. Total /\ i \in 0 .. Total /\ i - 0 = i BY <1>0
  <2>2. s \in Seq(Digit) /\ Len(s) = i /\ \A k \in 1 .. i : s[k] = Byte(0 + k) BY <2>1, SliceType
  <2>3. \A k \in 1 .. i : 0 + k = k OBVIOUS
  <2> HIDE DEF s
  <2> QED BY <2>2, <2>3
<1>2. t \in Seq(Digit) /\ Len(t) = i /\ \A k \in 1 .. i : t[k] = stream.bytes[k] BY <1>0
<1> HIDE DEF s, t
<1>3. s[damaged] # t[damaged] BY <1>1, <1>2, DamagedByte
<1>4. \A k \in 1 .. Len(s) : k # damaged => s[k] = t[k] BY <1>1, <1>2 DEF Byte
<1>5. Len(s) = Len(t) /\ Len(s) % 2 = 0 /\ damaged \in 1 .. Len(s) BY <1>1, <1>2
<1>6. Update(ZeroSum, s, stream.swapped)[1] # Update(ZeroSum, t, stream.swapped)[1]
  BY <1>0, <1>1, <1>2, <1>3, <1>4, <1>5, ZeroType, UpdateTellsApart
<1> QED BY <1>6 DEF s, t, SumAt

\* The words of the checksum in a header.
LEMMA HeaderBytes ==
  ASSUME TypeOK, NEW b \in stream.bounds, b # Total
  PROVE  /\ EmbeddedOf(HeaderRead(b)) \in Sums /\ EmbeddedOf(HeaderAt(stream, b)) \in Sums
         /\ \A i \in 1 .. 4 :
              /\ EmbeddedOf(HeaderRead(b))[i]
                   = Word(Byte(b + 2 * i + 11), Byte(b + 2 * i + 12), stream.swapped)
              /\ EmbeddedOf(HeaderAt(stream, b))[i]
                   = Word(stream.bytes[b + 2 * i + 11], stream.bytes[b + 2 * i + 12], stream.swapped)
<1> DEFINE s == Slice(b, b + HeaderLen)
           t == SubSeq(stream.bytes, b + 1, b + HeaderLen)
<1>1. /\ s \in Seq(Digit) /\ Len(s) = 20 /\ \A k \in 1 .. 20 : s[k] = Byte(b + k)
      /\ stream.swapped \in BOOLEAN /\ HeaderLen = 20
  BY ReadIs DEF HeaderLen, WordLen
<1>2. /\ t \in Seq(Digit) /\ Len(t) = 20 /\ \A k \in 1 .. 20 : t[k] = stream.bytes[b + k]
      /\ b \in Nat
  BY BoundIs
<1> HIDE DEF s, t
<1>3. ASSUME NEW h \in {s, t}
      PROVE  /\ EmbeddedOf(Words(h, stream.swapped)) \in Sums
             /\ \A i \in 1 .. 4 : EmbeddedOf(Words(h, stream.swapped))[i]
                                    = Word(h[2 * i + 11], h[2 * i + 12], stream.swapped)
  <2>1. h \in Seq(Digit) /\ Len(h) = 20 /\ Len(h) = HeaderLen BY <1>1, <1>2
  <2>2. /\ EmbeddedOf(Words(h, stream.swapped)) \in Sums
        /\ \A i \in 1 .. 4 : EmbeddedOf(Words(h, stream.swapped))[i] = Words(h, stream.swapped)[i + 6]
    BY <1>1, <2>1, HeaderWords
  <2>3. Words(h, stream.swapped)
          = [i \in 1 .. 10 |-> Word(h[2 * i - 1], h[2 * i], stream.swapped)]
    BY <2>1 DEF Words, WordLen
  <2>4. \A i \in 1 .. 4 : i + 6 \in 1 .. 10 /\ 2 * (i + 6) - 1 = 2 * i + 11 /\ 2 * (i + 6) = 2 * i + 12
    OBVIOUS
  <2> QED BY <2>2, <2>3, <2>4
<1>4. \A i \in 1 .. 4 :
        /\ 2 * i + 11 \in 1 .. 20 /\ 2 * i + 12 \in 1 .. 20
        /\ b + (2 * i + 11) = b + 2 * i + 11 /\ b + (2 * i + 12) = b + 2 * i + 12
  <2>1. b \in Nat BY BoundIs
  <2> QED BY <2>1
<1>5. HeaderRead(b) = Words(s, stream.swapped) /\ HeaderAt(stream, b) = Words(t, stream.swapped)
  BY DEF HeaderRead, HeaderAt, s, t
<1>6. EmbeddedOf(HeaderRead(b)) \in Sums /\ EmbeddedOf(HeaderAt(stream, b)) \in Sums BY <1>3, <1>5
<1>7. ASSUME NEW i \in 1 .. 4
      PROVE  /\ EmbeddedOf(HeaderRead(b))[i]
                   = Word(Byte(b + 2 * i + 11), Byte(b + 2 * i + 12), stream.swapped)
             /\ EmbeddedOf(HeaderAt(stream, b))[i]
                   = Word(stream.bytes[b + 2 * i + 11], stream.bytes[b + 2 * i + 12], stream.swapped)
  <2>1. s[2 * i + 11] = Byte(b + 2 * i + 11) /\ s[2 * i + 12] = Byte(b + 2 * i + 12) BY <1>1, <1>4
  <2>2. t[2 * i + 11] = stream.bytes[b + 2 * i + 11] /\ t[2 * i + 12] = stream.bytes[b + 2 * i + 12]
    <3>1. /\ t[2 * i + 11] = stream.bytes[b + (2 * i + 11)]
          /\ t[2 * i + 12] = stream.bytes[b + (2 * i + 12)]
      BY <1>2, <1>4
    <3> QED BY <1>4, <3>1
  <2> QED BY <1>3, <1>5, <2>1, <2>2
<1> QED BY <1>6, <1>7

\* That checksum changes if one of its bytes does, and only then.
LEMMA DamagedEmbedded ==
  ASSUME TypeOK, NEW b \in stream.bounds, b # Total
  PROVE  EmbeddedOf(HeaderRead(b)) = EmbeddedOf(HeaderAt(stream, b))
           <=> damaged \notin b + CksumOff + 1 .. b + HeaderLen
<1> DEFINE r == EmbeddedOf(HeaderRead(b))
           a == EmbeddedOf(HeaderAt(stream, b))
<1>0. b \in Nat /\ Total \in Nat /\ b + 20 <= Total /\ HeaderLen = 20 /\ CksumOff = 12 /\ damaged \in Nat
      /\ stream.swapped \in BOOLEAN
  BY BoundIs, ReadIs DEF CksumOff, WordLen, TypeOK
<1>1. /\ r \in Sums /\ a \in Sums
      /\ \A i \in 1 .. 4 :
           /\ r[i] = Word(Byte(b + 2 * i + 11), Byte(b + 2 * i + 12), stream.swapped)
           /\ a[i] = Word(stream.bytes[b + 2 * i + 11], stream.bytes[b + 2 * i + 12], stream.swapped)
  BY HeaderBytes
<1> HIDE DEF r, a
<1>2. CASE damaged \notin b + CksumOff + 1 .. b + HeaderLen
  <2>1. \A i \in 1 .. 4 : b + 2 * i + 11 # damaged /\ b + 2 * i + 12 # damaged BY <1>0, <1>2
  <2>2. \A i \in 1 .. 4 : r[i] = a[i] BY <1>1, <2>1 DEF Byte
  <2>3. r = a BY <1>1, <2>2 DEF Sums
  <2> QED BY <1>2, <2>3 DEF r, a
<1>3. CASE damaged \in b + CksumOff + 1 .. b + HeaderLen
  <2>1. PICK i \in 1 .. 4 : damaged = b + 2 * i + 11 \/ damaged = b + 2 * i + 12
    <3>1. damaged - b \in 13 .. 20 /\ damaged = b + (damaged - b) BY <1>0, <1>3
    <3>2. \/ damaged = b + 2 * 1 + 11 \/ damaged = b + 2 * 1 + 12
          \/ damaged = b + 2 * 2 + 11 \/ damaged = b + 2 * 2 + 12
          \/ damaged = b + 2 * 3 + 11 \/ damaged = b + 2 * 3 + 12
          \/ damaged = b + 2 * 4 + 11 \/ damaged = b + 2 * 4 + 12
      BY <1>0, <3>1
    <3> QED BY <3>2
  <2> DEFINE x == b + 2 * i + 11
             y == b + 2 * i + 12
  <2>2. x \in 1 .. Total /\ y \in 1 .. Total BY <1>0
  <2>3. /\ r[i] = Word(Byte(x), Byte(y), stream.swapped)
        /\ a[i] = Word(stream.bytes[x], stream.bytes[y], stream.swapped)
    BY <1>1
  <2>4. damaged = x \/ damaged = y BY <2>1
  <2> HIDE DEF x, y
  <2>5. Byte(x) \in Digit /\ Byte(y) \in Digit /\ stream.bytes[x] \in Digit /\ stream.bytes[y] \in Digit
    BY <2>2, ByteType, StreamType DEF TypeOK, Total
  <2>6. Byte(x) # stream.bytes[x] \/ Byte(y) # stream.bytes[y]
    <3>1. damaged > 0 BY <2>2, <2>4
    <3> QED BY <2>4, <3>1, DamagedByte
  <2>7. r[i] # a[i] BY <1>0, <2>3, <2>5, <2>6, WordInjective
  <2> QED BY <1>3, <2>7 DEF r, a
<1> QED BY <1>2, <1>3

\* A record that holds its checksum is refused when a byte is wrong before its end.
LEMMA BadRecord ==
  ASSUME TypeOK, SumInv, InStep, Header, HeaderKept(0),
         damaged > 0, damaged <= Place + HeaderLen, Place # 0, Type # Begin, Sealed(Place)
  PROVE  Refused
<1> DEFINE b == Place
           r == EmbeddedOf(HeaderRead(b))
           a == EmbeddedOf(HeaderAt(stream, b))
<1>1. /\ b \in stream.bounds /\ b # Total /\ Field = HeaderRead(b)
      /\ SumBefore = Update(ZeroSum, Slice(0, b + CksumOff), stream.swapped)
  BY HeaderInStep
<1>2. RecordAt(stream, b) BY <1>1, BoundIs
<1>3. a # ZeroSum /\ r # ZeroSum BY DEF Sealed
<1>4. a = SumAt(stream, b + CksumOff) BY <1>2, <1>3 DEF RecordAt
<1>5. b \in Nat /\ HeaderLen = 20 /\ CksumOff = 12 /\ Total \in Nat /\ b + HeaderLen <= Total
      /\ b % 2 = 0 /\ damaged \in 1 .. b + HeaderLen
  <2>1. b \in Nat /\ HeaderLen = 20 /\ Total \in Nat /\ b + HeaderLen <= Total BY <1>1, BoundIs
  <2> QED BY <2>1 DEF SumInv, CksumOff, WordLen, TypeOK
<1>6. Embedded = r BY <1>1 DEF Embedded
<1> HIDE DEF b, r, a
<1>7. r # SumBefore
  <2>0. b + CksumOff \in 0 .. Total /\ (b + CksumOff) % 2 = 0 BY <1>5
  <2>1. CASE damaged \in 1 .. b + CksumOff
    <3>1. SumBefore # SumAt(stream, b + CksumOff) BY <1>1, <2>0, <2>1, DamagedSum
    <3>2. damaged \notin b + CksumOff + 1 .. b + HeaderLen BY <1>5, <2>1
    <3>3. r = a BY <1>1, <3>2, DamagedEmbedded DEF r, a
    <3> QED BY <1>4, <3>1, <3>3
  <2>2. CASE damaged \notin 1 .. b + CksumOff
    <3>1. SumBefore = SumAt(stream, b + CksumOff) BY <1>1, <2>0, <2>2, SliceIntact DEF SumAt
    <3>2. damaged \in b + CksumOff + 1 .. b + HeaderLen BY <1>5, <2>2
    <3>3. r # a BY <1>1, <3>2, DamagedEmbedded DEF r, a
    <3> QED BY <1>4, <3>1, <3>3
  <2> QED BY <2>1, <2>2
<1>8. BadSum BY <1>3, <1>6, <1>7 DEF BadSum
<1> QED BY <1>8 DEF Refused

\* So a record that is taken keeps the parser in step, and is not the END.
LEMMA TakenRecord ==
  ASSUME TypeOK, SumInv, InStep, Record, damaged > 0, Covered
  PROVE  /\ HeaderKept(0) /\ HeaderKept(Place)
         /\ NextOf(stream, Place) # Total
<1>0. Header /\ ~Refused BY DEF Record
<1>1. Place \in stream.bounds \ {Total} /\ HeaderKept(0) BY <1>0, KeptHere DEF Covered, AllSealed
<1>2. Field = HeaderRead(Place) /\ RecordAt(stream, Place) /\ Place \in Nat /\ HeaderLen = 20
      /\ damaged \in 1 .. Total /\ Total \in Nat
      /\ NextOf(stream, Place) = Place + HeaderLen + PayloadOf(HeaderAt(stream, Place))
  BY <1>0, <1>1, HeaderInStep, BoundIs DEF TypeOK
(* The END has no payload: it would end after the wrong byte.              *)
<1>3. NextOf(stream, Place) = Total
        => Place # 0 /\ TypeOf(HeaderAt(stream, Place)) = End /\ damaged <= Place + HeaderLen
  <2> SUFFICES ASSUME NextOf(stream, Place) = Total
               PROVE  Place # 0 /\ TypeOf(HeaderAt(stream, Place)) = End /\ damaged <= Place + HeaderLen
    OBVIOUS
  <2>1. TypeOf(HeaderAt(stream, Place)) = End BY <1>2 DEF RecordAt, Total
  <2>2. Place # 0 BY <1>2, <2>1 DEF RecordAt, Begin, End
  <2>3. PayloadOf(HeaderAt(stream, Place)) = 0
    BY <2>1 DEF PayloadOf, Begin, Object, Write, Spill, WriteEmbedded, End
  <2> QED BY <1>2, <2>1, <2>2, <2>3
<1>4. CASE AllSealed
  <2>1. Place # 0 => Type # Begin /\ Sealed(Place)
    BY <1>1, <1>2, <1>4 DEF AllSealed, Type
  <2>2. Place # 0 => damaged > Place + HeaderLen
    <3>1. Place # 0 /\ damaged <= Place + HeaderLen => Refused BY <1>0, <1>1, <2>1, BadRecord
    <3> QED BY <1>0, <1>2, <3>1
  <2>3. HeaderKept(Place)
    <3>1. CASE Place = 0 BY <1>1, <3>1
    <3>2. CASE Place # 0
      <4>1. damaged \notin Place + 1 .. Place + HeaderLen BY <1>2, <2>2, <3>2
      <4> QED BY <1>1, <4>1, HeaderIntact
    <3> QED BY <3>1, <3>2
  <2>4. NextOf(stream, Place) # Total BY <1>2, <1>3, <2>2
  <2> QED BY <1>1, <2>3, <2>4
<1>5. CASE FramingKept /\ EndSealed
  <2>1. HeaderKept(Place) BY <1>1, <1>5 DEF FramingKept
  <2>2. NextOf(stream, Place) # Total
    <3> SUFFICES ASSUME NextOf(stream, Place) = Total PROVE FALSE
      OBVIOUS
    <3>1. Type = End BY <1>2, <1>3, <2>1 DEF HeaderKept, Type
    <3>2. Type # Begin BY <3>1 DEF Begin, End
    <3>3. Sealed(Place) BY <1>1, <1>3, <1>5 DEF EndSealed
    <3> QED BY <1>0, <1>1, <1>3, <3>2, <3>3, BadRecord
  <2> QED BY <1>1, <2>1, <2>2
<1> QED BY <1>4, <1>5 DEF Covered

\* No step reaches the end of a damaged stream.
LEMMA CatchNext == TypeOK /\ SumInv /\ CatchInv /\ [Next]_vars => CatchInv'
<1> SUFFICES ASSUME TypeOK, SumInv, CatchInv, [Next]_vars,
                    damaged' > 0, Covered'
             PROVE  InStep' /\ Mark' # Total'
  BY DEF CatchInv
<1>0. UNCHANGED input
  BY DEF Next, vars, Read, Payload, PartHeader, Record, Refuse, Finish
<1>00. /\ Total' = Total /\ stream' = stream
       /\ damaged > 0 /\ Covered
  BY <1>0, InputKept
<1>01. InStep /\ Mark # Total BY <1>00 DEF CatchInv
<1>1. ASSUME NEW n \in SliceLens, Read(n) PROVE InStep' /\ Mark' # Total'
  BY <1>00, <1>01, <1>1, StillInStep DEF Read
<1>2. CASE Payload BY <1>00, <1>01, <1>2, PayloadMoves, PayloadTracks
<1>3. CASE PartHeader BY <1>00, <1>01, <1>3, PartHeaderTracks
<1>4. CASE Record
  <2>1. HeaderKept(0) /\ HeaderKept(Place) /\ NextOf(stream, Place) # Total
    BY <1>00, <1>01, <1>4, TakenRecord
  <2> QED BY <1>00, <1>01, <1>4, <2>1, RecordMoves, TrackRecord
<1>5. CASE Refuse BY <1>00, <1>01, <1>5, StillInStep DEF Refuse
<1>6. CASE Finish BY <1>00, <1>01, <1>6, StillInStep DEF Finish
<1>7. CASE UNCHANGED vars BY <1>00, <1>01, <1>7, StillInStep DEF vars
<1> QED BY <1>1, <1>2, <1>3, <1>4, <1>5, <1>6, <1>7 DEF Next

(***************************************************************************)
(* The theorems.                                                           *)
(***************************************************************************)
\* The inductive invariant.
THEOREM Invariance == Spec => []IInv
<1>1. Init => SumInv /\ EndInv /\ TrackInv /\ JudgeInv /\ CatchInv
  BY SumInit, EndInit, StartInStep, JudgeInit DEF TrackInv, CatchInv
<1>2. TypeOK /\ SumInv /\ EndInv /\ TrackInv /\ JudgeInv /\ CatchInv /\ [Next]_vars
        => (SumInv /\ EndInv /\ TrackInv /\ JudgeInv /\ CatchInv)'
  BY SumNext, EndNext, TrackNext, JudgeNext, CatchNext
<1> QED BY <1>1, <1>2, TypeCorrect, PTL DEF Spec, IInv

\* What it says when there is a verdict.
LEMMA Judged == IInv => JudgedByItsLength
<1> SUFFICES ASSUME IInv, damaged = 0, verdict # "none"
             PROVE  /\ verdict = IF cut \in stream.bounds THEN "ok" ELSE "truncated"
                    /\ cut = Total => finished /\ ends = <<stream.total>>
  BY DEF JudgedByItsLength
<1>1. TypeOK /\ SumInv /\ EndInv /\ InStep /\ FramingKept BY Undamaged DEF IInv, TrackInv
<1>2. verdict \in {"ok", "truncated"} BY <1>1 DEF IInv, JudgeInv, TypeOK
<1>3. /\ Place \in 0 .. at /\ at \in Nat /\ Total \in Nat /\ at <= Total /\ Len(buf) = at - Place
      /\ remaining \in Nat /\ (remaining = 0 => at - Place < HeaderLen) /\ buf \in Seq(Digit)
  BY <1>1, Positions
<1>4. CASE verdict = "ok"
  <2>1. at = cut /\ remaining = 0 /\ buf = <<>> BY <1>1, <1>4 DEF EndInv
  <2>2. Len(buf) = 0 BY <2>1
  <2>3. at - Place = 0 BY <1>3, <2>2, Zenon
  <2>4. Mark = cut BY <1>3, <2>1, <2>3 DEF Mark
  <2>5. cut \in stream.bounds BY <1>1, <2>4 DEF InStep
  <2>6. cut = Total => finished /\ ends = <<stream.total>> BY <1>1, <2>4 DEF InStep, IInv, JudgeInv
  <2> QED BY <1>4, <2>5, <2>6
<1>5. CASE verdict = "truncated"
  <2>1. at = cut /\ ~(remaining = 0 /\ buf = <<>>) BY <1>1, <1>5 DEF EndInv
  <2>2. at \notin stream.bounds
    <3>1. CASE remaining > 0
      <4>1. Mark = at + remaining /\ \A c \in stream.bounds : c < at \/ c >= Mark
        BY <1>1, <3>1 DEF InStep, Mark
      <4>2. ~(at < at \/ at >= Mark) BY <1>3, <3>1, <4>1
      <4> QED BY <4>1, <4>2
    <3>2. CASE remaining = 0
      <4>1. Mark = Place /\ Place \in stream.bounds BY <1>1, <3>2 DEF InStep, Mark
      <4>2. Place < at
        <5>1. buf # <<>> BY <2>1, <3>2
        <5>2. Len(buf) # 0 BY <1>3, <5>1, EmptySeq
        <5>3. at - Place # 0 BY <1>3, <5>2, Zenon
        <5> QED BY <1>3, <5>3
      <4>3. Place # Total BY <1>3, <4>2
      <4>4. /\ \A c \in stream.bounds : c <= Place \/ c >= NextOf(stream, Place)
            /\ NextOf(stream, Place) = Place + HeaderLen + PayloadOf(HeaderAt(stream, Place))
            /\ PayloadOf(HeaderAt(stream, Place)) \in Nat /\ HeaderLen = 20
        BY <1>1, <4>1, <4>3, BoundIs DEF RecordAt
      <4>5. ~(at <= Place \/ at >= NextOf(stream, Place)) BY <1>3, <3>2, <4>2, <4>4
      <4> QED BY <4>4, <4>5
    <3> QED BY <1>3, <3>1, <3>2
  <2>3. Total \in stream.bounds BY <1>1, StreamType DEF TypeOK
  <2> QED BY <1>5, <2>1, <2>2, <2>3
<1> QED BY <1>2, <1>4, <1>5

\* Whatever the slices, a good stream is accepted with the checksum of its END, and
\* one that stops early is refused unless it stops between two records
\* (StreamParser::finish, which leaves that to the exit status of `zfs send`).
THEOREM JudgesByLength == Spec => []JudgedByItsLength
BY Invariance, Judged, PTL

\* A stream with a wrong byte is not accepted where the checksums cover it: in any
\* byte but those by which the BEGIN steers the parser, when all other records hold
\* their checksums and none is made a BEGIN; in any byte that is no type and no
\* length, when only the END does (StreamParser::verify).
THEOREM SealedDamageCaught == Spec => [](Covered => DamageCaught)
<1>1. ASSUME IInv, Covered, damaged > 0, verdict = "ok" PROVE FALSE
  <2>1. at = Total /\ remaining = 0 /\ buf = <<>> BY <1>1 DEF IInv, EndInv
  <2>2. Len(buf) = 0 BY <2>1
  <2>3. Place = Total
    <3>1. at - Len(buf) = Total - 0 BY <2>1, <2>2, Zenon
    <3>2. Total \in Nat BY <1>1, StreamType DEF IInv, TypeOK
    <3> QED BY <3>1, <3>2 DEF Place
  <2>4. Mark = Total BY <2>1, <2>3 DEF Mark
  <2> QED BY <1>1, <2>4 DEF IInv, CatchInv
<1>2. IInv => (Covered => DamageCaught) BY <1>1 DEF DamageCaught
<1> QED BY <1>2, Invariance, PTL
=============================================================================
