--------------------------- MODULE StreamParser ---------------------------
(***************************************************************************)
(* The push parser that a send runs beside its uploads: the stream comes   *)
(* in slices of any length, and the parser walks the records, keeps the    *)
(* running fletcher4 checksum and compares it with those the stream holds. *)
(* A byte is a digit; a word (4 bytes in the code) and a 64-bit field are  *)
(* two of them; a header (312 bytes) is ten words.                         *)
(***************************************************************************)
EXTENDS Integers, SequencesExt

CONSTANTS
  Streams,    \* the streams `zfs send` may produce (see WellFormed)
  SliceLens,  \* how many bytes a read may return
  Base        \* the number of bytes there are

WordLen == 2
WordSize == Base * Base
HeaderLen == 10 * WordLen
CksumOff == 6 * WordLen
Magic == Base + 2
ZeroSum == <<0, 0, 0, 0>>

(* drr_type *)
Begin == 0
Object == 1
Write == 3
Free == 4
End == 5
Spill == 7
WriteEmbedded == 8
RecordTypes == 0 .. 10

----------------------------------------------------------------------------
(* Words and fletcher4.                                                    *)

Word(b1, b2, swapped) == IF swapped THEN Base * b1 + b2 ELSE b1 + Base * b2

Words(bytes, swapped) ==
  [i \in 1 .. Len(bytes) \div WordLen |->
     Word(bytes[WordLen * i - 1], bytes[WordLen * i], swapped)]

(* The four sums wrap (at 2^64 in the code).                               *)
AddWord(sum, w) ==
  LET a == (sum[1] + w) % WordSize
      b == (sum[2] + a) % WordSize
      c == (sum[3] + b) % WordSize
  IN  <<a, b, c, (sum[4] + c) % WordSize>>

Update(sum, bytes, swapped) ==
  LET words == Words(bytes, swapped)
      run[n \in 0 .. Len(words)] == IF n = 0 THEN sum ELSE AddWord(run[n - 1], words[n])
  IN  run[Len(words)]

----------------------------------------------------------------------------
(* A header, given by its words, and the streams that are sent.            *)

TypeOf(field) == field[1]
UnionOf(field) == SubSeq(field, 3, 6)
EmbeddedOf(field) == SubSeq(field, 7, 10)

RoundUp(n) == ((n + 2 * WordLen - 1) \div (2 * WordLen)) * 2 * WordLen

PayloadOf(field) ==
  LET type == TypeOf(field)
  IN  CASE type = Begin -> field[2]
        [] type = Object -> IF field[4] # 0 THEN field[4] ELSE RoundUp(field[3])
        [] type \in {Write, Spill} -> IF field[4] # 0 THEN field[4] ELSE field[3]
        [] type = WriteEmbedded -> RoundUp(field[3])
        [] OTHER -> 0

HeaderAt(s, b) == Words(SubSeq(s.bytes, b + 1, b + HeaderLen), s.swapped)
NextOf(s, b) == b + HeaderLen + PayloadOf(HeaderAt(s, b))
SumAt(s, i) == Update(ZeroSum, SubSeq(s.bytes, 1, i), s.swapped)

(* A record of a stream stands at b, and the next one where it ends.  Only *)
(* the first is a BEGIN and only the last is an END, which holds the sum   *)
(* of what is before it; each may hold its own, in the sender's byte order.*)
RecordAt(s, b) ==
  LET field == HeaderAt(s, b)
      type == TypeOf(field)
  IN  /\ b + HeaderLen <= Len(s.bytes)
      /\ NextOf(s, b) \in s.bounds
      /\ \A c \in s.bounds : c <= b \/ c >= NextOf(s, b)
      /\ PayloadOf(field) % WordLen = 0
      /\ type \in RecordTypes
      /\ type = Begin <=> b = 0
      /\ b = 0 => field[3] = Magic
      /\ type = End <=> NextOf(s, b) = Len(s.bytes)
      /\ type = End => UnionOf(field) = s.total /\ s.total \in {ZeroSum, SumAt(s, b)}
      /\ type # Begin => EmbeddedOf(field) \in {ZeroSum, SumAt(s, b + CksumOff)}

WellFormed(s) ==
  /\ s.bytes \in Seq(0 .. Base - 1) /\ s.bytes # <<>>
  /\ s.swapped \in BOOLEAN
  /\ s.bounds \subseteq 0 .. Len(s.bytes)
  /\ {0, Len(s.bytes)} \subseteq s.bounds
  /\ \A b \in s.bounds \ {Len(s.bytes)} : RecordAt(s, b)

ASSUME ParserAssumption ==
  /\ Base \in Nat /\ Base > 3
  /\ SliceLens \subseteq Nat \ {0}
  /\ \A s \in Streams : WellFormed(s)

VARIABLES
  stream,     \* what is sent, maybe by a machine of the other byte order
  damaged,    \* the byte that is wrong, 0 if none
  by,         \* and by how much
  cut,        \* how many bytes arrive
  at, sliced, \* the bytes parsed, and the end of the slice in hand
  buf,        \* the start of a header, or of a word of the payload
  remaining,  \* bytes of the payload to come, 0 in a header
  cksum, swap, started, depth,
  ends,       \* the checksums of the END records
  finished,   \* the outermost END has been seen
  verdict

input == <<stream, damaged, by, cut>>
vars == <<input, at, sliced, buf, remaining, cksum, swap, started, depth, ends, finished, verdict>>

Total == Len(stream.bytes)

Byte(i) == IF i = damaged THEN (stream.bytes[i] + by) % Base ELSE stream.bytes[i]
Slice(i, j) == [k \in 1 .. j - i |-> Byte(i + k)]

TypeOK ==
  /\ stream \in Streams
  /\ damaged \in 0 .. Total /\ by \in 1 .. Base - 1 /\ cut \in 0 .. Total
  /\ at \in 0 .. sliced /\ sliced \in 0 .. cut
  /\ buf \in Seq(0 .. Base - 1)
  /\ Len(buf) < IF remaining > 0 THEN WordLen ELSE HeaderLen
  /\ remaining \in Nat
  /\ cksum \in [1 .. 4 -> 0 .. WordSize - 1]
  /\ swap \in BOOLEAN /\ started \in BOOLEAN /\ finished \in BOOLEAN
  /\ depth \in Nat
  /\ ends \in Seq([1 .. 4 -> 0 .. WordSize - 1])
  /\ verdict \in {"none", "ok", "refused", "truncated"}

(* A stream is whole, or it is cut, or one of its bytes is wrong.          *)
Init ==
  /\ stream \in Streams
  /\ \/ damaged = 0 /\ by = 1 /\ cut \in 0 .. Total
     \/ damaged \in 1 .. Total /\ by \in 1 .. Base - 1 /\ cut = Total
  /\ at = 0 /\ sliced = 0
  /\ buf = <<>> /\ remaining = 0
  /\ cksum = ZeroSum /\ swap = FALSE /\ started = FALSE
  /\ depth = 0 /\ ends = <<>> /\ finished = FALSE
  /\ verdict = "none"

----------------------------------------------------------------------------
(* The pipe has a slice.                                                   *)
Read(n) ==
  /\ verdict = "none"
  /\ at = sliced /\ at < cut
  /\ sliced' = Min({at + n, cut})
  /\ UNCHANGED <<input, at, buf, remaining, cksum, swap, started, depth, ends, finished, verdict>>

(* Mutant: bytes kept from the slice before are passed by.                 *)
ChecksumRaggedApart(sum, kept, chunk) ==
  IF Len(chunk) % WordLen = 0 THEN [sum |-> Update(sum, chunk, swap), buf |-> kept]
  ELSE LET all == kept \o chunk
           aligned == Len(all) - (Len(all) % WordLen)
       IN  [sum |-> Update(sum, SubSeq(all, 1, aligned), swap),
            buf |-> SubSeq(all, aligned + 1, Len(all))]

ChecksumRagged(sum, kept, chunk) ==
  LET all == kept \o chunk
      aligned == Len(all) - (Len(all) % WordLen)
  IN  [sum |-> Update(sum, SubSeq(all, 1, aligned), swap),
       buf |-> SubSeq(all, aligned + 1, Len(all))]

(* What is left of a payload is padded.                                    *)
FlushRagged(r) ==
  IF r.buf = <<>> THEN r ELSE [sum |-> Update(r.sum, r.buf \o <<0>>, swap), buf |-> <<>>]

Payload ==
  /\ verdict = "none"
  /\ at < sliced /\ remaining > 0
  /\ LET take == Min({remaining, sliced - at})
         r == ChecksumRagged(cksum, buf, Slice(at, at + take))
         s == IF take = remaining THEN FlushRagged(r) ELSE r
     IN  /\ at' = at + take
         /\ remaining' = remaining - take
         /\ cksum' = s.sum
         /\ buf' = s.buf
  /\ UNCHANGED <<input, sliced, swap, started, depth, ends, finished, verdict>>

(* The slice ends before the header does.                                  *)
PartHeader ==
  /\ verdict = "none"
  /\ at < sliced /\ remaining = 0
  /\ Len(buf) + sliced - at < HeaderLen
  /\ buf' = buf \o Slice(at, sliced)
  /\ at' = sliced
  /\ UNCHANGED <<input, sliced, remaining, cksum, swap, started, depth, ends, finished, verdict>>

Header ==
  /\ verdict = "none"
  /\ at < sliced /\ remaining = 0
  /\ Len(buf) + sliced - at >= HeaderLen

TheHeader == buf \o Slice(at, at + HeaderLen - Len(buf))

----------------------------------------------------------------------------
(* A record, read in the byte order that the magic of the first one shows. *)

Swapped == IF started THEN swap ELSE Words(TheHeader, FALSE)[3] # Magic
Field == Words(TheHeader, Swapped)
Type == TypeOf(Field)
Union == UnionOf(Field)
Embedded == EmbeddedOf(Field)
SumBefore == Update(cksum, SubSeq(TheHeader, 1, CksumOff), Swapped)
PayloadLen == PayloadOf(Field)

(* Mutant: only END records are verified.                                  *)
BadSumOfEndOnly == Type = End /\ Union # ZeroSum /\ Union # cksum

(* Mutant: the END is compared with the sum that covers it as well.        *)
BadSumAfter ==
  \/ Type # Begin /\ Embedded # ZeroSum /\ Embedded # SumBefore
  \/ Type = End /\ Union # ZeroSum /\ Union # SumBefore

BadSum ==
  \/ Type # Begin /\ Embedded # ZeroSum /\ Embedded # SumBefore
  \/ Type = End /\ Union # ZeroSum /\ Union # cksum

Refused ==
  \/ ~started /\ (Field[3] # Magic \/ Type # Begin)
  \/ Type \notin RecordTypes
  \/ BadSum
  \/ PayloadLen % WordLen # 0

Refuse ==
  /\ Header
  /\ Refused
  /\ verdict' = "refused"
  /\ UNCHANGED <<input, at, sliced, buf, remaining, cksum, swap, started, depth, ends, finished>>

(* Mutant: the header stays in the buffer.                                 *)
RecordKept ==
  /\ Header
  /\ ~Refused
  /\ at' = at + HeaderLen - Len(buf)
  /\ buf' = TheHeader
  /\ started' = TRUE
  /\ swap' = Swapped
  /\ cksum' = Update(cksum, TheHeader, Swapped)
  /\ remaining' = PayloadLen
  /\ depth' = CASE Type = Begin -> depth + 1 [] Type = End -> Max({depth - 1, 0}) [] OTHER -> depth
  /\ ends' = IF Type = End THEN Append(ends, Union) ELSE ends
  /\ finished' = (finished \/ (Type = End /\ depth' = 0))
  /\ UNCHANGED <<input, sliced, verdict>>

Record ==
  /\ Header
  /\ ~Refused
  /\ at' = at + HeaderLen - Len(buf)
  /\ buf' = <<>>
  /\ started' = TRUE
  /\ swap' = Swapped
  /\ cksum' = Update(cksum, TheHeader, Swapped)
  /\ remaining' = PayloadLen
  /\ depth' = CASE Type = Begin -> depth + 1 [] Type = End -> Max({depth - 1, 0}) [] OTHER -> depth
  /\ ends' = IF Type = End THEN Append(ends, Union) ELSE ends
  /\ finished' = (finished \/ (Type = End /\ depth' = 0))
  /\ UNCHANGED <<input, sliced, verdict>>

(* The end of the pipe: the stream must not stop inside a record.          *)
Finish ==
  /\ verdict = "none"
  /\ at = sliced /\ at = cut
  /\ verdict' = IF remaining = 0 /\ buf = <<>> THEN "ok" ELSE "truncated"
  /\ UNCHANGED <<input, at, sliced, buf, remaining, cksum, swap, started, depth, ends, finished>>

Next ==
  \/ \E n \in SliceLens : Read(n)
  \/ Payload \/ PartHeader \/ Record \/ Refuse \/ Finish

Spec == Init /\ [][Next]_vars

----------------------------------------------------------------------------
(* Properties.                                                             *)

(* Wherever the slices cut headers and words, nothing is summed twice, left*)
(* out or out of order: the running checksum is that of the stream so far, *)
(* up to the bytes still in the buffer.                                    *)
SumOfTheStream ==
  /\ buf = Slice(at - Len(buf), at)
  /\ cksum = Update(ZeroSum, Slice(0, at - Len(buf)), swap)

(* Whatever the slices, a good stream is accepted with the checksum of its *)
(* END, and one that stops early is refused unless it stops between two    *)
(* records: that is left to the exit status of `zfs send`.                 *)
JudgedByItsLength ==
  damaged = 0 /\ verdict # "none" =>
    /\ verdict = IF cut \in stream.bounds THEN "ok" ELSE "truncated"
    /\ cut = Total => finished /\ ends = <<stream.total>>

(* No wrong byte gets past the checksums, be it in a length, a type or a   *)
(* checksum.  (A byte whose change makes the last checksum zero would, as  *)
(* zero stands for none; these streams have no such byte.)                 *)
DamageCaught == damaged > 0 => verdict # "ok"
=============================================================================
