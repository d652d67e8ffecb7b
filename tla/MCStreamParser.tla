-------------------------- MODULE MCStreamParser --------------------------
(***************************************************************************)
(* Two streams in both byte orders, built as a sender builds them: records *)
(* with and without payload and checksum, lengths that are rounded up, and *)
(* a length that is overridden by another.                                 *)
(***************************************************************************)
EXTENDS StreamParser

Bytes(w, swapped) == IF swapped THEN <<w \div Base, w % Base>> ELSE <<w % Base, w \div Base>>
Encode(words, swapped) == FlattenSeq([i \in 1 .. Len(words) |-> Bytes(words[i], swapped)])

(* A record has a type, a payload length field, the first words of its     *)
(* union, a payload, and its running checksum if sealed.                   *)
SendRecord(s, r) ==
  LET u == IF r.type = End THEN s.sum ELSE r.u
      before == Encode(<<r.type, r.len>> \o u, s.swapped)
      sum == Update(s.sum, before, s.swapped)
      field == Encode(IF r.sealed THEN sum ELSE ZeroSum, s.swapped)
      out == s.bytes \o before \o field \o r.payload
  IN  [s EXCEPT !.bytes = out,
                !.sum = Update(sum, field \o r.payload, s.swapped),
                !.total = u,
                !.bounds = @ \cup {Len(out)}]

Sent(records, swapped) ==
  FoldLeft(SendRecord,
           [bytes |-> <<>>, sum |-> ZeroSum, total |-> ZeroSum, bounds |-> {0}, swapped |-> swapped],
           records)

Rec(type, len, u, payload, sealed) ==
  [type |-> type, len |-> len, u |-> u, payload |-> payload, sealed |-> sealed]

BeginRec(payload) == Rec(Begin, Len(payload), <<Magic, 0, 1, 0>>, payload, FALSE)
EndRec == Rec(End, 0, ZeroSum, <<>>, TRUE)

TwoLists ==
  {<<BeginRec(<<>>),
     Rec(Write, 0, <<6, 0, 0, 0>>, <<3, 1, 0, 2, 2, 1>>, TRUE),
     Rec(Free, 0, <<1, 2, 0, 0>>, <<>>, TRUE),
     EndRec>>,
   <<BeginRec(<<1, 2>>),
     Rec(Object, 0, <<3, 0, 0, 0>>, <<0, 3, 1, 0>>, TRUE),
     Rec(Write, 0, <<8, 2, 0, 0>>, <<2, 3>>, FALSE),
     EndRec>>}

TwoStreams == {Sent(records, swapped) : records \in TwoLists, swapped \in BOOLEAN}
=============================================================================
