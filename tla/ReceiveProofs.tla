--------------------------- MODULE ReceiveProofs ---------------------------
(***************************************************************************)
(* Theorems about Receive, for any snapshots, streams and windows: the     *)
(* chain that is applied has no gap and the target holds what has been     *)
(* applied of it, zfs is fed in order, and what is fetched ahead stays     *)
(* within the budget.                                                      *)
(***************************************************************************)
EXTENDS Receive, SequenceTheorems, FiniteSetTheorems, WellFoundedInduction, TLAPS

(***************************************************************************)
(* The inductive invariant, by parts.                                      *)
(***************************************************************************)
Active == pc \in {"take", "wait", "write", "finish", "abort"}
Numbered(queue, first) == \A i \in 1 .. Len(queue) : queue[i] = first + i - 1

\* During the walk each manifest names the next; then the chain is reversed.
ChainInv ==
  /\ pc \in {"idle", "walk"} <=> pos = 0
  /\ pc = "walk" =>
       /\ chain # <<>> /\ cur = chain[Len(chain)]
       /\ \A i \in 1 .. Len(chain) - 1 : from[chain[i]] = chain[i + 1]
  /\ pos > 0 => Linked

\* What zfs has got, and what comes next.
FedInv ==
  /\ \A i \in 1 .. Len(fed) : fed[i] = <<i - 1, "ok">>
  /\ \A k \in Seqs : got[k] # "bad"
  /\ ~Active => inflight = <<>>

QueueInv ==
  Active =>
    /\ Numbered(inflight, Len(fed))
    /\ Len(fed) + Len(inflight) <= NumChunks[x]
    /\ inflight = <<>> => Len(fed) = NumChunks[x]
    /\ Len(inflight) <= Ceiling
    /\ depth \in 1 .. Ceiling

FrontInv ==
  /\ pc \in {"wait", "write"} => inflight # <<>>
  /\ pc = "write" => got[Head(inflight)] = "ok"
  /\ pc = "finish" => inflight = <<>>

\* Only a stream that is being applied has a child.
ChildInv == pc \in {"idle", "walk", "open", "abort"} => child = "none"

IInv ==
  /\ Snaps # {}
  /\ TypeOK /\ ChainInv /\ FedInv /\ QueueInv /\ FrontInv /\ ChildInv

(***************************************************************************)
(* Numbers.                                                                *)
(***************************************************************************)
LEMMA PairMax ==
  ASSUME NEW a \in Int, NEW b \in Int
  PROVE  Max({a, b}) = IF a >= b THEN a ELSE b
<1>1. \E m \in {a, b} : \A n \in {a, b} : m >= n
  <2>1. CASE a >= b
    BY <2>1
  <2>2. CASE ~(a >= b)
    BY <2>2
  <2> QED
    BY <2>1, <2>2
<1>2. Max({a, b}) \in {a, b} /\ \A n \in {a, b} : Max({a, b}) >= n
  BY <1>1, Zenon DEF Max
<1>3. Max({a, b}) >= a /\ Max({a, b}) >= b
  BY <1>2, Zenon
<1> QED
  BY <1>2, <1>3

LEMMA PairMin ==
  ASSUME NEW a \in Int, NEW b \in Int
  PROVE  Min({a, b}) = IF a <= b THEN a ELSE b
<1>1. \E m \in {a, b} : \A n \in {a, b} : m <= n
  <2>1. CASE a <= b
    BY <2>1
  <2>2. CASE ~(a <= b)
    BY <2>2
  <2> QED
    BY <2>1, <2>2
<1>2. Min({a, b}) \in {a, b} /\ \A n \in {a, b} : Min({a, b}) <= n
  BY <1>1, Zenon DEF Min
<1>3. Min({a, b}) <= a /\ Min({a, b}) <= b
  BY <1>2, Zenon
<1> QED
  BY <1>2, <1>3

\* Of some numbers, one is the smallest.
LEMMA SmallestExists ==
  ASSUME NEW T \in SUBSET Nat, T # {}
  PROVE  \E m \in T : \A n \in T : m <= n
<1> DEFINE R == OpToRel(<, Nat)
<1>1. IsWellFoundedOn(R, Nat)
  BY NatLessThanWellFounded
<1> HIDE DEF R
<1>2. PICK m \in T : \A n \in T : <<n, m>> \notin R
  BY <1>1, WFMin
<1>3. \A n \in T : <<n, m>> \in R <=> n < m
  BY DEF R, OpToRel
<1>4. \A n \in T : ~(n < m)
  BY <1>2, <1>3
<1> QED
  BY <1>4

\* Of finitely many numbers, one is the largest: fewest are above it.
LEMMA LargestExists ==
  ASSUME NEW S, IsFiniteSet(S), S # {}, NEW f \in [S -> Nat]
  PROVE  \E b \in S : \A c \in S : f[b] >= f[c]
<1> DEFINE Above(b) == {c \in S : f[c] > f[b]}
           T == {Cardinality(Above(b)) : b \in S}
<1>1. \A b \in S : Above(b) \in SUBSET S /\ IsFiniteSet(Above(b)) /\ Cardinality(Above(b)) \in Nat
  BY FS_Subset, FS_CardinalityType
<1>2. T \in SUBSET Nat /\ T # {}
  BY <1>1
<1>3. PICK m \in T : \A n \in T : m <= n
  BY <1>2, SmallestExists
<1>4. PICK b \in S : m = Cardinality(Above(b))
  BY <1>3
<1>5. ASSUME NEW c \in S, f[c] > f[b] PROVE FALSE
  <2>1. f[b] \in Nat /\ f[c] \in Nat /\ \A y \in S : f[y] \in Nat
    OBVIOUS
  <2>2. Above(c) \in SUBSET Above(b) /\ c \in Above(b) /\ c \notin Above(c)
    BY <1>5, <2>1
  <2>3. Above(c) # Above(b)
    BY <2>2, Zenon
  <2> HIDE DEF Above
  <2>4. Cardinality(Above(c)) <= Cardinality(Above(b)) /\ Cardinality(Above(c)) # Cardinality(Above(b))
    BY <1>1, <2>2, <2>3, FS_Subset
  <2>5. m <= Cardinality(Above(c))
    BY <1>3
  <2> QED
    BY <1>1, <1>4, <2>4, <2>5
<1>6. \A c \in S : f[c] \in Nat
  OBVIOUS
<1> QED
  BY <1>5, <1>6

\* Every chunk of every stream has a number.
LEMMA ChunksNumbered ==
  ASSUME Snaps # {}
  PROVE  /\ MaxChunks \in Nat
         /\ \A y \in Snaps : NumChunks[y] \in Nat /\ NumChunks[y] <= MaxChunks
<1> DEFINE S == {NumChunks[y] : y \in Snaps}
<1> USE ReceiveAssumption
<1>1. PICK b \in Snaps : \A c \in Snaps : NumChunks[b] >= NumChunks[c]
  BY LargestExists
<1>2. NumChunks[b] \in S /\ \A n \in S : NumChunks[b] >= n
  BY <1>1
<1>3. Max(S) \in S /\ \A n \in S : Max(S) >= n
  BY <1>2, Zenon DEF Max
<1>4. \A y \in Snaps : NumChunks[y] \in S /\ NumChunks[y] \in Nat
  OBVIOUS
<1>5. \A n \in S : n \in Nat
  OBVIOUS
<1> QED
  BY <1>3, <1>4, <1>5 DEF MaxChunks

\* How many fetches may be in flight.
LEMMA DepthBounds ==
  ASSUME NEW w \in Nat, window = w, ChunkMiB[x] \in Nat
  PROVE  /\ Ceiling \in Nat /\ Ceiling >= 1
         /\ Ceiling <= Max({w, 1})
         /\ ChunkMiB[x] > 0 => Ceiling <= Max({PREFETCH_BUDGET \div ChunkMiB[x], MIN_INFLIGHT})
         /\ Floor \in 1 .. Ceiling
<1> DEFINE W == Max({w, 1})
           c == ChunkMiB[x]
           B == ByBytes
           Q == PREFETCH_BUDGET \div c
<1>1. W \in Nat /\ W >= 1
  BY PairMax
<1>2. c > 0 => Q \in Nat
  BY DEF PREFETCH_BUDGET
<1>3. /\ B \in Nat
      /\ c > 0 => B = Max({Q, 1})
  <2>1. CASE c = 0
    BY <2>1 DEF ByBytes
  <2>2. CASE c > 0
    <3>1. B = Max({Q, 1})
      BY <2>2 DEF ByBytes
    <3> QED
      BY <1>2, <2>2, <3>1, PairMax
  <2> QED
    BY <2>1, <2>2
<1>4. Ceiling = Max({Min({W, B}), Min({2, W})})
  BY DEF Ceiling, MIN_INFLIGHT
<1>5. Floor = Min({2, Ceiling})
  BY DEF Floor, MIN_INFLIGHT
<1> HIDE DEF W, B, c
<1>6. /\ Min({W, B}) = IF W <= B THEN W ELSE B
      /\ Min({2, W}) = IF 2 <= W THEN 2 ELSE W
  BY <1>1, <1>3, PairMin
<1>7. Ceiling = IF Min({W, B}) >= Min({2, W}) THEN Min({W, B}) ELSE Min({2, W})
  <2>1. Min({W, B}) \in Int /\ Min({2, W}) \in Int
    BY <1>1, <1>3, <1>6
  <2> QED
    BY <1>4, <2>1, PairMax
<1>8. Ceiling \in Nat /\ Ceiling >= 1 /\ Ceiling <= W
  BY <1>1, <1>3, <1>6, <1>7
<1>9. Floor = IF 2 <= Ceiling THEN 2 ELSE Ceiling
  BY <1>5, <1>8, PairMin
<1>10. c > 0 => Ceiling <= Max({Q, 2})
  <2> SUFFICES ASSUME c > 0 PROVE Ceiling <= Max({Q, 2})
    OBVIOUS
  <2> HIDE DEF Q
  <2>1. Q \in Nat /\ B = Max({Q, 1})
    BY <1>2, <1>3
  <2>2. B = IF Q >= 1 THEN Q ELSE 1
    BY <2>1, PairMax
  <2>3. Max({Q, 2}) = IF Q >= 2 THEN Q ELSE 2
    BY <2>1, PairMax
  <2> QED
    BY <1>1, <1>6, <1>7, <2>1, <2>2, <2>3
<1> QED
  BY <1>8, <1>9, <1>10 DEF W, c, MIN_INFLIGHT

\* Starting fetches keeps the queue in order and within the stream; it leaves
\* none in flight only at the end of the stream.
LEMMA RefillFacts ==
  ASSUME NEW q \in Seq(Nat), NEW n \in Nat, NEW d \in Nat, NumChunks[x] \in Nat,
         Numbered(q, n), n + Len(q) <= NumChunks[x]
  PROVE  LET r == Refill(q, n, d)
         IN  /\ r \in Seq(Nat)
             /\ Numbered(r, n)
             /\ n + Len(r) <= NumChunks[x]
             /\ Len(r) <= Len(q) \/ Len(r) <= d
             /\ d >= 1 /\ r = <<>> => n = NumChunks[x]
<1> DEFINE N == NumChunks[x]
           next == n + Len(q)
           room == Max({0, Min({d - Len(q), N - next})})
           more == [i \in 1 .. room |-> next + i - 1]
           r == Refill(q, n, d)
<1>1. r = q \o more
  BY DEF Refill
<1>2. Len(q) \in Nat /\ N \in Nat /\ N - next \in Nat
  OBVIOUS
<1>3. Min({d - Len(q), N - next}) = IF d - Len(q) <= N - next THEN d - Len(q) ELSE N - next
  BY <1>2, PairMin
<1>4. room = IF 0 >= Min({d - Len(q), N - next}) THEN 0 ELSE Min({d - Len(q), N - next})
  <2>1. Min({d - Len(q), N - next}) \in Int
    BY <1>2, <1>3
  <2>2. \A a \in Int : Max({0, a}) = IF 0 >= a THEN 0 ELSE a
    BY PairMax
  <2> QED
    BY <2>1, <2>2, Zenon
<1>5. /\ room \in Nat
      /\ room <= N - next
      /\ room = 0 \/ room <= d - Len(q)
      /\ room = 0 => d - Len(q) <= 0 \/ N - next = 0
  <2> HIDE DEF next, room, N
  <2> QED
    BY <1>2, <1>3, <1>4
<1>6. more \in Seq(Nat) /\ Len(more) = room /\ \A i \in 1 .. room : more[i] = next + i - 1
  <2> HIDE DEF room
  <2>1. \A i \in 1 .. room : next + i - 1 \in Nat
    BY <1>2, <1>5
  <2>2. more \in [1 .. room -> Nat]
    BY <2>1
  <2> QED
    BY <1>5, <2>2
<1> HIDE DEF room, more, r
<1>7. /\ r \in Seq(Nat) /\ Len(r) = Len(q) + room
      /\ \A i \in 1 .. Len(r) : r[i] = IF i <= Len(q) THEN q[i] ELSE more[i - Len(q)]
  <2>1. q \o more \in Seq(Nat) /\ Len(q \o more) = Len(q) + Len(more)
    BY <1>6, ConcatProperties, Zenon
  <2>2. \A i \in 1 .. Len(q \o more) :
           (q \o more)[i] = IF i <= Len(q) THEN q[i] ELSE more[i - Len(q)]
    BY <1>6, ConcatProperties
  <2> QED
    BY <1>1, <1>6, <2>1, <2>2
<1>8. Numbered(r, n)
  <2> SUFFICES ASSUME NEW i \in 1 .. Len(r) PROVE r[i] = n + i - 1
    BY DEF Numbered
  <2>1. CASE i <= Len(q)
    BY <1>7, <2>1 DEF Numbered
  <2>2. CASE i > Len(q)
    <3>1. i - Len(q) \in 1 .. room
      BY <1>2, <1>5, <1>7, <2>2
    <3>2. more[i - Len(q)] = next + (i - Len(q)) - 1
      BY <1>6, <3>1
    <3> QED
      BY <1>2, <1>7, <2>2, <3>1, <3>2
  <2> QED
    BY <1>2, <1>7, <2>1, <2>2
<1>9. d >= 1 /\ r = <<>> => n = N
  <2> SUFFICES ASSUME d >= 1, r = <<>> PROVE n = N
    OBVIOUS
  <2>1. Len(q) = 0 /\ room = 0
    BY <1>2, <1>5, <1>7
  <2> QED
    BY <1>2, <1>5, <2>1
<1> QED
  BY <1>2, <1>5, <1>7, <1>8, <1>9 DEF r

\* A queue in order is one of chunk numbers, each once.
LEMMA NumberedIsQueue ==
  ASSUME NEW q \in Seq(Nat), NEW n \in Nat, Numbered(q, n), Snaps # {},
         NEW y \in Snaps, n + Len(q) <= NumChunks[y]
  PROVE  q \in Seq(Seqs) /\ IsInjective(q)
<1>1. MaxChunks \in Nat /\ NumChunks[y] \in Nat /\ NumChunks[y] <= MaxChunks
  BY ChunksNumbered
<1>2. \A i \in 1 .. Len(q) : q[i] \in Seqs
  BY <1>1 DEF Numbered, Seqs
<1>3. DOMAIN q = 1 .. Len(q)
  OBVIOUS
<1>4. q \in [1 .. Len(q) -> Seqs] /\ Len(q) \in Nat
  BY <1>2, <1>3
<1>5. \A i, j \in 1 .. Len(q) : q[i] = q[j] => i = j
  BY DEF Numbered
<1>6. IsInjective(q)
  BY <1>3, <1>5, Zenon DEF IsInjective
<1> QED
  BY <1>4, <1>6

(***************************************************************************)
(* What steps leave alone.                                                 *)
(***************************************************************************)
\* The stream and what is promised for it change with the chain only.
LEMMA SameStream ==
  ASSUME UNCHANGED <<walk, pos>>
  PROVE  x' = x /\ Ceiling' = Ceiling
BY DEF walk, x, Ceiling, ByBytes

LEMMA StreamFacts ==
  ASSUME TypeOK, pos > 0
  PROVE  /\ x \in Snaps
         /\ NumChunks[x] \in Nat /\ ChunkMiB[x] \in Nat
         /\ window \in Nat
         /\ Ceiling \in Nat /\ Ceiling >= 1
         /\ Floor \in 1 .. Ceiling
<1> USE ReceiveAssumption
<1>1. x \in Snaps
  BY DEF TypeOK, x
<1>2. NumChunks[x] \in Nat /\ ChunkMiB[x] \in Nat /\ window \in Nat
  BY <1>1 DEF TypeOK
<1> QED
  BY <1>1, <1>2, DepthBounds

LEMMA ChainFrame ==
  ASSUME ChainInv, UNCHANGED <<from, walk, pos>>,
         pc' = pc \/ (pc \notin {"idle", "walk"} /\ pc' \notin {"idle", "walk"})
  PROVE  ChainInv'
BY DEF ChainInv, Linked, walk

LEMMA FetchFrame ==
  ASSUME FedInv, QueueInv, UNCHANGED <<walk, pos, prefetch>>,
         pc' = pc \/ (Active /\ Active')
  PROVE  FedInv' /\ QueueInv'
BY SameStream DEF FedInv, QueueInv, Active, Numbered, prefetch

\* The end of a run.
LEMMA ExitParts ==
  ASSUME TypeOK, Exit
  PROVE  /\ ChainInv' /\ FedInv' /\ QueueInv' /\ FrontInv'
         /\ pc' \in Pcs
         /\ window' \in Windows
         /\ cur' \in Snaps \cup {None}
         /\ chain' \in Seq(Snaps) /\ IsInjective(chain')
         /\ pos' \in 0 .. Len(chain')
         /\ depth' \in Nat
         /\ inflight' \in Seq(Seqs) /\ IsInjective(inflight')
         /\ got' \in [Seqs -> {"run", "ok", "bad", "failed"}]
         /\ fed' \in Seq(Seqs \X {"ok", "bad"})
<1>1. pc' = "idle" /\ pos' = 0 /\ chain' = <<>> /\ inflight' = <<>> /\ fed' = <<>> /\ cur' = None
      /\ got' = [k \in Seqs |-> "run"] /\ depth' = 0 /\ window' = window
  BY DEF Exit, Goto
<1>2. ChainInv'
  BY <1>1 DEF ChainInv, Linked
<1>3. FedInv' /\ QueueInv' /\ FrontInv'
  BY <1>1 DEF FedInv, QueueInv, FrontInv, Active
<1>4. IsInjective(<<>>)
  BY DEF IsInjective
<1> QED
  BY <1>1, <1>2, <1>3, <1>4 DEF TypeOK, Pcs

LEMMA FaultType ==
  ASSUME TypeOK, Fault \/ UNCHANGED faults
  PROVE  faults' \in 0 .. MaxFaults
BY ReceiveAssumption DEF TypeOK, Fault

\* A child that is dropped may take a while to exit.
LEMMA DropTypes ==
  ASSUME TypeOK, DropChild, pos > 0
  PROVE  /\ child' = "none"
         /\ dying' \in Drops \cup {None}
         /\ dataset' \in Seq(Snaps)
         /\ partial' \in Snaps \cup {None}
<1>1. [snap |-> x, whole |-> Whole] \in Drops
  BY StreamFacts DEF Drops, Whole
<1> QED
  BY <1>1 DEF TypeOK, DropChild

(***************************************************************************)
(* The steps.                                                              *)
(***************************************************************************)
LEMMA InitIInv == Init => IInv
<1> SUFFICES ASSUME Init PROVE IInv
  OBVIOUS
<1> USE ReceiveAssumption DEF Init
<1>1. Snaps # {}
  OBVIOUS
<1>2. IsInjective(<<>>)
  BY DEF IsInjective
<1>3. TypeOK
  BY <1>2 DEF TypeOK, Pcs
<1>4. ChainInv
  BY DEF ChainInv, Linked
<1>5. FedInv /\ QueueInv /\ FrontInv /\ ChildInv
  BY DEF FedInv, QueueInv, FrontInv, ChildInv, Active
<1> QED
  BY <1>1, <1>3, <1>4, <1>5 DEF IInv

LEMMA StartStep ==
  ASSUME IInv, NEW tip \in Snaps, Start(tip)
  PROVE  IInv'
<1> USE DEF Start, Goto
<1>1. TypeOK'
  <2>1. chain' \in Seq(Snaps) /\ IsInjective(chain') /\ pos' \in 0 .. Len(chain')
    BY DEF IInv, TypeOK, ChainInv, IsInjective
  <2> QED
    BY <2>1 DEF IInv, TypeOK, Pcs, bucket, prefetch, zfs
<1>2. ChainInv'
  BY DEF IInv, ChainInv, Linked
<1>3. FedInv' /\ QueueInv' /\ FrontInv'
  BY DEF IInv, FedInv, QueueInv, FrontInv, Active, prefetch
<1>4. ChildInv'
  BY DEF IInv, ChildInv, zfs
<1> QED
  BY <1>1, <1>2, <1>3, <1>4 DEF IInv

LEMMA WalkBaseStep ==
  ASSUME IInv, WalkBase
  PROVE  IInv'
<1> USE DEF WalkBase
<1>1. /\ chain \in Seq(Snaps) /\ chain # <<>> /\ Len(chain) \in Nat
      /\ cur = chain[Len(chain)] /\ from[cur] \in Snaps
      /\ \A i \in 1 .. Len(chain) - 1 : from[chain[i]] = chain[i + 1]
      /\ pos = 0
  BY DEF IInv, TypeOK, ChainInv
<1>2. /\ chain' \in Seq(Snaps) /\ Len(chain') = Len(chain) + 1
      /\ \A i \in 1 .. Len(chain) : chain'[i] = chain[i]
      /\ chain'[Len(chain) + 1] = from[cur]
  BY <1>1
<1>3. TypeOK'
  <2>1. IsInjective(chain')
    <3> SUFFICES ASSUME NEW i \in 1 .. Len(chain'), NEW j \in 1 .. Len(chain'), chain'[i] = chain'[j]
                 PROVE  i = j
      BY <1>2 DEF IsInjective
    <3>1. \A a, b \in 1 .. Len(chain) : chain[a] = chain[b] => a = b
      BY <1>1 DEF IInv, TypeOK, IsInjective
    <3>2. \A a \in 1 .. Len(chain) : chain[a] # from[cur]
      BY <1>1 DEF ToSet
    <3> QED
      BY <1>1, <1>2, <3>1, <3>2
  <2>2. pos' \in 0 .. Len(chain')
    BY <1>1, <1>2
  <2> QED
    BY <1>1, <1>2, <2>1, <2>2 DEF IInv, TypeOK, bucket, prefetch, zfs
<1>4. ChainInv'
  <2>1. chain' # <<>> /\ cur' = chain'[Len(chain')] /\ pos' = 0 /\ pc' = "walk"
    BY <1>1, <1>2
  <2>2. \A i \in 1 .. Len(chain') - 1 : from'[chain'[i]] = chain'[i + 1]
    BY <1>1, <1>2 DEF bucket
  <2> QED
    BY <2>1, <2>2 DEF ChainInv, Linked
<1>5. FedInv' /\ QueueInv' /\ FrontInv' /\ ChildInv'
  BY DEF IInv, FedInv, QueueInv, FrontInv, ChildInv, Active, prefetch, zfs
<1> QED
  BY <1>3, <1>4, <1>5 DEF IInv

LEMMA WalkFailsStep ==
  ASSUME IInv, WalkFails
  PROVE  IInv'
<1> USE DEF WalkFails
<1>1. Exit /\ TypeOK
  BY DEF IInv
<1>2. TypeOK'
  BY <1>1, ExitParts DEF TypeOK, bucket, zfs
<1>3. ChildInv'
  BY DEF IInv, ChildInv, zfs
<1> QED
  BY <1>1, <1>2, <1>3, ExitParts DEF IInv

LEMMA WalkEndsStep ==
  ASSUME IInv, WalkEnds
  PROVE  IInv'
<1> USE DEF WalkEnds, Goto
<1>1. /\ chain \in Seq(Snaps) /\ chain # <<>> /\ Len(chain) \in Nat /\ Len(chain) >= 1
      /\ cur = chain[Len(chain)] /\ from[cur] = None
      /\ \A i \in 1 .. Len(chain) - 1 : from[chain[i]] = chain[i + 1]
  BY DEF IInv, TypeOK, ChainInv
<1>2. /\ chain' \in Seq(Snaps) /\ Len(chain') = Len(chain)
      /\ \A i \in 1 .. Len(chain) : chain'[i] = chain[Len(chain) - i + 1]
  BY <1>1 DEF Reverse
<1>3. TypeOK'
  <2>1. IsInjective(chain')
    <3> SUFFICES ASSUME NEW i \in 1 .. Len(chain'), NEW j \in 1 .. Len(chain'), chain'[i] = chain'[j]
                 PROVE  i = j
      BY <1>2 DEF IsInjective
    <3>1. \A a, b \in 1 .. Len(chain) : chain[a] = chain[b] => a = b
      BY <1>1 DEF IInv, TypeOK, IsInjective
    <3>2. Len(chain) - i + 1 \in 1 .. Len(chain) /\ Len(chain) - j + 1 \in 1 .. Len(chain)
      BY <1>1, <1>2
    <3>3. Len(chain) - i + 1 = Len(chain) - j + 1
      BY <1>2, <3>1, <3>2
    <3> QED
      BY <1>1, <1>2, <3>3
  <2>2. pos' \in 0 .. Len(chain')
    BY <1>1, <1>2
  <2> QED
    BY <1>2, <2>1, <2>2 DEF IInv, TypeOK, Pcs, bucket, prefetch, zfs
<1>4. ChainInv'
  <2>1. ASSUME NEW i \in 1 .. Len(chain)
        PROVE  from[chain'[i]] = IF i = 1 THEN None ELSE chain'[i - 1]
    <3>1. CASE i = 1
      BY <1>1, <1>2, <3>1
    <3>2. CASE i # 1
      <4>1. Len(chain) - i + 1 \in 1 .. Len(chain) - 1 /\ i - 1 \in 1 .. Len(chain)
        BY <1>1, <3>2
      <4>2. chain'[i - 1] = chain[(Len(chain) - i + 1) + 1]
        BY <1>1, <1>2, <4>1
      <4> QED
        BY <1>1, <1>2, <3>2, <4>1, <4>2
    <3> QED
      BY <3>1, <3>2
  <2> QED
    BY <1>2, <2>1 DEF ChainInv, Linked, bucket
<1>5. FedInv' /\ QueueInv' /\ FrontInv' /\ ChildInv'
  BY DEF IInv, FedInv, QueueInv, FrontInv, ChildInv, Active, prefetch, zfs
<1> QED
  BY <1>3, <1>4, <1>5 DEF IInv

LEMMA OpenStep ==
  ASSUME IInv, Open
  PROVE  IInv'
<1> USE DEF Open, Goto
<1>1. pos > 0 /\ TypeOK /\ Snaps # {}
  BY DEF IInv, TypeOK, ChainInv
<1>2. /\ x \in Snaps /\ NumChunks[x] \in Nat /\ Ceiling \in Nat
      /\ Floor \in Nat /\ Floor >= 1 /\ Floor <= Ceiling
  BY <1>1, StreamFacts
<1>3. UNCHANGED <<walk, pos>> /\ x' = x /\ Ceiling' = Ceiling
  BY SameStream
<1> DEFINE r == Refill(<<>>, 0, Floor)
<1>4. <<>> \in Seq(Nat) /\ Len(<<>>) = 0 /\ Numbered(<<>>, 0)
  BY DEF Numbered
<1>5. /\ r \in Seq(Nat) /\ Len(r) \in Nat /\ Numbered(r, 0)
      /\ 0 + Len(r) <= NumChunks[x]
      /\ Len(r) <= Len(<<>>) \/ Len(r) <= Floor
      /\ Floor >= 1 /\ r = <<>> => 0 = NumChunks[x]
  <2> DEFINE q == <<>>
             n == 0
  <2>1. q \in Seq(Nat) /\ n \in Nat /\ Numbered(q, n) /\ n + Len(q) <= NumChunks[x]
    BY <1>2, <1>4
  <2> HIDE DEF q, n
  <2>2. /\ Refill(q, n, Floor) \in Seq(Nat) /\ Numbered(Refill(q, n, Floor), n)
        /\ n + Len(Refill(q, n, Floor)) <= NumChunks[x]
        /\ Len(Refill(q, n, Floor)) <= Len(q) \/ Len(Refill(q, n, Floor)) <= Floor
        /\ Floor >= 1 /\ Refill(q, n, Floor) = <<>> => n = NumChunks[x]
    BY <1>2, <2>1, RefillFacts
  <2> QED
    BY <2>2, LenProperties DEF q, n
<1>6. r \in Seq(Seqs) /\ IsInjective(r)
  BY <1>1, <1>2, <1>5, NumberedIsQueue
<1>7. inflight' = r /\ fed' = <<>> /\ depth' = Floor /\ got' = [k \in Seqs |-> "run"]
  OBVIOUS
<1> HIDE DEF r
<1>8. TypeOK'
  <2>1. depth' \in Nat /\ inflight' \in Seq(Seqs) /\ IsInjective(inflight')
    BY <1>2, <1>6, <1>7
  <2>2. got' \in [Seqs -> {"run", "ok", "bad", "failed"}] /\ fed' \in Seq(Seqs \X {"ok", "bad"})
    BY <1>7
  <2> QED
    BY <1>1, <2>1, <2>2 DEF TypeOK, Pcs, bucket, walk
<1>9. ChainInv'
  BY <1>3, ChainFrame DEF IInv, bucket
<1>10. FedInv'
  BY <1>7 DEF FedInv, Active
<1>11. QueueInv'
  BY <1>2, <1>3, <1>4, <1>5, <1>7 DEF QueueInv, Numbered
<1>12. FrontInv' /\ ChildInv'
  BY DEF FrontInv, ChildInv
<1> QED
  BY <1>1, <1>8, <1>9, <1>10, <1>11, <1>12 DEF IInv

\* A fetch ends, not with a chunk that was not checked.
LEMMA FetchStepInv ==
  ASSUME IInv, NEW k \in Seqs, NEW how \in {"ok", "failed"}, Fetching(k),
         got' = [got EXCEPT ![k] = how], Fault \/ UNCHANGED faults,
         UNCHANGED <<bucket, pc, walk, pos, depth, inflight, fed, zfs>>
  PROVE  IInv'
<1>1. TypeOK /\ UNCHANGED <<walk, pos>> /\ x' = x /\ Ceiling' = Ceiling
  BY SameStream DEF IInv
<1>2. TypeOK'
  BY <1>1, FaultType DEF TypeOK, bucket, walk, zfs
<1>3. ChainInv'
  BY <1>1, ChainFrame DEF IInv, bucket
<1>4. FedInv' /\ QueueInv'
  BY <1>1 DEF IInv, TypeOK, FedInv, QueueInv, Active, Numbered
<1>5. FrontInv'
  <2>1. pc' = "write" => got'[Head(inflight')] = "ok"
    BY DEF IInv, TypeOK, FrontInv, Fetching
  <2> QED
    BY <2>1 DEF IInv, FrontInv
<1>6. ChildInv'
  BY DEF IInv, ChildInv, zfs
<1> QED
  BY <1>2, <1>3, <1>4, <1>5, <1>6 DEF IInv

\* The depth stays between one and the ceiling.
LEMMA DepthStep ==
  ASSUME IInv, pc \in {"take", "wait"}, inflight # <<>>, got[Head(inflight)] \in {"ok", "bad"},
         depth' = Max({depth - 1, Floor}) \/ depth' = Min({depth + 1, Ceiling}),
         pc' = "write",
         UNCHANGED <<bucket, walk, pos, inflight, got, fed, zfs, faults>>
  PROVE  IInv'
<1>1. pos > 0 /\ TypeOK /\ UNCHANGED <<walk, pos>> /\ x' = x /\ Ceiling' = Ceiling
  BY SameStream DEF IInv, TypeOK, ChainInv
<1>2. depth \in 1 .. Ceiling /\ Ceiling \in Nat /\ Floor \in 1 .. Ceiling
  BY <1>1, StreamFacts DEF IInv, QueueInv, Active
<1>3. depth' \in 1 .. Ceiling
  BY <1>2, PairMax, PairMin
<1>4. TypeOK'
  BY <1>1, <1>2, <1>3 DEF TypeOK, Pcs, bucket, walk, zfs
<1>5. ChainInv'
  BY <1>1, ChainFrame DEF IInv, bucket
<1>6. FedInv' /\ QueueInv'
  BY <1>1, <1>3 DEF IInv, FedInv, QueueInv, Active, Numbered
<1>7. FrontInv'
  <2>1. Head(inflight) \in Seqs
    BY <1>1 DEF TypeOK
  <2> QED
    BY <2>1 DEF IInv, FedInv, FrontInv
<1>8. ChildInv'
  BY DEF ChildInv
<1> QED
  BY <1>4, <1>5, <1>6, <1>7, <1>8 DEF IInv

LEMMA TakeWaitStep ==
  ASSUME IInv, TakeWait
  PROVE  IInv'
<1> USE DEF TakeWait, Goto
<1>1. TypeOK'
  BY DEF IInv, TypeOK, Pcs, bucket, walk, prefetch, zfs
<1>2. ChainInv' /\ FedInv' /\ QueueInv'
  BY ChainFrame, FetchFrame DEF IInv, bucket, Active
<1>3. FrontInv' /\ ChildInv'
  BY DEF IInv, FrontInv, ChildInv, prefetch
<1> QED
  BY <1>1, <1>2, <1>3 DEF IInv

LEMMA CloseStdinStep ==
  ASSUME IInv, CloseStdin
  PROVE  IInv'
<1> USE DEF CloseStdin, Goto
<1>1. TypeOK'
  BY DEF IInv, TypeOK, Pcs, bucket, walk, prefetch, zfs
<1>2. ChainInv' /\ FedInv' /\ QueueInv'
  BY ChainFrame, FetchFrame DEF IInv, bucket, Active
<1>3. FrontInv' /\ ChildInv'
  BY DEF IInv, FrontInv, ChildInv, prefetch
<1> QED
  BY <1>1, <1>2, <1>3 DEF IInv

LEMMA WriteChunkStep ==
  ASSUME IInv, WriteChunk
  PROVE  IInv'
<1> USE DEF WriteChunk, Goto
<1>1. pos > 0 /\ TypeOK /\ Snaps # {} /\ UNCHANGED <<walk, pos>> /\ x' = x /\ Ceiling' = Ceiling
  BY SameStream DEF IInv, TypeOK, ChainInv
<1>2. x \in Snaps /\ NumChunks[x] \in Nat /\ Ceiling \in Nat
  BY <1>1, StreamFacts
<1>3. /\ inflight \in Seq(Seqs) /\ inflight # <<>> /\ Len(inflight) \in Nat
      /\ fed \in Seq(Seqs \X {"ok", "bad"}) /\ Len(fed) \in Nat
      /\ got[Head(inflight)] = "ok"
      /\ Numbered(inflight, Len(fed))
      /\ Len(fed) + Len(inflight) <= NumChunks[x]
      /\ Len(inflight) <= Ceiling
      /\ depth \in Nat /\ depth >= 1 /\ depth <= Ceiling
  BY <1>1, <1>2 DEF IInv, TypeOK, QueueInv, FrontInv, Active
<1>4. Head(inflight) = Len(fed) /\ Head(inflight) \in Seqs
  BY <1>3 DEF Numbered
<1> DEFINE q == Tail(inflight)
           n == Len(fed) + 1
           r == Refill(q, n, depth)
<1>5. Len(q) = Len(inflight) - 1 /\ \A i \in 1 .. Len(q) : q[i] = inflight[i + 1]
  BY <1>3
<1>6. n \in Nat /\ Numbered(q, n) /\ n + Len(q) <= NumChunks[x]
  BY <1>3, <1>5 DEF Numbered
<1>7. q \in Seq(Nat)
  <2>1. q \in Seq(Seqs)
    BY <1>3
  <2>2. Seqs \subseteq Nat
    BY DEF Seqs
  <2> QED
    BY <2>1, <2>2, SeqMonotonic
<1>8. /\ r \in Seq(Nat) /\ Numbered(r, n)
      /\ n + Len(r) <= NumChunks[x]
      /\ Len(r) <= Len(q) \/ Len(r) <= depth
      /\ depth >= 1 /\ r = <<>> => n = NumChunks[x]
  <2> HIDE DEF q, n
  <2> QED
    BY <1>2, <1>3, <1>6, <1>7, RefillFacts
<1>9. r \in Seq(Seqs) /\ IsInjective(r)
  <2> HIDE DEF r, n
  <2> QED
    BY <1>1, <1>2, <1>6, <1>8, NumberedIsQueue
<1>10. inflight' = r /\ depth' = depth
  BY <1>4
<1> HIDE DEF r
<1>11. /\ fed' \in Seq(Seqs \X {"ok", "bad"}) /\ Len(fed') = n
       /\ \A i \in 1 .. Len(fed) : fed'[i] = fed[i]
       /\ fed'[n] = <<Len(fed), "ok">>
  BY <1>3, <1>4
<1>12. TypeOK'
  BY <1>1, <1>3, <1>9, <1>10, <1>11 DEF TypeOK, Pcs, bucket, walk, zfs
<1>13. ChainInv'
  BY <1>1, ChainFrame DEF IInv, bucket
<1>14. FedInv'
  <2>1. \A i \in 1 .. Len(fed') : fed'[i] = <<i - 1, "ok">>
    BY <1>3, <1>11 DEF IInv, FedInv
  <2> QED
    BY <2>1 DEF IInv, FedInv, Active
<1>15. QueueInv'
  <2>1. Len(r) \in Nat /\ Len(q) <= Ceiling
    BY <1>2, <1>3, <1>5, <1>8
  <2>2. Len(r) <= Ceiling
    BY <1>2, <1>3, <1>8, <2>1
  <2> QED
    BY <1>1, <1>2, <1>3, <1>8, <1>10, <1>11, <2>1, <2>2 DEF QueueInv, Numbered
<1>16. FrontInv' /\ ChildInv'
  BY DEF FrontInv, ChildInv
<1> QED
  BY <1>1, <1>12, <1>13, <1>14, <1>15, <1>16 DEF IInv

\* What zfs does, or a chunk lost, while the run stays where it is.
LEMMA OutsideStep ==
  ASSUME IInv, UNCHANGED <<from, pc, walk, pos, prefetch>>,
         lost' \subseteq Snaps \X Seqs,
         child' \in {"none", "running", "receiving", "applied", "exited"},
         dying' \in Drops \cup {None},
         dataset' \in Seq(Snaps),
         partial' \in Snaps \cup {None},
         faults' \in 0 .. MaxFaults,
         ChildInv'
  PROVE  IInv'
<1>1. TypeOK'
  BY DEF IInv, TypeOK, walk, prefetch
<1>2. ChainInv' /\ FedInv' /\ QueueInv'
  BY ChainFrame, FetchFrame DEF IInv
<1>3. FrontInv'
  BY DEF IInv, FrontInv, prefetch
<1> QED
  BY <1>1, <1>2, <1>3 DEF IInv

LEMMA ChildStepInv ==
  ASSUME IInv, ChildStep
  PROVE  IInv'
<1>1. TypeOK /\ (child # "none" => pos > 0)
  BY DEF IInv, TypeOK, ChainInv, ChildInv, Pcs
<1>2. lost \subseteq Snaps \X Seqs /\ dying \in Drops \cup {None} /\ dataset \in Seq(Snaps)
      /\ partial \in Snaps \cup {None} /\ faults \in 0 .. MaxFaults
  BY <1>1 DEF TypeOK
<1>3. CASE ChildBegins
  <2>1. child' \in {"receiving", "exited"} /\ ChildInv'
    BY <1>3 DEF IInv, ChildBegins, ChildInv
  <2> QED
    BY <1>2, <1>3, <2>1, OutsideStep DEF ChildBegins, bucket
<1>4. CASE ChildApplies
  <2>1. x \in Snaps
    BY <1>1, <1>4, StreamFacts DEF ChildApplies
  <2>2. dataset' \in Seq(Snaps) /\ child' = "applied" /\ ChildInv'
    BY <1>2, <1>4, <2>1 DEF ChildApplies, ChildInv
  <2> QED
    BY <1>2, <1>4, <2>2, OutsideStep DEF ChildApplies, bucket
<1>5. CASE ChildFails
  <2>1. x \in Snaps
    BY <1>1, <1>5, StreamFacts DEF ChildFails
  <2>2. partial' \in Snaps \cup {None} /\ child' = "exited"
    BY <1>5, <2>1 DEF ChildFails
  <2>3. ChildInv'
    BY <1>5 DEF IInv, ChildFails, ChildInv
  <2>4. faults' \in 0 .. MaxFaults
    BY <1>1, <1>5, FaultType DEF ChildFails
  <2> QED
    BY <1>2, <1>5, <2>2, <2>3, <2>4, OutsideStep DEF ChildFails, bucket
<1> QED
  BY <1>3, <1>4, <1>5 DEF ChildStep

LEMMA DroppedExitsStep ==
  ASSUME IInv, DroppedExits
  PROVE  IInv'
<1> USE DEF DroppedExits
<1>1. TypeOK /\ dying \in Drops
  BY DEF IInv, TypeOK
<1>2. dying.snap \in Snaps
  BY <1>1 DEF Drops
<1>3. partial' \in Snaps \cup {None} /\ dataset' \in Seq(Snaps) /\ dying' = None
  <2>1. dying' = None /\ dataset \in Seq(Snaps) /\ partial \in Snaps \cup {None}
    BY <1>1 DEF TypeOK
  <2>2. CASE partial' \in {None, dying.snap} /\ UNCHANGED dataset
    BY <1>2, <2>1, <2>2
  <2>3. CASE dataset' = Append(dataset, dying.snap) /\ UNCHANGED partial
    BY <1>2, <2>1, <2>3
  <2> QED
    BY <2>1, <2>2, <2>3
<1>4. ChildInv'
  BY DEF IInv, ChildInv
<1>5. /\ lost' \subseteq Snaps \X Seqs /\ faults' \in 0 .. MaxFaults
      /\ child' \in {"none", "running", "receiving", "applied", "exited"}
  BY <1>1 DEF TypeOK, bucket
<1> QED
  BY <1>3, <1>4, <1>5, OutsideStep DEF bucket

LEMMA LoseStep ==
  ASSUME IInv, NEW y \in Snaps, NEW k \in Seqs, Lose(y, k)
  PROVE  IInv'
<1> USE DEF Lose
<1>1. TypeOK
  BY DEF IInv
<1>2. lost' \subseteq Snaps \X Seqs /\ faults' \in 0 .. MaxFaults
  BY <1>1, FaultType DEF TypeOK
<1>3. ChildInv'
  BY DEF IInv, ChildInv, zfs
<1>4. /\ child' \in {"none", "running", "receiving", "applied", "exited"}
      /\ dying' \in Drops \cup {None} /\ dataset' \in Seq(Snaps) /\ partial' \in Snaps \cup {None}
  BY <1>1 DEF TypeOK, zfs
<1> QED
  BY <1>2, <1>3, <1>4, OutsideStep

\* A stream that cannot be finished.
LEMMA GiveUpStep ==
  ASSUME IInv, Active, pc' = "abort", child' = "none",
         UNCHANGED <<bucket, walk, pos, prefetch, faults>>,
         dying' \in Drops \cup {None},
         dataset' \in Seq(Snaps),
         partial' \in Snaps \cup {None}
  PROVE  IInv'
<1>1. TypeOK'
  BY DEF IInv, TypeOK, Pcs, bucket, walk, prefetch
<1>2. ChainInv' /\ FedInv' /\ QueueInv'
  BY ChainFrame, FetchFrame DEF IInv, bucket, Active
<1>3. FrontInv' /\ ChildInv'
  BY DEF FrontInv, ChildInv
<1> QED
  BY <1>1, <1>2, <1>3 DEF IInv

LEMMA FailSteps ==
  ASSUME IInv, TakeFails \/ WriteFails \/ NotApplied
  PROVE  IInv'
<1>1. TypeOK
  BY DEF IInv
<1>2. CASE TakeFails
  <2>1. pos > 0 /\ DropChild
    BY <1>2 DEF IInv, TypeOK, ChainInv, TakeFails
  <2>2. Active
    BY <1>2 DEF Active, TakeFails
  <2> QED
    BY <1>1, <1>2, <2>1, <2>2, DropTypes, GiveUpStep DEF TakeFails, Goto
<1>3. CASE WriteFails
  BY <1>1, <1>3, GiveUpStep DEF TypeOK, WriteFails, Goto, Active
<1>4. CASE NotApplied
  BY <1>1, <1>4, GiveUpStep DEF TypeOK, NotApplied, Goto, Active
<1> QED
  BY <1>2, <1>3, <1>4

\* However a run ends.
LEMMA ExitStep ==
  ASSUME IInv, Exit, UNCHANGED bucket, child' = "none",
         dying' \in Drops \cup {None},
         dataset' \in Seq(Snaps),
         partial' \in Snaps \cup {None},
         faults' \in 0 .. MaxFaults
  PROVE  IInv'
<1>1. TypeOK
  BY DEF IInv
<1>2. TypeOK'
  BY <1>1, ExitParts DEF TypeOK, bucket
<1>3. ChildInv'
  BY DEF ChildInv
<1> QED
  BY <1>1, <1>2, <1>3, ExitParts DEF IInv

LEMMA EndSteps ==
  ASSUME IInv, Abort \/ AbortFails \/ Kill
  PROVE  IInv'
<1>1. TypeOK
  BY DEF IInv
<1>2. dying \in Drops \cup {None} /\ dataset \in Seq(Snaps) /\ partial \in Snaps \cup {None}
      /\ faults \in 0 .. MaxFaults
  BY <1>1 DEF TypeOK
<1>3. CASE Abort
  <2>1. child' = "none" /\ partial' \in Snaps \cup {None}
    BY <1>2, <1>3 DEF IInv, ChildInv, Abort
  <2> QED
    BY <1>2, <1>3, <2>1, ExitStep DEF Abort
<1>4. CASE AbortFails
  <2>1. child' = "none" /\ faults' \in 0 .. MaxFaults
    BY <1>1, <1>4, FaultType DEF IInv, ChildInv, AbortFails, zfs
  <2> QED
    BY <1>2, <1>4, <2>1, ExitStep DEF AbortFails, zfs
<1>5. CASE Kill
  <2>1. faults' \in 0 .. MaxFaults
    BY <1>1, <1>5, FaultType DEF Kill
  <2>2. CASE pos > 0
    BY <1>1, <1>5, <2>1, <2>2, DropTypes, ExitStep DEF Kill
  <2>3. CASE ~(pos > 0)
    <3>1. child = "none"
      BY <1>1, <2>3 DEF IInv, TypeOK, ChainInv, ChildInv
    <3> QED
      BY <1>2, <1>5, <2>1, <2>3, <3>1, ExitStep DEF Kill, zfs
  <2> QED
    BY <2>2, <2>3
<1> QED
  BY <1>3, <1>4, <1>5

\* On to the next stream, or the end.
LEMMA AppliedStep ==
  ASSUME IInv, Applied
  PROVE  IInv'
<1> USE DEF Applied
<1>1. TypeOK /\ pos > 0
  BY DEF IInv, TypeOK, ChainInv
<1>2. CASE pos < Len(chain)
  <2>1. pc' = "open" /\ pos' = pos + 1 /\ UNCHANGED <<walk, prefetch>>
    BY <1>2 DEF Goto
  <2>2. pos' \in 0 .. Len(chain) /\ pos' > 0
    BY <1>1, <1>2, <2>1 DEF TypeOK
  <2>3. TypeOK'
    BY <1>1, <2>1, <2>2 DEF TypeOK, Pcs, bucket, walk, prefetch
  <2>4. ChainInv'
    BY <1>1, <2>1, <2>2 DEF IInv, ChainInv, Linked, bucket, walk
  <2>5. FedInv' /\ QueueInv' /\ FrontInv' /\ ChildInv'
    BY <2>1 DEF IInv, FedInv, QueueInv, FrontInv, ChildInv, Active, prefetch
  <2> QED
    BY <2>3, <2>4, <2>5 DEF IInv
<1>3. CASE ~(pos < Len(chain))
  BY <1>1, <1>3, ExitStep DEF TypeOK
<1> QED
  BY <1>2, <1>3

LEMMA StutterStep == IInv /\ UNCHANGED vars => IInv'
<1> SUFFICES ASSUME IInv, UNCHANGED vars PROVE IInv'
  OBVIOUS
<1>1. UNCHANGED <<from, pc, walk, pos, prefetch>> /\ UNCHANGED <<lost, child, dying, dataset, partial, faults>>
  BY DEF vars, bucket, zfs
<1>2. ChildInv'
  BY <1>1 DEF IInv, ChildInv
<1> QED
  BY <1>1, <1>2, OutsideStep DEF IInv, TypeOK

LEMMA StepIInv == IInv /\ [Next]_vars => IInv'
<1> SUFFICES ASSUME IInv, Next PROVE IInv'
  BY StutterStep
<1>1. ASSUME NEW tip \in Snaps, Start(tip) PROVE IInv'
  BY <1>1, StartStep
<1>2. CASE WalkBase \/ WalkFails \/ WalkEnds
  BY <1>2, WalkBaseStep, WalkFailsStep, WalkEndsStep
<1>3. CASE Open \/ TakeWait \/ WriteChunk \/ CloseStdin \/ Applied
  BY <1>3, OpenStep, TakeWaitStep, WriteChunkStep, CloseStdinStep, AppliedStep
<1>4. CASE TakeReady \/ Waited
  BY <1>4, DepthStep DEF IInv, FrontInv, TakeReady, Waited, Goto
<1>5. CASE TakeFails \/ WriteFails \/ NotApplied
  BY <1>5, FailSteps
<1>6. CASE Abort \/ AbortFails \/ Kill
  BY <1>6, EndSteps
<1>7. ASSUME NEW k \in Seqs, FetchOk(k) \/ FetchFails(k) PROVE IInv'
  <2>1. CASE FetchOk(k)
    BY <2>1, FetchStepInv DEF FetchOk
  <2>2. CASE FetchFails(k)
    BY <2>2, FetchStepInv DEF FetchFails
  <2> QED
    BY <1>7, <2>1, <2>2
<1>8. CASE ChildStep \/ DroppedExits
  BY <1>8, ChildStepInv, DroppedExitsStep
<1>9. ASSUME NEW y \in Snaps, NEW k \in Seqs, Lose(y, k) PROVE IInv'
  BY <1>9, LoseStep
<1> QED
  BY <1>1, <1>2, <1>3, <1>4, <1>5, <1>6, <1>7, <1>8, <1>9 DEF Next, RunStep, FetchStep

(***************************************************************************)
(* The theorems.                                                           *)
(***************************************************************************)

\* The strengthened invariant holds in every state of every restore.
THEOREM Invariance == Spec => []IInv
<1>1. Init => IInv
  BY InitIInv
<1>2. IInv /\ [Next]_vars => IInv'
  BY StepIInv
<1> QED
  BY <1>1, <1>2, PTL DEF Spec

\* Every variable keeps its type; a chain never names a snapshot twice, nor
\* the queue a chunk.
THEOREM TypeCorrect == Spec => []TypeOK
<1>1. IInv => TypeOK
  BY DEF IInv
<1> QED
  BY <1>1, Invariance, PTL

(***************************************************************************)
(* What the target holds while a chain is applied.                         *)
(***************************************************************************)
\* A child that receives, or has received, is alone with the target; one that
\* was dropped in the middle of a chain had not got its whole stream.
TargetInv ==
  /\ NumApplied > 0 => dataset = [i \in 1 .. NumApplied |-> chain[i]]
  /\ child = "applied" => pc = "finish"
  /\ child \in {"receiving", "applied"} => dying = None
  /\ child = "receiving" /\ pos = 1 => dataset = <<>>
  /\ pos > 1 /\ dying # None => ~dying.whole

\* Before a chain is applied nothing is asked of the target.
LEMMA TargetIdle ==
  ASSUME IInv', pos' = 0
  PROVE  TargetInv'
<1>1. child' = "none"
  BY DEF IInv, TypeOK, ChainInv, ChildInv
<1> QED
  BY <1>1 DEF TargetInv, NumApplied

\* Steps that neither touch the target nor go on to another stream.
LEMMA TargetFrame ==
  ASSUME TargetInv, UNCHANGED <<chain, pos, dataset, dying>>, child' # "receiving",
         child' = child \/ (child # "applied" /\ child' # "applied"),
         pc' = pc \/ child' # "applied"
  PROVE  TargetInv'
BY DEF TargetInv, NumApplied

\* zfs applies a stream on top of its base only, and no other at that time.
LEMMA TargetChild ==
  ASSUME IInv, TargetInv, ChildStep
  PROVE  TargetInv'
<1>1. /\ chain \in Seq(Snaps) /\ dataset \in Seq(Snaps) /\ pos \in 0 .. Len(chain)
      /\ UNCHANGED <<pc, chain, pos, dying>>
  BY DEF IInv, TypeOK, ChildStep, ChildBegins, ChildApplies, ChildFails, walk
<1>2. CASE ChildBegins
  <2>1. child = "running" /\ child' \in {"receiving", "exited"} /\ UNCHANGED dataset
    BY <1>2 DEF ChildBegins
  <2>2. CASE child' = "exited"
    BY <1>1, <2>1, <2>2, TargetFrame
  <2>3. CASE child' = "receiving"
    <3>1. Accepts /\ dying = None
      BY <1>2, <2>3 DEF ChildBegins, Accepts
    <3>2. pos = 1 => dataset = <<>>
      BY <1>1, <2>1, <3>1 DEF IInv, ChainInv, Linked, Accepts, x
    <3> QED
      BY <1>1, <2>1, <2>3, <3>1, <3>2 DEF TargetInv, NumApplied
  <2> QED
    BY <2>1, <2>2, <2>3
<1>3. CASE ChildApplies
  <2>1. /\ child = "receiving" /\ child' = "applied" /\ pc = "finish" /\ dying = None
        /\ dataset' = Append(dataset, x) /\ x = chain[pos]
    BY <1>3 DEF ChildApplies, TargetInv, x
  <2>2. pos \in 1 .. Len(chain)
    BY <1>1, <2>1 DEF IInv, ChainInv, ChildInv
  <2>3. Len(dataset) = pos - 1 /\ \A i \in 1 .. pos - 1 : dataset[i] = chain[i]
    <3>1. CASE pos = 1
      BY <2>1, <3>1 DEF TargetInv
    <3>2. CASE pos # 1
      BY <1>1, <2>1, <2>2, <3>2 DEF TargetInv, NumApplied
    <3> QED
      BY <3>1, <3>2
  <2>4. Len(dataset') = pos /\ \A i \in 1 .. pos : dataset'[i] = chain[i]
    BY <1>1, <2>1, <2>2, <2>3
  <2>5. dataset' = [i \in 1 .. pos |-> chain[i]]
    <3>1. dataset' \in Seq(Snaps)
      BY <1>1, <2>1, <2>2
    <3> QED
      BY <1>1, <2>4, <3>1
  <2> QED
    BY <1>1, <2>1, <2>5 DEF TargetInv, NumApplied
<1>4. CASE ChildFails
  BY <1>1, <1>4, TargetFrame DEF ChildFails
<1> QED
  BY <1>2, <1>3, <1>4 DEF ChildStep

\* A child that was dropped adds to the target only between chains.
LEMMA TargetDropped ==
  ASSUME IInv, TargetInv, DroppedExits
  PROVE  TargetInv'
<1>1. /\ dying # None /\ dying' = None /\ pos \in Nat
      /\ UNCHANGED <<pc, child, chain, pos>>
      /\ dying.whole \/ UNCHANGED dataset
  BY DEF IInv, TypeOK, DroppedExits, walk
<1>2. child \notin {"receiving", "applied"}
  BY <1>1 DEF TargetInv
<1>3. pos > 1 => UNCHANGED dataset
  BY <1>1 DEF TargetInv
<1> QED
  BY <1>1, <1>2, <1>3 DEF TargetInv, NumApplied

\* A child whose input ends early is not given the whole stream.
LEMMA TargetTakeFails ==
  ASSUME IInv, TargetInv, TakeFails
  PROVE  TargetInv'
<1>1. /\ UNCHANGED <<chain, pos, dataset>> /\ child' = "none" /\ child # "applied"
      /\ dying' = dying \/ dying' = [snap |-> x, whole |-> Whole]
  BY DEF TakeFails, DropChild, walk, TargetInv
<1>2. ~Whole
  <2>1. pos > 0 /\ TypeOK /\ Active /\ inflight # <<>>
    BY DEF IInv, TypeOK, ChainInv, TakeFails, Active
  <2>2. Len(inflight) \in Nat /\ Len(inflight) # 0 /\ Len(fed) \in Nat /\ NumChunks[x] \in Nat
    BY <2>1, StreamFacts DEF TypeOK
  <2>3. Len(fed) + Len(inflight) <= NumChunks[x]
    BY <2>1 DEF IInv, QueueInv
  <2> QED
    BY <2>2, <2>3 DEF Whole
<1> QED
  BY <1>1, <1>2 DEF TargetInv, NumApplied

\* The next stream begins when the one before it has been applied.
LEMMA TargetApplied ==
  ASSUME IInv, IInv', TargetInv, Applied
  PROVE  TargetInv'
<1>1. CASE pos < Len(chain)
  <2>1. /\ child = "applied" /\ child' = "none" /\ pos' = pos + 1 /\ pos \in Nat
        /\ UNCHANGED <<chain, dataset, dying>>
    BY <1>1 DEF Applied, walk, IInv, TypeOK
  <2>2. dying' = None /\ NumApplied' = NumApplied
    BY <2>1 DEF TargetInv, NumApplied
  <2> QED
    BY <2>1, <2>2 DEF TargetInv
<1>2. CASE ~(pos < Len(chain))
  BY <1>2, TargetIdle DEF Applied, Exit
<1> QED
  BY <1>1, <1>2

LEMMA TargetStep == IInv /\ IInv' /\ TargetInv /\ [Next]_vars => TargetInv'
<1> SUFFICES ASSUME IInv, IInv', TargetInv, [Next]_vars PROVE TargetInv'
  OBVIOUS
<1>1. CASE pos' = 0
  BY <1>1, TargetIdle
<1>2. CASE ChildStep \/ DroppedExits \/ TakeFails \/ Applied
  BY <1>2, TargetChild, TargetDropped, TargetTakeFails, TargetApplied
<1>3. CASE WalkEnds
  <2>1. pos' = 1 /\ UNCHANGED <<child, dying, dataset>> /\ child = "none"
    BY <1>3 DEF WalkEnds, zfs, IInv, ChildInv
  <2> QED
    BY <2>1 DEF TargetInv, NumApplied
<1>4. CASE WriteFails \/ NotApplied
  BY <1>4, TargetFrame DEF WriteFails, NotApplied, walk
<1>5. CASE Open
  BY <1>5, TargetFrame DEF Open, walk, IInv, ChildInv
<1>6. ASSUME UNCHANGED <<walk, pos, zfs>>, pc' = pc \/ pc # "finish" PROVE TargetInv'
  BY <1>6 DEF TargetInv, NumApplied, walk, zfs
<1>7. CASE TakeReady \/ TakeWait \/ Waited \/ WriteChunk \/ CloseStdin
  BY <1>6, <1>7 DEF TakeReady, TakeWait, Waited, WriteChunk, CloseStdin
<1>8. ASSUME NEW k \in Seqs, FetchOk(k) \/ FetchFails(k) PROVE TargetInv'
  BY <1>6, <1>8 DEF FetchOk, FetchFails
<1>9. ASSUME NEW y \in Snaps, NEW k \in Seqs, Lose(y, k) PROVE TargetInv'
  BY <1>6, <1>9 DEF Lose
<1>10. CASE UNCHANGED vars
  BY <1>6, <1>10 DEF vars
<1>11. ASSUME NEW tip \in Snaps, Start(tip) PROVE pos' = 0
  BY <1>11 DEF Start, IInv, ChainInv
<1>12. CASE WalkBase \/ WalkFails
  BY <1>1, <1>12 DEF WalkBase, WalkFails, Exit, IInv, ChainInv
<1>13. CASE Abort \/ AbortFails \/ Kill
  BY <1>1, <1>13 DEF Abort, AbortFails, Kill, Exit
<1> QED
  BY <1>1, <1>2, <1>3, <1>4, <1>5, <1>7, <1>8, <1>9, <1>10, <1>11, <1>12, <1>13
     DEF Next, RunStep, FetchStep

\* Whatever the manifests say, what is applied is a chain without a gap that
\* begins with a full backup.  Whichever stream of it fails, the target holds
\* the ones before it in order and nothing else.
THEOREM AppliesUnbroken == Spec => []ChainUnbroken
<1>1. Init => TargetInv
  BY DEF Init, TargetInv, NumApplied
<1>2. IInv /\ IInv' /\ TargetInv /\ [Next]_vars => TargetInv'
  BY TargetStep
<1>3. IInv /\ TargetInv => ChainUnbroken
  BY DEF IInv, ChainInv, TargetInv, ChainUnbroken
<1> QED
  BY <1>1, <1>2, <1>3, Invariance, PTL DEF Spec

\* In whatever order fetches end, zfs gets checked chunks in order, and the end
\* of its input only after the last one.
THEOREM FeedsInOrder == Spec => []FedInOrder
<1>1. IInv => FedInOrder
  <2> SUFFICES ASSUME IInv PROVE FedInOrder
    OBVIOUS
  <2>1. fed = [i \in 1 .. Len(fed) |-> <<i - 1, "ok">>]
    <3>1. fed \in Seq(Seqs \X {"ok", "bad"})
      BY DEF IInv, TypeOK
    <3>2. fed = [i \in 1 .. Len(fed) |-> fed[i]]
      BY <3>1
    <3> QED
      BY <3>2 DEF IInv, FedInv
  <2>2. pc = "finish" => Whole
    BY DEF IInv, QueueInv, FrontInv, Active, Whole
  <2> QED
    BY <2>1, <2>2 DEF FedInOrder
<1> QED
  BY <1>1, Invariance, PTL

\* What a quotient promises.
LEMMA QuotientBound ==
  ASSUME NEW c \in Nat, c > 0, NEW n \in Nat
  PROVE  /\ n <= PREFETCH_BUDGET \div c => n * c <= PREFETCH_BUDGET
         /\ n <= MIN_INFLIGHT => n * c <= MIN_INFLIGHT * c
<1> DEFINE Q == 512 \div c
<1>1. Q \in Nat /\ Q * c <= 512
  OBVIOUS
<1>2. n <= Q => n * c <= Q * c
  <2> HIDE DEF Q
  <2> QED
    BY <1>1
<1>3. n <= 2 => n * c <= 2 * c
  OBVIOUS
<1>4. n * c \in Nat /\ Q * c \in Nat
  <2> HIDE DEF Q
  <2> QED
    BY <1>1
<1> QED
  BY <1>1, <1>2, <1>3, <1>4 DEF PREFETCH_BUDGET, MIN_INFLIGHT

\* What is fetched ahead keeps to the window, and to 512 MiB or two chunks.
THEOREM PrefetchBounded == Spec => []WithinBudget
<1>1. IInv => WithinBudget
  <2> SUFFICES ASSUME IInv, pos > 0
               PROVE  /\ Len(inflight) <= Max({window, 1})
                      /\ Len(inflight) * ChunkMiB[x] <= Max({PREFETCH_BUDGET, MIN_INFLIGHT * ChunkMiB[x]})
    BY DEF WithinBudget
  <2> DEFINE n == Len(inflight)
             c == ChunkMiB[x]
             W == Max({window, 1})
             Q == PREFETCH_BUDGET \div c
             Low == MIN_INFLIGHT * c
             Top == Max({PREFETCH_BUDGET, Low})
  <2>1. c \in Nat /\ window \in Nat /\ Ceiling \in Nat /\ n \in Nat
    BY StreamFacts DEF IInv, TypeOK
  <2>2. W = IF window >= 1 THEN window ELSE 1
    BY <2>1, PairMax
  <2>3. n <= Ceiling
    <3>1. CASE Active
      BY <3>1 DEF IInv, QueueInv
    <3>2. CASE ~Active
      BY <2>1, <3>2 DEF IInv, FedInv
    <3> QED
      BY <3>1, <3>2
  <2>4. Ceiling <= W /\ (c > 0 => Ceiling <= Max({Q, MIN_INFLIGHT}))
    BY <2>1, DepthBounds
  <2>5. Low \in Nat /\ PREFETCH_BUDGET \in Nat
    BY <2>1 DEF PREFETCH_BUDGET, MIN_INFLIGHT
  <2>6. Top \in Nat /\ PREFETCH_BUDGET <= Top /\ Low <= Top
    <3> HIDE DEF Low
    <3> QED
      BY <2>5, PairMax
  <2>7. n <= W
    BY <2>1, <2>2, <2>3, <2>4
  <2>8. n * c <= Top
    <3>1. CASE c = 0
      <4>1. n * c = 0
        BY <2>1, <3>1
      <4> QED
        BY <2>6, <4>1
    <3>2. CASE c > 0
      <4>1. Q \in Nat
        BY <2>1, <3>2 DEF PREFETCH_BUDGET
      <4>2. Max({Q, MIN_INFLIGHT}) = IF Q >= MIN_INFLIGHT THEN Q ELSE MIN_INFLIGHT
        <5> HIDE DEF Q
        <5> QED
          BY <4>1, PairMax DEF MIN_INFLIGHT
      <4>3. n <= Q \/ n <= MIN_INFLIGHT
        <5> HIDE DEF Q, n
        <5> QED
          BY <2>1, <2>3, <2>4, <3>2, <4>1, <4>2 DEF MIN_INFLIGHT
      <4>4. n * c <= PREFETCH_BUDGET \/ n * c <= Low
        <5> HIDE DEF n, c
        <5> QED
          BY <2>1, <3>2, <4>3, QuotientBound
      <4>5. n * c \in Nat
        BY <2>1
      <4> HIDE DEF n, c, Low, Top
      <4> QED
        BY <2>5, <2>6, <4>4, <4>5
    <3> QED
      BY <2>1, <3>1, <3>2
  <2> QED
    BY <2>7, <2>8
<1> QED
  BY <1>1, Invariance, PTL

(***************************************************************************)
(* The end.                                                                *)
(***************************************************************************)
\* How much of the run is ahead: manifests no walk has met, then streams.
StreamsAhead ==
  CASE pc = "idle"  -> 0
    [] pc = "abort" -> 1
    [] pc = "walk"  -> 2 * Cardinality(Snaps) + 3 - Len(chain)
    [] OTHER        -> Len(chain) - pos + 2

\* How much of a stream: three places for each chunk that is not written.
ChunksAhead ==
  CASE pc = "open"  -> 3 * NumChunks[x] + 4
    [] pc = "take"  -> 3 * (NumChunks[x] - Len(fed)) + 3
    [] pc = "wait"  -> 3 * (NumChunks[x] - Len(fed)) + 2
    [] pc = "write" -> 3 * (NumChunks[x] - Len(fed)) + 1
    [] OTHER        -> 0

\* What happens on its own: fetches, the child, one that was dropped, faults.
Fetches == {k \in Seqs : got[k] = "run"}
OthersAhead ==
  Cardinality(Fetches)
    + (CASE child = "running" -> 2 [] child = "receiving" -> 1 [] OTHER -> 0)
    + (IF dying # None THEN 1 ELSE 0)
    + (MaxFaults - faults)

\* The order is well-founded: numbers, of which the first that changes falls.
Measured == StreamsAhead \in Nat /\ ChunksAhead \in Nat /\ OthersAhead \in Nat

Advances ==
  pc # "idle" =>
    \/ StreamsAhead' < StreamsAhead
    \/ /\ StreamsAhead' = StreamsAhead
       /\ \/ ChunksAhead' < ChunksAhead
          \/ ChunksAhead' = ChunksAhead /\ OthersAhead' < OthersAhead

\* No chain is longer than there are snapshots.
LEMMA ChainLength ==
  ASSUME TypeOK
  PROVE  /\ Len(chain) \in Nat /\ Cardinality(Snaps) \in Nat
         /\ Len(chain) <= Cardinality(Snaps)
<1> DEFINE n == Len(chain)
<1>1. chain \in Seq(Snaps) /\ n \in Nat /\ DOMAIN chain = 1 .. n
  BY DEF TypeOK
<1>2. chain \in Injection(1 .. n, Snaps)
  <2>1. IsInjective(chain) /\ chain \in [1 .. n -> Snaps]
    BY <1>1 DEF TypeOK
  <2> QED
    BY <2>1 DEF Injection
<1>3. IsFiniteSet(Snaps) /\ Cardinality(Snaps) \in Nat
  BY ReceiveAssumption, FS_CardinalityType
<1>4. Cardinality(1 .. n) <= Cardinality(Snaps)
  BY <1>2, <1>3, FS_Injection
<1>5. Cardinality(1 .. n) = n
  BY <1>1, FS_Interval
<1> QED
  BY <1>1, <1>3, <1>4, <1>5

LEMMA FedLength ==
  ASSUME IInv
  PROVE  /\ Len(fed) \in Nat
         /\ Active => NumChunks[x] \in Nat /\ Len(fed) <= NumChunks[x]
<1>1. Len(fed) \in Nat /\ Len(inflight) \in Nat
  BY DEF IInv, TypeOK
<1>2. ASSUME Active PROVE NumChunks[x] \in Nat /\ Len(fed) + Len(inflight) <= NumChunks[x]
  <2>1. pos > 0 /\ TypeOK
    BY <1>2 DEF IInv, TypeOK, ChainInv, Active
  <2>2. NumChunks[x] \in Nat
    BY <2>1, StreamFacts
  <2> QED
    BY <1>2, <2>2 DEF IInv, QueueInv
<1> QED
  BY <1>1, <1>2

LEMMA SeqsFinite == Snaps # {} => IsFiniteSet(Seqs)
BY ChunksNumbered, FS_Interval DEF Seqs

LEMMA MeasureFacts ==
  ASSUME IInv
  PROVE  Measured
<1>1. StreamsAhead \in Nat
  <2>1. Len(chain) \in Nat /\ Cardinality(Snaps) \in Nat /\ Len(chain) <= Cardinality(Snaps)
    BY ChainLength DEF IInv
  <2>2. pos \in 0 .. Len(chain)
    BY DEF IInv, TypeOK
  <2> QED
    BY <2>1, <2>2 DEF StreamsAhead
<1>2. ChunksAhead \in Nat
  <2>1. CASE pos = 0
    BY <2>1 DEF ChunksAhead, IInv, ChainInv, TypeOK, Pcs
  <2>2. CASE pos > 0
    <3>1. NumChunks[x] \in Nat
      BY <2>2, StreamFacts DEF IInv
    <3> QED
      BY <3>1, FedLength DEF ChunksAhead, Active
  <2> QED
    BY <2>1, <2>2 DEF IInv, TypeOK
<1>3. OthersAhead \in Nat
  <2>1. IsFiniteSet(Fetches)
    BY SeqsFinite, FS_Subset DEF IInv, Fetches
  <2>2. Cardinality(Fetches) \in Nat
    BY <2>1, FS_CardinalityType
  <2>3. MaxFaults - faults \in Nat
    BY ReceiveAssumption DEF IInv, TypeOK
  <2> QED
    BY <2>2, <2>3 DEF OthersAhead
<1> QED
  BY <1>1, <1>2, <1>3 DEF Measured

\* A fetch that ends is one fewer.
LEMMA FetchEnds ==
  ASSUME IInv, NEW k \in Seqs, FetchOk(k) \/ FetchFails(k)
  PROVE  OthersAhead' < OthersAhead
<1>1. Fetches' = Fetches \ {k} /\ k \in Fetches
  BY DEF IInv, TypeOK, FetchOk, FetchFails, Fetching, Fetches, bucket
<1>2. IsFiniteSet(Fetches)
  BY SeqsFinite, FS_Subset DEF IInv, Fetches
<1>3. Cardinality(Fetches') = Cardinality(Fetches) - 1 /\ Cardinality(Fetches) \in Nat
  BY <1>1, <1>2, FS_RemoveElement, FS_CardinalityType
<1>4. UNCHANGED zfs /\ faults' \in {faults, faults + 1} /\ faults \in Nat /\ MaxFaults \in Nat
  BY ReceiveAssumption DEF IInv, TypeOK, FetchOk, FetchFails, Fault
<1> QED
  BY <1>3, <1>4 DEF OthersAhead, zfs

LEMMA StepAdvances == IInv /\ IInv' /\ [Next]_vars => [Advances]_vars
<1> SUFFICES ASSUME IInv, IInv', Next, pc # "idle" PROVE Advances
  BY DEF Advances
<1> USE DEF Advances
<1>1. Measured
  BY MeasureFacts
<1>2. pos > 0 => /\ x \in Snaps /\ NumChunks[x] \in Nat /\ pos \in 1 .. Len(chain)
  BY StreamFacts DEF IInv, TypeOK
<1>3. Len(chain) \in Nat /\ Cardinality(Snaps) \in Nat /\ Len(chain) <= Cardinality(Snaps)
  BY ChainLength DEF IInv
<1>4. pos \in Nat /\ (pc = "walk" <=> pos = 0)
  BY DEF IInv, TypeOK, ChainInv
<1>5. CASE pc' = "idle"
  <2>1. StreamsAhead' = 0
    BY <1>5 DEF StreamsAhead
  <2>2. StreamsAhead > 0
    BY <1>2, <1>3, <1>4 DEF StreamsAhead
  <2> QED
    BY <2>1, <2>2
<1>6. CASE WalkBase
  <2>1. chain \in Seq(Snaps) /\ Len(chain') = Len(chain) + 1 /\ pc = "walk" /\ pc' = "walk"
    BY <1>6 DEF WalkBase, IInv, TypeOK
  <2> QED
    BY <1>3, <2>1 DEF StreamsAhead
<1>7. CASE WalkEnds
  <2>1. Len(chain') = Len(chain) /\ pos' = 1 /\ pc = "walk" /\ pc' = "open"
    BY <1>7 DEF WalkEnds, Goto, Reverse, IInv, TypeOK
  <2> QED
    BY <1>3, <2>1 DEF StreamsAhead
<1>8. CASE pc' = "abort" /\ pc # "abort" /\ pc # "walk"
  <2>1. StreamsAhead' = 1
    BY <1>8 DEF StreamsAhead
  <2>2. StreamsAhead > 1
    BY <1>2, <1>3, <1>4, <1>8 DEF StreamsAhead
  <2> QED
    BY <2>1, <2>2
<1>9. CASE Applied /\ pc' # "idle"
  <2>1. pos' = pos + 1 /\ chain' = chain /\ pc = "finish" /\ pc' = "open" /\ pos < Len(chain)
    BY <1>9 DEF Applied, Goto, Exit, walk
  <2> QED
    BY <1>2, <1>3, <1>4, <2>1 DEF StreamsAhead
<1>10. CASE Open \/ TakeReady \/ TakeWait \/ Waited \/ WriteChunk \/ CloseStdin
  <2>1. /\ UNCHANGED <<chain, pos>> /\ x' = x
        /\ pc \notin {"idle", "walk", "abort"} /\ pc' \notin {"idle", "walk", "abort"}
    BY <1>10
       DEF Open, TakeReady, TakeWait, Waited, WriteChunk, CloseStdin, Goto, walk, x
  <2>2. StreamsAhead' = StreamsAhead
    BY <2>1 DEF StreamsAhead
  <2>3. NumChunks[x] \in Nat
    BY <1>2, <1>4, <2>1
  <2>4. Len(fed) \in Nat /\ (Active => Len(fed) <= NumChunks[x])
    BY FedLength
  <2>5. ChunksAhead' < ChunksAhead
    <3>1. CASE Open
      BY <2>1, <2>3, <3>1 DEF Open, Goto, ChunksAhead
    <3>2. CASE TakeReady \/ TakeWait \/ Waited \/ CloseStdin
      BY <2>1, <2>3, <2>4, <3>2
         DEF TakeReady, TakeWait, Waited, CloseStdin, Goto, Active, prefetch, ChunksAhead
    <3>3. CASE WriteChunk
      <4>1. Len(fed') = Len(fed) + 1
        BY <3>3 DEF WriteChunk, IInv, TypeOK
      <4> QED
        BY <2>1, <2>3, <2>4, <3>3, <4>1 DEF WriteChunk, Goto, Active, ChunksAhead
    <3> QED
      BY <1>10, <3>1, <3>2, <3>3
  <2> QED
    BY <2>2, <2>5
<1>11. CASE \/ FetchStep \/ ChildStep \/ DroppedExits
            \/ \E y \in Snaps, k \in Seqs : Lose(y, k)
  <2>1. UNCHANGED <<pc, chain, pos, fed>> /\ x' = x
    BY <1>11
       DEF FetchStep, ChildStep, FetchOk, FetchFails, ChildBegins, ChildApplies, ChildFails,
         DroppedExits, Lose, walk, prefetch, x
  <2>2. StreamsAhead' = StreamsAhead /\ ChunksAhead' = ChunksAhead
    BY <2>1 DEF StreamsAhead, ChunksAhead
  <2>3. OthersAhead' < OthersAhead
    <3>1. CASE FetchStep
      BY <3>1, FetchEnds DEF FetchStep
    <3>2. Cardinality(Fetches) \in Nat /\ faults \in Nat /\ MaxFaults \in Nat
      <4>1. IsFiniteSet(Fetches)
        BY SeqsFinite, FS_Subset DEF IInv, Fetches
      <4> QED
        BY <4>1, FS_CardinalityType, ReceiveAssumption DEF IInv, TypeOK
    <3>3. CASE ChildStep
      <4>1. Fetches' = Fetches
        BY <3>3 DEF ChildStep, ChildBegins, ChildApplies, ChildFails, prefetch, Fetches
      <4> QED
        BY <3>2, <3>3, <4>1
           DEF ChildStep, ChildBegins, ChildApplies, ChildFails, Fault, OthersAhead
    <3>4. CASE DroppedExits
      <4>1. Fetches' = Fetches
        BY <3>4 DEF DroppedExits, prefetch, Fetches
      <4> QED
        BY <3>2, <3>4, <4>1 DEF DroppedExits, OthersAhead
    <3>5. CASE \E y \in Snaps, k \in Seqs : Lose(y, k)
      <4>1. Fetches' = Fetches
        BY <3>5 DEF Lose, prefetch, Fetches
      <4> QED
        BY <3>2, <3>5, <4>1 DEF Lose, Fault, zfs, OthersAhead
    <3> QED
      BY <1>11, <3>1, <3>3, <3>4, <3>5
  <2> QED
    BY <2>2, <2>3
<1>12. CASE WalkFails \/ AbortFails \/ Kill \/ Abort \/ \E tip \in Snaps : Start(tip)
  BY <1>5, <1>12 DEF WalkFails, AbortFails, Kill, Abort, Start, Exit, Goto
<1>13. CASE TakeFails \/ NotApplied \/ WriteFails
  BY <1>8, <1>13 DEF TakeFails, NotApplied, WriteFails, Goto
<1> QED
  BY <1>5, <1>6, <1>7, <1>9, <1>10, <1>11, <1>12, <1>13 DEF Next, RunStep

\* No restore goes on for ever, whatever the manifests say, circular ones
\* included, and whatever fails: each step of it leaves less to do
\* (receive.rs:66, 201).
THEOREM RunsAdvance == Spec => []Measured /\ [][Advances]_vars
<1>1. IInv => Measured
  BY MeasureFacts
<1> QED
  BY <1>1, Invariance, StepAdvances, PTL DEF Spec
=============================================================================
