----------------------------- MODULE ChainProofs -----------------------------
(***************************************************************************)
(* Theorems about Chain: what retention promises, for any number of        *)
(* snapshots, datasets, policies and archive times.                        *)
(***************************************************************************)
EXTENDS Chain, FiniteSetTheorems, WellFoundedInduction, TLAPS

(***************************************************************************)
(* What is assumed beside the schedule: no dataset is renamed; an accepted *)
(* policy keeps the newest backup.  Any number of hosts send and expire.   *)
(***************************************************************************)
NeverRenamed == \A d \in Datasets : \E name \in Names : NamesOf[d] = {name}
NewestCounts == \A p \in Policies : Accepted(p) => KeepLast(p) >= 1
Usual == NeverRenamed /\ NewestCounts

(***************************************************************************)
(* The inductive invariant, by parts.                                      *)
(***************************************************************************)
\* Manifests have the name and the dataset of their chain, and times of their own.
ManifestInv ==
  /\ \A x \in Listed :
       /\ listed[x].created_at <= clock
       /\ listed[x].dataset \in NamesOf[DatasetOf[x]]
       /\ listed[x].from # None => DatasetOf[listed[x].from] = DatasetOf[x]
  /\ \A x, y \in Listed : listed[x].created_at = listed[y].created_at => x = y

\* The base of a send is archived, and newer than any other it could have.
SendInv ==
  \A s \in Senders : send[s] # None =>
    /\ send[s].snap \notin Listed
    /\ send[s].dataset \in NamesOf[DatasetOf[send[s].snap]]
    /\ send[s].from # None =>
         /\ send[s].from \in Listed
         /\ DatasetOf[send[s].from] = DatasetOf[send[s].snap]
         /\ send[s].auto => \A c \in Candidates(send[s].snap) :
                              listed[c].created_at <= listed[send[s].from].created_at

\* What a run has read is as it was or deleted by another, no newer than what is
\* archived last, and what was sent since is built on the newest that was read.
SeenInv ==
  \A e \in Expirers : seen[e] # None =>
    /\ doomed[e] = {}
    /\ \A y \in In(seen[e]) :
         /\ y \in Listed => listed[y] = seen[e][y]
         /\ \E l \in Listed : /\ DatasetOf[l] = DatasetOf[y]
                              /\ seen[e][y].created_at <= listed[l].created_at
    /\ \A x \in Listed \ In(seen[e]) : listed[x].from \in In(seen[e]) =>
         \A y \in In(seen[e]) : DatasetOf[y] = DatasetOf[x] =>
           seen[e][y].created_at <= seen[e][listed[x].from].created_at

\* What a run still deletes is nobody's base but its own, not pinned, and not
\* the newest; another run may have deleted it before.
DoomInv ==
  \A e \in Expirers :
    /\ \A x \in Listed \ doomed[e] : listed[x].from \notin doomed[e]
    /\ \A d \in Datasets : Latest(d) \cap doomed[e] = {}
    /\ pins \cap doomed[e] = {}

Schedule == SendsApart /\ SendsFresh /\ SendsAppend

IInv == TypeOK /\ Schedule /\ ManifestInv /\ SendInv /\ SeenInv /\ DoomInv

(***************************************************************************)
(* Sets of numbers, and the newest backup.                                 *)
(***************************************************************************)
LEMMA SmallestExists ==
  ASSUME NEW T \in SUBSET Nat, T # {}
  PROVE  \E m \in T : \A n \in T : m <= n
<1> DEFINE R == OpToRel(<, Nat)
<1>1. IsWellFoundedOn(R, Nat)
  BY NatLessThanWellFounded
<1> HIDE DEF R
<1>2. PICK m \in T : \A n \in T : <<n, m>> \notin R
  BY <1>1, WFMin
<1>3. \A n \in T : <<n, m>> \in R <=> n < m
  BY DEF R, OpToRel
<1>4. \A n \in T : ~(n < m)
  BY <1>2, <1>3
<1> QED
  BY <1>4

\* Of some numbers below a bound, one is the largest.
LEMMA LargestExists ==
  ASSUME NEW S, S # {}, NEW N \in Nat, NEW f \in [S -> Nat], \A x \in S : f[x] <= N
  PROVE  \E b \in S : \A c \in S : f[c] <= f[b]
<1> DEFINE T == {N - f[x] : x \in S}
<1>1. T \in SUBSET Nat /\ T # {}
  OBVIOUS
<1>2. PICK m \in T : \A n \in T : m <= n
  BY <1>1, SmallestExists
<1>3. PICK b \in S : m = N - f[b]
  BY <1>2
<1>4. ASSUME NEW c \in S PROVE f[c] <= f[b]
  <2>1. N - f[b] <= N - f[c]
    BY <1>2, <1>3
  <2>2. f[b] \in Nat /\ f[c] \in Nat
    OBVIOUS
  <2> QED
    BY <2>1, <2>2
<1> QED
  BY <1>4

\* What the types say of a manifest.
LEMMA ManifestFacts ==
  ASSUME TypeOK
  PROVE  /\ Listed \subseteq Snaps
         /\ MaxTime \in Nat
         /\ None \notin Snaps
         /\ \A x \in Snaps : DatasetOf[x] \in Datasets
         /\ \A x \in Listed : /\ listed[x] \in Manifests
                              /\ listed[x].created_at \in Nat
                              /\ listed[x].created_at <= MaxTime
                              /\ listed[x].from \in Snaps \cup {None}
<1> USE ChainAssumption
<1>1. \A x \in Snaps : listed[x] \in Manifests \cup {None}
  BY DEF TypeOK, Listing
<1>2. \A x \in Listed : listed[x] \in Manifests
  BY <1>1 DEF Listed
<1>3. \A m \in Manifests : m.created_at \in 1 .. MaxTime /\ m.from \in Snaps \cup {None}
  BY DEF Manifests
<1>4. Listed \subseteq Snaps
  BY DEF Listed
<1> QED
  BY <1>2, <1>3, <1>4 DEF Datasets

\* Among some listed backups one was archived last.
LEMMA NewestExists ==
  ASSUME TypeOK, NEW S \in SUBSET Listed, S # {}
  PROVE  \E b \in S : \A c \in S : listed[c].created_at <= listed[b].created_at
<1> DEFINE f == [x \in S |-> listed[x].created_at]
<1>1. \A x \in S : listed[x].created_at \in Nat /\ listed[x].created_at <= MaxTime
  BY ManifestFacts
<1>2. f \in [S -> Nat] /\ \A x \in S : f[x] <= MaxTime
  BY <1>1
<1>3. \A x \in S : f[x] = listed[x].created_at
  OBVIOUS
<1>4. MaxTime \in Nat
  BY ManifestFacts
<1> HIDE DEF f
<1>5. PICK b \in S : \A c \in S : f[c] <= f[b]
  BY <1>2, <1>4, LargestExists
<1> QED
  BY <1>3, <1>5

\* So the newest of a dataset is at least as new as any of it.
LEMMA LatestExists ==
  ASSUME TypeOK, NEW l \in Listed
  PROVE  \E w \in Latest(DatasetOf[l]) :
           /\ w \in Listed /\ DatasetOf[w] = DatasetOf[l]
           /\ \A v \in Listed : DatasetOf[v] = DatasetOf[l] =>
                               listed[v].created_at <= listed[w].created_at
<1> DEFINE S == {v \in Listed : DatasetOf[v] = DatasetOf[l]}
<1>1. S \subseteq Listed /\ S # {}
  OBVIOUS
<1>2. PICK w \in S : \A v \in S : listed[v].created_at <= listed[w].created_at
  BY <1>1, NewestExists
<1> QED
  BY <1>2 DEF Latest

\* What the types say of a manifest that was read.
LEMMA SeenFacts ==
  ASSUME TypeOK, NEW e \in Expirers, seen[e] # None
  PROVE  /\ In(seen[e]) \subseteq Snaps
         /\ \A y \in In(seen[e]) : seen[e][y].created_at \in Nat
<1>1. seen[e] \in [Snaps -> Manifests \cup {None}]
  BY DEF TypeOK, Listing
<1>2. \A y \in In(seen[e]) : y \in Snaps /\ seen[e][y] \in Manifests
  BY <1>1 DEF In
<1>3. \A m \in Manifests : m.created_at \in Nat
  BY ChainAssumption DEF Manifests
<1> QED
  BY <1>2, <1>3

\* A base that could be picked is listed and of the same dataset.
LEMMA CandidateFacts ==
  ASSUME TypeOK, NEW x \in Snaps
  PROVE  Candidates(x) \subseteq Listed /\ \A b \in Candidates(x) : DatasetOf[b] = DatasetOf[x]
BY DEF Candidates

\* The base that auto_base picks: none, or the newest it could have.
LEMMA AutoBaseFacts ==
  ASSUME TypeOK, NEW x \in Snaps
  PROVE  \/ AutoBase(x) = None
         \/ /\ AutoBase(x) \in Candidates(x)
            /\ \A c \in Candidates(x) : listed[c].created_at <= listed[AutoBase(x)].created_at
<1> DEFINE C == Candidates(x)
<1>1. CASE C = {}
  BY <1>1 DEF AutoBase
<1>2. CASE C # {}
  <2>1. \E b \in C : \A c \in C : listed[c].created_at <= listed[b].created_at
    BY <1>2, CandidateFacts, NewestExists
  <2>2. AutoBase(x) = CHOOSE b \in C : \A c \in C : listed[c].created_at <= listed[b].created_at
    BY <1>2 DEF AutoBase
  <2> QED
    BY <2>1, <2>2
<1> QED
  BY <1>1, <1>2

(***************************************************************************)
(* The keep set.                                                           *)
(***************************************************************************)
\* It has the seeds, and with a backup the base it has in the listing.
LEMMA KeepFacts ==
  ASSUME NEW all, NEW pinned, NEW cutoff, NEW n
  PROVE  LET keep == KeepSet(all, pinned, cutoff, n)
         IN  /\ keep \subseteq In(all)
             /\ Seeds(all, pinned, cutoff, n) \cap In(all) \subseteq keep
             /\ \A x \in keep : all[x].from \in In(all) => all[x].from \in keep
<1> DEFINE seeds == Seeds(all, pinned, cutoff, n)
           Closed(keep) == \A x \in keep : all[x].from \in In(all) => all[x].from \in keep
           Good(keep) == seeds \subseteq keep /\ Closed(keep)
           K == KeepSet(all, pinned, cutoff, n)
<1>1. K = {x \in In(all) : \A keep \in SUBSET In(all) : Good(keep) => x \in keep}
  BY DEF KeepSet
<1> HIDE DEF K, seeds
<1>2. K \subseteq In(all)
  BY <1>1
<1>3. seeds \cap In(all) \subseteq K
  BY <1>1
<1>4. ASSUME NEW x \in K, all[x].from \in In(all) PROVE all[x].from \in K
  <2>1. ASSUME NEW keep \in SUBSET In(all), Good(keep) PROVE all[x].from \in keep
    <3>1. x \in keep
      BY <1>1, <2>1
    <3> QED
      BY <1>4, <2>1, <3>1
  <2> QED
    BY <1>1, <1>4, <2>1
<1> QED
  BY <1>2, <1>3, <1>4 DEF K, seeds

\* A count of at least one keeps what is newer than the rest of its dataset.
LEMMA NewestKept ==
  ASSUME NEW all, NEW n \in Nat, n >= 1, NEW x \in In(all), NEW pinned, NEW cutoff,
         \A y \in In(all) : DatasetOf[y] = DatasetOf[x] =>
           ~(all[y].created_at > all[x].created_at)
  PROVE  x \in KeepSet(all, pinned, cutoff, n)
<1> DEFINE above == {y \in In(all) : /\ DatasetOf[y] = DatasetOf[x]
                                     /\ all[y].created_at > all[x].created_at}
<1>1. above = {}
  OBVIOUS
<1>2. Cardinality(above) = 0
  BY <1>1, FS_EmptySet
<1>3. Cardinality(above) < n
  BY <1>2
<1> HIDE DEF above
<1>4. x \in Newest(all, n)
  BY <1>3 DEF Newest, above
<1>5. x \in Seeds(all, pinned, cutoff, n)
  BY <1>4 DEF Seeds
<1> QED
  BY <1>5, KeepFacts

\* A pin is a seed.
LEMMA PinsKept ==
  ASSUME NEW all, NEW n, NEW pinned, NEW cutoff, NEW x \in In(all), x \in pinned
  PROVE  x \in KeepSet(all, pinned, cutoff, n)
BY KeepFacts DEF Seeds

(***************************************************************************)
(* Types.                                                                  *)
(***************************************************************************)
\* A send begins from no base or from a candidate, the newest if it is picked.
LEMMA BeginFacts ==
  ASSUME TypeOK, NEW s \in Senders, SendAuto(s) \/ SendManual(s)
  PROVE  \E x \in Snaps, base \in Snaps \cup {None}, auto \in BOOLEAN :
           /\ Begin(s, x, base, auto)
           /\ base # None =>
                /\ base \in Candidates(x)
                /\ auto => \A c \in Candidates(x) :
                             listed[c].created_at <= listed[base].created_at
<1>1. \A x \in Snaps : Candidates(x) \subseteq Snaps
  BY CandidateFacts, ManifestFacts
<1>2. CASE SendAuto(s)
  <2>1. PICK x \in Snaps : Begin(s, x, AutoBase(x), TRUE)
    BY <1>2 DEF SendAuto
  <2>2. \/ AutoBase(x) = None
        \/ /\ AutoBase(x) \in Candidates(x)
           /\ \A c \in Candidates(x) : listed[c].created_at <= listed[AutoBase(x)].created_at
    BY AutoBaseFacts
  <2> QED
    BY <1>1, <2>1, <2>2
<1>3. CASE SendManual(s)
  <2>1. PICK x \in Snaps : \E base \in Candidates(x) \cup {None} : Begin(s, x, base, FALSE)
    BY <1>3 DEF SendManual
  <2> QED
    BY <1>1, <2>1
<1> QED
  BY <1>2, <1>3

\* What begins is a send of a dataset under one of its names.
LEMMA BeginTypes ==
  ASSUME TypeOK, NEW s \in Senders, NEW x \in Snaps, NEW base \in Snaps \cup {None},
         NEW auto \in BOOLEAN, Begin(s, x, base, auto)
  PROVE  send' \in [Senders -> Sends \cup {None}]
<1> USE ChainAssumption
<1>1. PICK name \in NamesOf[DatasetOf[x]] :
        send' = [send EXCEPT ![s] =
                   [snap |-> x, from |-> base, dataset |-> name, auto |-> auto]]
  BY DEF Begin
<1>2. DatasetOf[x] \in Datasets
  BY DEF Datasets
<1>3. name \in Names
  BY <1>1, <1>2
<1>4. [snap |-> x, from |-> base, dataset |-> name, auto |-> auto] \in Sends
  BY <1>3 DEF Sends
<1> QED
  BY <1>1, <1>4 DEF TypeOK

\* The manifest a send commits.
Committed(s) ==
  [from |-> send[s].from, created_at |-> clock + 1, dataset |-> send[s].dataset]

\* What a commit puts is a manifest.
LEMMA CommitTypes ==
  ASSUME TypeOK, NEW s \in Senders, Commit(s)
  PROVE  /\ send[s] \in Sends
         /\ send[s].snap \in Snaps /\ send[s].from \in Snaps \cup {None}
         /\ Committed(s) \in Manifests /\ Committed(s) # None
         /\ listed' = [listed EXCEPT ![send[s].snap] = Committed(s)]
         /\ clock' = clock + 1 /\ clock' \in 0 .. MaxTime
<1> USE ChainAssumption
<1>1. send[s] \in Sends
  BY DEF Commit, TypeOK
<1>2. send[s].snap \in Snaps /\ send[s].from \in Snaps \cup {None} /\ send[s].dataset \in Names
  BY <1>1 DEF Sends
<1>3. clock \in Nat /\ clock < MaxTime /\ clock' = clock + 1
  BY DEF Commit, TypeOK
<1>4. Committed(s) \in Manifests
  BY <1>2, <1>3 DEF Committed, Manifests
<1>5. listed' = [listed EXCEPT ![send[s].snap] = Committed(s)]
  BY DEF Commit, Committed
<1> QED
  BY <1>1, <1>2, <1>3, <1>4, <1>5

\* Nothing is archived at first.
LEMMA TypeInit == Init => TypeOK
<1> USE ChainAssumption
<1>1. [x \in Snaps |-> None] \in Listing
  BY DEF Listing
<1> QED
  BY <1>1 DEF Init, TypeOK

\* Every step keeps the types.
LEMMA TypeStep == TypeOK /\ [Next]_vars => TypeOK'
<1> SUFFICES ASSUME TypeOK, [Next]_vars PROVE TypeOK'
  OBVIOUS
<1> USE ChainAssumption
<1>1. ASSUME NEW s \in Senders, SendAuto(s) \/ SendManual(s) PROVE TypeOK'
  <2>1. PICK x \in Snaps, base \in Snaps \cup {None}, auto \in BOOLEAN : Begin(s, x, base, auto)
    BY <1>1, BeginFacts
  <2>2. send' \in [Senders -> Sends \cup {None}]
    BY <2>1, BeginTypes
  <2> QED
    BY <2>1, <2>2 DEF Begin, TypeOK, local
<1>2. ASSUME NEW s \in Senders, Commit(s) PROVE TypeOK'
  <2>1. listed' \in Listing
    BY <1>2, CommitTypes DEF TypeOK, Listing
  <2>2. send' \in [Senders -> Sends \cup {None}]
    BY <1>2 DEF Commit, TypeOK
  <2>3. marks' \subseteq marks \cup {send[s].snap}
    BY <1>2 DEF Commit
  <2>4. marks' \subseteq Snaps
    BY <1>2, <2>3, CommitTypes DEF TypeOK
  <2>5. clock' \in 0 .. MaxTime
    BY <1>2, CommitTypes
  <2>6. UNCHANGED <<pins, snaps, seen, doomed>>
    BY <1>2 DEF Commit
  <2> QED
    BY <2>1, <2>2, <2>4, <2>5, <2>6 DEF TypeOK
<1>3. ASSUME NEW s \in Senders, SendStop(s) PROVE TypeOK'
  <2>1. send' \in [Senders -> Sends \cup {None}]
    BY <1>3 DEF SendStop, TypeOK
  <2> QED
    BY <1>3, <2>1 DEF SendStop, TypeOK, local
<1>4. ASSUME NEW e \in Expirers, ExpireRead(e) PROVE TypeOK'
  <2>1. PICK scope \in Scopes : seen' = [seen EXCEPT ![e] =
            [x \in Snaps |->
               IF x \in Listed /\ InScope(scope, listed[x]) THEN listed[x] ELSE None]]
    BY <1>4 DEF ExpireRead
  <2>2. [x \in Snaps |->
           IF x \in Listed /\ InScope(scope, listed[x]) THEN listed[x] ELSE None] \in Listing
    BY DEF Listing, TypeOK
  <2>3. seen' \in [Expirers -> Listing \cup {None}]
    BY <2>1, <2>2 DEF TypeOK
  <2> QED
    BY <1>4, <2>3 DEF ExpireRead, TypeOK, local
<1>5. ASSUME NEW e \in Expirers, ExpirePlan(e) PROVE TypeOK'
  <2>1. PICK policy \in Policies : \E cutoff \in Cutoffs(policy) :
          doomed' = [doomed EXCEPT ![e] =
                       In(seen[e]) \ KeepSet(seen[e], pins, cutoff, KeepLast(policy))]
    BY <1>5 DEF ExpirePlan
  <2> PICK cutoff \in Cutoffs(policy) :
          doomed' = [doomed EXCEPT ![e] =
                       In(seen[e]) \ KeepSet(seen[e], pins, cutoff, KeepLast(policy))]
    BY <2>1
  <2>2. In(seen[e]) \ KeepSet(seen[e], pins, cutoff, KeepLast(policy)) \subseteq Snaps
    BY DEF In
  <2>3. doomed' \in [Expirers -> SUBSET Snaps]
    BY <2>2 DEF TypeOK
  <2>4. seen' \in [Expirers -> Listing \cup {None}]
    BY <1>5 DEF ExpirePlan, TypeOK
  <2> QED
    BY <1>5, <2>3, <2>4 DEF ExpirePlan, TypeOK, local
<1>6. ASSUME NEW e \in Expirers, ExpireDelete(e) PROVE TypeOK'
  <2>1. PICK x \in doomed[e] : /\ listed' = [listed EXCEPT ![x] = None]
                               /\ doomed' = [doomed EXCEPT ![e] = @ \ {x}]
    BY <1>6 DEF ExpireDelete
  <2>2. listed' \in Listing
    BY <2>1 DEF TypeOK, Listing
  <2>3. doomed' \in [Expirers -> SUBSET Snaps]
    BY <2>1 DEF TypeOK
  <2> QED
    BY <1>6, <2>2, <2>3 DEF ExpireDelete, TypeOK, local
<1>7. ASSUME NEW e \in Expirers, ExpireStop(e) PROVE TypeOK'
  <2>1. seen' \in [Expirers -> Listing \cup {None}] /\ doomed' \in [Expirers -> SUBSET Snaps]
    BY <1>7 DEF ExpireStop, TypeOK
  <2> QED
    BY <1>7, <2>1 DEF ExpireStop, TypeOK, local
<1>8. ASSUME NEW x \in Snaps, OwnerNext(x) PROVE TypeOK'
  BY <1>8 DEF OwnerNext, Pin, Unpin, DestroySnapshot, TypeOK, local
<1>9. CASE UNCHANGED vars
  BY <1>9 DEF TypeOK, vars, local
<1> QED
  BY <1>1, <1>2, <1>3, <1>4, <1>5, <1>6, <1>7, <1>8, <1>9 DEF Next, SendNext, ExpireNext

\* Every variable keeps its type: the base that is picked exists, the time a
\* manifest is given is within the bound, what is planned are snapshots.
THEOREM TypeCorrect == Spec => []TypeOK
BY TypeInit, TypeStep, PTL DEF Spec

\* What retention has read or condemned.
LEMMA RetainedFacts ==
  ASSUME NEW e \in Expirers
  PROVE  /\ doomed[e] \subseteq Retained
         /\ seen[e] # None => In(seen[e]) \subseteq Retained
BY DEF Retained, Expiring

(***************************************************************************)
(* What the invariant says of the base of a send that retention overlaps.  *)
(***************************************************************************)
LEMMA BaseIsLatest ==
  ASSUME TypeOK, SendsAppend, SendInv,
         NEW s \in Senders, send[s] # None, send[s].from # None,
         \E y \in Retained : DatasetOf[y] = DatasetOf[send[s].snap]
  PROVE  /\ send[s].from \in Latest(DatasetOf[send[s].snap])
         /\ DatasetOf[send[s].snap] \in Datasets
<1> DEFINE x == send[s].snap
           base == send[s].from
           d == DatasetOf[x]
           L == {y \in Listed : DatasetOf[y] = d}
<1>1. base \in Listed /\ DatasetOf[base] = d
  BY DEF SendInv
<1>2. send[s].auto /\ Latest(d) \subseteq Candidates(x)
  BY DEF SendsAppend
<1>3. \A c \in Candidates(x) : listed[c].created_at <= listed[base].created_at
  BY <1>2 DEF SendInv
<1>4. L \subseteq Listed /\ L # {}
  BY <1>1
<1>5. PICK l \in L : \A y \in L : listed[y].created_at <= listed[l].created_at
  BY <1>4, NewestExists
<1>6. l \in Latest(d)
  BY <1>5 DEF Latest
<1>7. listed[l].created_at <= listed[base].created_at
  BY <1>2, <1>3, <1>6
<1>8. \A y \in Listed : listed[y].created_at \in Nat
  BY ManifestFacts
<1>9. \A y \in L : listed[y].created_at <= listed[base].created_at
  BY <1>1, <1>5, <1>7, <1>8
<1>10. base \in Latest(d)
  BY <1>1, <1>9 DEF Latest
<1>11. base \in Snaps
  BY <1>1, ManifestFacts
<1>12. d \in Datasets
  BY <1>1, <1>11, ManifestFacts
<1> QED
  BY <1>10, <1>12

\* Retention deletes one at a time, maybe one that is gone already.
LEMMA DeleteFacts ==
  ASSUME TypeOK, NEW e \in Expirers, ExpireDelete(e)
  PROVE  \E z \in doomed[e] :
           /\ doomed' = [doomed EXCEPT ![e] = @ \ {z}]
           /\ Listed' = Listed \ {z}
           /\ \A y \in Listed \ {z} : listed'[y] = listed[y]
<1>1. PICK z \in doomed[e] : /\ listed' = [listed EXCEPT ![z] = None]
                             /\ doomed' = [doomed EXCEPT ![e] = @ \ {z}]
  BY DEF ExpireDelete
<1>2. listed \in [Snaps -> Manifests \cup {None}]
  BY DEF TypeOK, Listing
<1>3. \A y \in Snaps : listed'[y] = IF y = z THEN None ELSE listed[y]
  BY <1>1, <1>2
<1>4. Listed' = Listed \ {z} /\ \A y \in Listed \ {z} : listed'[y] = listed[y]
  BY <1>3 DEF Listed
<1> QED
  BY <1>1, <1>4

\* A commit lists what was sent and changes no other manifest.
LEMMA CommitFacts ==
  ASSUME TypeOK, SendInv, NEW s \in Senders, Commit(s)
  PROVE  LET x == send[s].snap
         IN  /\ x \in Snaps /\ x \notin Listed
             /\ Listed' = Listed \cup {x}
             /\ listed'[x] = Committed(s)
             /\ \A y \in Listed : y # x /\ listed'[y] = listed[y]
<1> DEFINE x == send[s].snap
<1>1. x \in Snaps /\ Committed(s) # None /\ listed' = [listed EXCEPT ![x] = Committed(s)]
  BY CommitTypes
<1>2. send[s] # None
  BY DEF Commit
<1>3. x \notin Listed
  BY <1>2 DEF SendInv
<1>4. listed \in [Snaps -> Manifests \cup {None}]
  BY DEF TypeOK, Listing
<1> HIDE DEF x
<1>5. \A y \in Snaps : listed'[y] = IF y = x THEN Committed(s) ELSE listed[y]
  BY <1>1, <1>4
<1>6. Listed' = Listed \cup {x}
  BY <1>1, <1>5 DEF Listed
<1>7. \A y \in Listed : y # x /\ y \in Snaps
  BY <1>3 DEF Listed
<1> QED
  BY <1>1, <1>3, <1>5, <1>6, <1>7 DEF x

(***************************************************************************)
(* The parts of the invariant, where a step leaves what they are about.    *)
(***************************************************************************)
LEMMA ManifestFrame ==
  ASSUME ManifestInv, UNCHANGED <<listed, clock>>
  PROVE  ManifestInv'
BY DEF ManifestInv, Listed

\* Fewer snapshots leave fewer candidates.
LEMMA SendFrame ==
  ASSUME SendInv, UNCHANGED <<listed, marks, send>>, snaps' \subseteq snaps
  PROVE  SendInv'
<1>1. Listed' = Listed
  BY DEF Listed
<1>2. \A x : Candidates(x)' \subseteq Candidates(x)
  BY <1>1 DEF Candidates
<1> QED
  BY <1>1, <1>2 DEF SendInv

\* SeenInv is about what is listed and what retention has in hand.
LEMMA SeenFrame ==
  ASSUME SeenInv, UNCHANGED <<listed, seen, doomed>>
  PROVE  SeenInv'
BY DEF SeenInv, Listed, In

\* DoomInv is about the pins as well, which may be taken off or put elsewhere.
LEMMA DoomFrame ==
  ASSUME DoomInv, UNCHANGED <<listed, doomed>>, PinsAside
  PROVE  DoomInv'
<1>1. Listed' = Listed /\ \A d : Latest(d)' = Latest(d)
  BY DEF Listed, Latest
<1>2. \A e \in Expirers : pins' \cap doomed[e] = {}
  BY DEF DoomInv, PinsAside, Expiring
<1> QED
  BY <1>1, <1>2 DEF DoomInv

(***************************************************************************)
(* One lemma per action: what it makes of the parts it disturbs.           *)
(***************************************************************************)
Parts == ManifestInv /\ SendInv /\ SeenInv /\ DoomInv

\* Pins that are left alone are not put on what is condemned.
LEMMA PinsKeptAside == UNCHANGED pins => PinsAside
BY DEF PinsAside

\* A send begins with the base it has picked; the others go on as they were.
LEMMA BeginStep ==
  ASSUME TypeOK, Parts, NEW s \in Senders, SendAuto(s) \/ SendManual(s)
  PROVE  Parts'
<1>1. PICK x \in Snaps, base \in Snaps \cup {None}, auto \in BOOLEAN :
        /\ Begin(s, x, base, auto)
        /\ base # None =>
             /\ base \in Candidates(x)
             /\ auto => \A c \in Candidates(x) :
                          listed[c].created_at <= listed[base].created_at
  BY BeginFacts
<1>2. UNCHANGED <<listed, pins, snaps, marks, clock, seen, doomed>> /\ x \notin Listed
  BY <1>1 DEF Begin, local
<1>3. PICK name \in NamesOf[DatasetOf[x]] :
        send' = [send EXCEPT ![s] =
                   [snap |-> x, from |-> base, dataset |-> name, auto |-> auto]]
  BY <1>1 DEF Begin
<1>4. /\ send'[s] = [snap |-> x, from |-> base, dataset |-> name, auto |-> auto]
      /\ \A t \in Senders : t # s => send'[t] = send[t]
  BY <1>3 DEF TypeOK
<1>5. /\ send'[s].snap = x /\ send'[s].from = base
      /\ send'[s].dataset = name /\ send'[s].auto = auto
  BY <1>4
<1>6. Listed' = Listed /\ \A y : Candidates(y)' = Candidates(y)
  BY <1>2 DEF Listed, Candidates
<1>7. base # None => base \in Listed /\ DatasetOf[base] = DatasetOf[x]
  BY <1>1, CandidateFacts
<1>8. SendInv'
  <2> SUFFICES ASSUME NEW t \in Senders, send'[t] # None
               PROVE  /\ send'[t].snap \notin Listed
                      /\ send'[t].dataset \in NamesOf[DatasetOf[send'[t].snap]]
                      /\ send'[t].from # None =>
                           /\ send'[t].from \in Listed
                           /\ DatasetOf[send'[t].from] = DatasetOf[send'[t].snap]
                           /\ send'[t].auto => \A c \in Candidates(send'[t].snap) :
                                listed[c].created_at <= listed[send'[t].from].created_at
    BY <1>2, <1>6 DEF SendInv
  <2>1. CASE t = s
    BY <1>1, <1>2, <1>3, <1>5, <1>7, <2>1
  <2>2. CASE t # s
    BY <1>4, <2>2 DEF Parts, SendInv
  <2> QED
    BY <2>1, <2>2
<1> QED
  BY <1>2, <1>8, ManifestFrame, SeenFrame, DoomFrame, PinsKeptAside DEF Parts

\* A commit appends to the newest, or begins a chain, and is in no run's hand.
LEMMA CommitStep ==
  ASSUME TypeOK, Parts, Schedule, NEW s \in Senders, Commit(s)
  PROVE  Parts'
<1> USE DEF Parts
<1> DEFINE x == send[s].snap
           base == send[s].from
           m == Committed(s)
<1>1. /\ x \in Snaps /\ x \notin Listed
      /\ Listed' = Listed \cup {x}
      /\ listed'[x] = m
      /\ \A y \in Listed : y # x /\ listed'[y] = listed[y]
  BY CommitFacts
<1>2. m.from = base /\ m.created_at = clock + 1 /\ m.dataset = send[s].dataset
  BY DEF Committed
<1>3. send[s] # None /\ clock' = clock + 1 /\ UNCHANGED <<pins, snaps, seen, doomed>>
  BY DEF Commit
<1>4. /\ send[s].dataset \in NamesOf[DatasetOf[x]]
      /\ base # None => base \in Listed /\ DatasetOf[base] = DatasetOf[x]
  BY <1>3 DEF SendInv
<1>5. x \notin Retained
  BY <1>3 DEF Schedule, SendsFresh
<1>6. Listed \subseteq Snaps /\ None \notin Snaps
  BY ManifestFacts
<1>7. ASSUME base \in Retained, base # None
       PROVE  base \in Latest(DatasetOf[x]) /\ DatasetOf[x] \in Datasets
  <2>1. \E y \in Retained : DatasetOf[y] = DatasetOf[x]
    BY <1>4, <1>7
  <2> QED
    BY <1>3, <1>7, <2>1, BaseIsLatest DEF Schedule
<1>8. /\ \A t \in Senders : t # s => send'[t] = send[t]
      /\ send'[s] = None
  BY DEF Commit, TypeOK
<1>9. \A t \in Senders : t # s /\ send[t] # None => DatasetOf[send[t].snap] # DatasetOf[x]
  BY <1>3 DEF Schedule, SendsApart
<1>10. marks' \subseteq marks \cup {x}
  BY DEF Commit
<1> HIDE DEF m, x, base
<1>11. ManifestInv'
  <2>1. clock \in Nat
    BY DEF TypeOK
  <2>2. \A y \in Listed : listed[y].created_at \in Nat /\ listed[y].created_at <= clock
    BY ManifestFacts DEF ManifestInv
  <2>3. ASSUME NEW y \in Listed'
        PROVE  /\ listed'[y].created_at <= clock'
               /\ listed'[y].dataset \in NamesOf[DatasetOf[y]]
               /\ listed'[y].from # None => DatasetOf[listed'[y].from] = DatasetOf[y]
    <3>1. CASE y = x
      BY <1>1, <1>2, <1>3, <1>4, <2>1, <3>1
    <3>2. CASE y \in Listed
      BY <1>1, <1>3, <2>1, <2>2, <3>2 DEF ManifestInv
    <3> QED
      BY <1>1, <3>1, <3>2
  <2>4. ASSUME NEW y \in Listed', NEW z \in Listed',
               listed'[y].created_at = listed'[z].created_at
        PROVE  y = z
    <3>1. CASE y \in Listed /\ z \in Listed
      BY <1>1, <2>4, <3>1 DEF ManifestInv
    <3>2. \A w \in Listed : listed'[w].created_at <= clock
      BY <1>1, <2>2
    <3>3. listed'[x].created_at = clock + 1
      BY <1>1, <1>2
    <3>4. \A w \in Listed : listed'[w].created_at # listed'[x].created_at
      BY <1>1, <2>1, <2>2, <3>2, <3>3
    <3> QED
      BY <1>1, <2>4, <3>1, <3>4
  <2> QED
    BY <2>3, <2>4 DEF ManifestInv
<1>12. SendInv'
  <2> SUFFICES ASSUME NEW t \in Senders, send'[t] # None
               PROVE  /\ send'[t].snap \notin Listed'
                      /\ send'[t].dataset \in NamesOf[DatasetOf[send'[t].snap]]
                      /\ send'[t].from # None =>
                           /\ send'[t].from \in Listed'
                           /\ DatasetOf[send'[t].from] = DatasetOf[send'[t].snap]
                           /\ send'[t].auto => \A c \in Candidates(send[t].snap)' :
                                listed'[c].created_at <= listed'[send'[t].from].created_at
    BY DEF SendInv
  <2>0. t # s /\ send'[t] = send[t] /\ send[t] # None
    BY <1>8
  <2> DEFINE y == send[t].snap
  <2>1. y # x /\ \A c : DatasetOf[c] = DatasetOf[y] => c # x
    BY <1>9, <2>0
  <2>2. Candidates(y)' \subseteq Candidates(y)
    <3>1. Candidates(y)' = {b \in Listed' : DatasetOf[b] = DatasetOf[y] /\ b \in snaps' \cup marks' /\ b < y}
      BY <2>0 DEF Candidates
    <3> HIDE DEF y
    <3> QED
      BY <1>1, <1>3, <1>10, <2>1, <3>1 DEF Candidates
  <2>3. Candidates(y) \subseteq Listed
    BY DEF Candidates
  <2>4. /\ y \notin Listed
        /\ send[t].dataset \in NamesOf[DatasetOf[y]]
        /\ send[t].from # None =>
             /\ send[t].from \in Listed
             /\ DatasetOf[send[t].from] = DatasetOf[y]
             /\ send[t].auto => \A c \in Candidates(y) :
                  listed[c].created_at <= listed[send[t].from].created_at
    BY <2>0 DEF SendInv
  <2> QED
    BY <1>1, <2>0, <2>1, <2>2, <2>3, <2>4
<1>13. SeenInv'
  <2> SUFFICES ASSUME NEW e \in Expirers, seen[e] # None
               PROVE  LET R == In(seen[e])
                      IN  /\ doomed[e] = {}
                          /\ \A y \in R : /\ y \in Listed' => listed'[y] = seen[e][y]
                                          /\ \E l \in Listed' :
                                               /\ DatasetOf[l] = DatasetOf[y]
                                               /\ seen[e][y].created_at <= listed'[l].created_at
                          /\ \A y \in Listed' \ R : listed'[y].from \in R =>
                               \A z \in R : DatasetOf[z] = DatasetOf[y] =>
                                 seen[e][z].created_at <= seen[e][listed'[y].from].created_at
    BY <1>3 DEF SeenInv, In
  <2> DEFINE R == In(seen[e])
  <2>1. /\ doomed[e] = {}
        /\ \A y \in R : /\ y \in Listed => listed[y] = seen[e][y]
                        /\ \E l \in Listed : /\ DatasetOf[l] = DatasetOf[y]
                                             /\ seen[e][y].created_at <= listed[l].created_at
        /\ \A y \in Listed \ R : listed[y].from \in R =>
             \A z \in R : DatasetOf[z] = DatasetOf[y] =>
               seen[e][z].created_at <= seen[e][listed[y].from].created_at
    BY DEF SeenInv
  <2>2. R \subseteq Retained /\ R \subseteq Snaps /\ x \notin R
    BY <1>5, RetainedFacts, SeenFacts
  <2>3. /\ \A y \in R : seen[e][y].created_at \in Nat
        /\ \A y \in Listed : listed[y].created_at \in Nat
    BY SeenFacts, ManifestFacts
  <2> HIDE DEF R
  <2>4. ASSUME NEW y \in Listed' \ R, listed'[y].from \in R,
               NEW z \in R, DatasetOf[z] = DatasetOf[y]
        PROVE  seen[e][z].created_at <= seen[e][listed'[y].from].created_at
    <3>1. CASE y = x
      <4>1. listed'[y].from = base /\ base \in R
        BY <1>1, <1>2, <2>4, <3>1
      <4>2. base # None /\ base \in Retained /\ base \in Listed
        BY <1>4, <1>6, <2>2, <4>1
      <4>3. base \in Latest(DatasetOf[x])
        BY <1>7, <4>2
      <4>4. PICK l \in Listed : /\ DatasetOf[l] = DatasetOf[z]
                                /\ seen[e][z].created_at <= listed[l].created_at
        BY <2>1, <2>4
      <4>5. listed[l].created_at <= listed[base].created_at
        BY <2>4, <3>1, <4>3, <4>4 DEF Latest
      <4>6. listed[base] = seen[e][base]
        BY <2>1, <4>1, <4>2
      <4>7. seen[e][z].created_at <= listed[base].created_at
        BY <2>3, <2>4, <4>2, <4>4, <4>5
      <4> QED
        BY <4>1, <4>6, <4>7
    <3>2. CASE y \in Listed
      BY <1>1, <2>1, <2>4, <3>2
    <3> QED
      BY <1>1, <3>1, <3>2
  <2>5. ASSUME NEW y \in R
        PROVE  /\ y \in Listed' => listed'[y] = seen[e][y]
               /\ \E l \in Listed' : /\ DatasetOf[l] = DatasetOf[y]
                                     /\ seen[e][y].created_at <= listed'[l].created_at
    <3>1. y \in Listed' => listed'[y] = seen[e][y]
      BY <1>1, <2>1, <2>2
    <3>2. PICK l \in Listed : /\ DatasetOf[l] = DatasetOf[y]
                              /\ seen[e][y].created_at <= listed[l].created_at
      BY <2>1
    <3>3. l \in Listed' /\ listed'[l] = listed[l]
      BY <1>1
    <3> QED
      BY <3>1, <3>2, <3>3
  <2> QED
    BY <2>1, <2>4, <2>5 DEF R
<1>14. DoomInv'
  <2> SUFFICES ASSUME NEW e \in Expirers
               PROVE  /\ \A y \in Listed' \ doomed[e] : listed'[y].from \notin doomed[e]
                      /\ \A d \in Datasets : Latest(d)' \cap doomed[e] = {}
                      /\ pins \cap doomed[e] = {}
    BY <1>3 DEF DoomInv
  <2>1. doomed[e] \subseteq Retained /\ doomed[e] \subseteq Snaps /\ x \notin doomed[e]
    BY <1>5, RetainedFacts DEF TypeOK
  <2>2. ASSUME NEW y \in Listed' \ doomed[e] PROVE listed'[y].from \notin doomed[e]
    <3>1. CASE y = x
      <4>1. listed'[y].from = base
        BY <1>1, <1>2, <3>1
      <4>2. SUFFICES ASSUME base \in doomed[e] PROVE FALSE
        BY <4>1
      <4>3. base # None /\ base \in Retained
        BY <1>6, <2>1, <4>2
      <4>4. base \in Latest(DatasetOf[x]) /\ DatasetOf[x] \in Datasets
        BY <1>7, <4>3
      <4> QED
        BY <4>2, <4>4 DEF DoomInv
    <3>2. CASE y \in Listed
      BY <1>1, <2>2, <3>2 DEF DoomInv
    <3> QED
      BY <1>1, <3>1, <3>2
  <2>3. ASSUME NEW d \in Datasets PROVE Latest(d)' \cap doomed[e] = {}
    <3>1. Latest(d)' \subseteq Latest(d) \cup {x}
      BY <1>1 DEF Latest
    <3> QED
      BY <2>1, <3>1 DEF DoomInv
  <2>4. pins \cap doomed[e] = {}
    BY DEF DoomInv
  <2> QED
    BY <2>2, <2>3, <2>4
<1> QED
  BY <1>11, <1>12, <1>13, <1>14

\* A send that ends without a commit leaves nothing.
LEMMA SendStopStep ==
  ASSUME TypeOK, Parts, NEW s \in Senders, SendStop(s)
  PROVE  Parts'
<1>1. /\ send'[s] = None
      /\ \A t \in Senders : t # s => send'[t] = send[t]
  BY DEF SendStop, TypeOK
<1>2. UNCHANGED <<listed, pins, snaps, marks, clock, seen, doomed>>
  BY DEF SendStop, local
<1>3. Listed' = Listed /\ \A y : Candidates(y)' = Candidates(y)
  BY <1>2 DEF Listed, Candidates
<1>4. SendInv'
  <2> SUFFICES ASSUME NEW t \in Senders, send'[t] # None
               PROVE  /\ send'[t].snap \notin Listed
                      /\ send'[t].dataset \in NamesOf[DatasetOf[send'[t].snap]]
                      /\ send'[t].from # None =>
                           /\ send'[t].from \in Listed
                           /\ DatasetOf[send'[t].from] = DatasetOf[send'[t].snap]
                           /\ send'[t].auto => \A c \in Candidates(send'[t].snap) :
                                listed[c].created_at <= listed[send'[t].from].created_at
    BY <1>2, <1>3 DEF SendInv
  <2>0. t # s /\ send'[t] = send[t] /\ send[t] # None
    BY <1>1
  <2> QED
    BY <2>0 DEF Parts, SendInv
<1> QED
  BY <1>2, <1>4, ManifestFrame, SeenFrame, DoomFrame, PinsKeptAside DEF Parts

\* No dataset is renamed, so the scope holds whole chains.
LEMMA ReadStep ==
  ASSUME TypeOK, Parts, NeverRenamed, NEW e \in Expirers, ExpireRead(e)
  PROVE  Parts'
<1> USE DEF Parts
<1>1. PICK scope \in Scopes : seen' = [seen EXCEPT ![e] =
          [x \in Snaps |->
             IF x \in Listed /\ InScope(scope, listed[x]) THEN listed[x] ELSE None]]
  BY DEF ExpireRead
<1> DEFINE all == [x \in Snaps |->
              IF x \in Listed /\ InScope(scope, listed[x]) THEN listed[x] ELSE None]
           R == In(all)
<1>2. UNCHANGED <<listed, pins, snaps, marks, clock, send, doomed>>
  BY DEF ExpireRead, local
<1>3. doomed[e] = {}
  BY DEF ExpireRead, Retaining
<1>4. seen'[e] = all /\ \A f \in Expirers : f # e => seen'[f] = seen[f]
  BY <1>1 DEF TypeOK
<1>5. \A x \in Snaps : all[x] = IF x \in Listed /\ InScope(scope, listed[x]) THEN listed[x] ELSE None
  OBVIOUS
<1> HIDE DEF all
<1>6. \A x \in R : x \in Listed /\ listed[x] = all[x] /\ InScope(scope, listed[x])
  BY <1>5 DEF In
<1>7. \A x \in Listed : x \notin R => ~InScope(scope, listed[x])
  BY <1>5, ManifestFacts DEF In, Listed
<1> HIDE DEF R
<1>8. ASSUME NEW x \in Listed \ R, listed[x].from \in R PROVE FALSE
  <2> DEFINE b == listed[x].from
  <2>1. b \in Listed /\ b \in Snaps /\ None \notin Snaps /\ x \in Snaps
    BY <1>6, <1>8, ManifestFacts
  <2>2. DatasetOf[b] = DatasetOf[x] /\ DatasetOf[x] \in Datasets
    BY <2>1, <1>8, ManifestFacts DEF ManifestInv
  <2>3. /\ listed[b].dataset \in NamesOf[DatasetOf[x]]
        /\ listed[x].dataset \in NamesOf[DatasetOf[x]]
    BY <2>1, <2>2, <1>8 DEF ManifestInv
  <2>4. PICK name \in Names : NamesOf[DatasetOf[x]] = {name}
    BY <2>2 DEF NeverRenamed
  <2>5. listed[b].dataset = listed[x].dataset
    BY <2>3, <2>4
  <2>6. InScope(scope, listed[b]) /\ ~InScope(scope, listed[x])
    BY <1>6, <1>7, <1>8
  <2> QED
    BY <2>5, <2>6 DEF InScope
<1>9. Listed' = Listed
  BY <1>2 DEF Listed
<1>10. SeenInv'
  <2> SUFFICES ASSUME NEW f \in Expirers, seen'[f] # None
               PROVE  /\ doomed[f] = {}
                      /\ \A y \in In(seen'[f]) :
                           /\ y \in Listed => listed[y] = seen'[f][y]
                           /\ \E l \in Listed : /\ DatasetOf[l] = DatasetOf[y]
                                                /\ seen'[f][y].created_at <= listed[l].created_at
                      /\ \A x \in Listed \ In(seen'[f]) : listed[x].from \in In(seen'[f]) =>
                           \A y \in In(seen'[f]) : DatasetOf[y] = DatasetOf[x] =>
                             seen'[f][y].created_at <= seen'[f][listed[x].from].created_at
    BY <1>2, <1>9 DEF SeenInv, In
  <2>1. CASE f = e
    <3>1. seen'[f] = all /\ In(seen'[f]) = R
      BY <1>4, <2>1 DEF R
    <3>2. \A y \in R : all[y].created_at <= listed[y].created_at
      BY <1>6, ManifestFacts
    <3> QED
      BY <1>3, <1>6, <1>8, <2>1, <3>1, <3>2
  <2>2. CASE f # e
    <3>1. seen'[f] = seen[f]
      BY <1>4, <2>2
    <3> QED
      BY <3>1 DEF SeenInv
  <2> QED
    BY <2>1, <2>2
<1> QED
  BY <1>2, <1>10, ManifestFrame, SendFrame, DoomFrame, PinsKeptAside

\* What is kept has its bases kept; what was sent since has the newest as its base.
LEMMA PlanStep ==
  ASSUME TypeOK, Parts, NewestCounts, NEW e \in Expirers, ExpirePlan(e)
  PROVE  Parts'
<1> USE DEF Parts
<1>1. PICK policy \in Policies : \E cutoff \in Cutoffs(policy) :
        /\ Accepted(policy)
        /\ doomed' = [doomed EXCEPT ![e] =
                        In(seen[e]) \ KeepSet(seen[e], pins, cutoff, KeepLast(policy))]
  BY DEF ExpirePlan
<1> PICK cutoff \in Cutoffs(policy) :
        /\ Accepted(policy)
        /\ doomed' = [doomed EXCEPT ![e] =
                        In(seen[e]) \ KeepSet(seen[e], pins, cutoff, KeepLast(policy))]
  BY <1>1
<1> DEFINE all == seen[e]
           R == In(all)
           n == KeepLast(policy)
           K == KeepSet(all, pins, cutoff, n)
<1>2. /\ UNCHANGED <<listed, pins, snaps, marks, clock, send>>
      /\ seen[e] # None /\ seen' = [seen EXCEPT ![e] = None]
  BY DEF ExpirePlan, local
<1>3. n \in Nat /\ n >= 1
  <2>1. policy \in [older_than : BOOLEAN, keep_last : Nat \cup {None}]
    BY ChainAssumption
  <2>2. KeepLast(policy) \in Nat
    BY <2>1 DEF KeepLast
  <2> QED
    BY <2>2 DEF NewestCounts
<1>4. /\ seen'[e] = None /\ doomed'[e] = R \ K
      /\ \A f \in Expirers : f # e => seen'[f] = seen[f] /\ doomed'[f] = doomed[f]
  BY <1>2 DEF TypeOK
<1>5. Listed' = Listed /\ \A d : Latest(d)' = Latest(d)
  BY <1>2 DEF Listed, Latest
<1>6. /\ \A y \in R : /\ y \in Listed => listed[y] = all[y]
                      /\ \E l \in Listed : /\ DatasetOf[l] = DatasetOf[y]
                                           /\ all[y].created_at <= listed[l].created_at
      /\ \A y \in Listed \ R : listed[y].from \in R =>
           \A z \in R : DatasetOf[z] = DatasetOf[y] =>
             all[z].created_at <= all[listed[y].from].created_at
  BY <1>2 DEF SeenInv
<1>7. /\ \A y \in Listed : listed[y].created_at \in Nat
      /\ \A y \in R : all[y].created_at \in Nat
      /\ R \subseteq Snaps
  BY <1>2, ManifestFacts, SeenFacts
<1>8. ASSUME NEW b \in R,
             \A z \in R : DatasetOf[z] = DatasetOf[b] => all[z].created_at <= all[b].created_at
      PROVE  b \in K
  <2>1. \A z \in R : DatasetOf[z] = DatasetOf[b] => ~(all[z].created_at > all[b].created_at)
    BY <1>7, <1>8
  <2> QED
    BY <1>3, <2>1, NewestKept
<1>9. K \subseteq R /\ \A y \in K : all[y].from \in R => all[y].from \in K
  BY KeepFacts
<1>10. ASSUME NEW y \in R, y \in pins PROVE y \in K
  BY <1>10, PinsKept
<1> HIDE DEF K, R, all, n
<1>11. ASSUME NEW y \in Listed \ (R \ K) PROVE listed[y].from \notin R \ K
  <2> SUFFICES ASSUME listed[y].from \in R PROVE listed[y].from \in K
    OBVIOUS
  <2>1. CASE y \in R
    BY <1>6, <1>9, <1>11, <2>1
  <2>2. CASE y \notin R
    <3> DEFINE b == listed[y].from
    <3>1. \A z \in R : DatasetOf[z] = DatasetOf[y] => all[z].created_at <= all[b].created_at
      BY <1>6, <2>2
    <3>2. DatasetOf[b] = DatasetOf[y]
      <4>1. b \in Snaps /\ None \notin Snaps
        BY <1>7, ManifestFacts
      <4> QED
        BY <4>1 DEF ManifestInv
    <3> QED
      BY <1>8, <3>1, <3>2
  <2> QED
    BY <2>1, <2>2
<1>12. ASSUME NEW d \in Datasets, NEW y \in Latest(d), y \in R PROVE y \in K
  <2>1. y \in Listed /\ DatasetOf[y] = d
    BY DEF Latest
  <2>2. ASSUME NEW z \in R, DatasetOf[z] = d PROVE all[z].created_at <= all[y].created_at
    <3>1. PICK l \in Listed : /\ DatasetOf[l] = d
                              /\ all[z].created_at <= listed[l].created_at
      BY <1>6, <2>2
    <3>2. listed[l].created_at <= listed[y].created_at
      BY <3>1 DEF Latest
    <3>3. listed[y] = all[y]
      BY <1>6, <1>12, <2>1
    <3>4. all[z].created_at <= listed[y].created_at
      BY <1>7, <2>1, <2>2, <3>1, <3>2
    <3> QED
      BY <3>3, <3>4
  <2> QED
    BY <1>8, <1>12, <2>1, <2>2
<1>13. DoomInv'
  <2> SUFFICES ASSUME NEW f \in Expirers
               PROVE  /\ \A y \in Listed \ doomed'[f] : listed[y].from \notin doomed'[f]
                      /\ \A d \in Datasets : Latest(d) \cap doomed'[f] = {}
                      /\ pins \cap doomed'[f] = {}
    BY <1>2, <1>5 DEF DoomInv
  <2>1. CASE f = e
    BY <1>4, <1>10, <1>11, <1>12, <2>1
  <2>2. CASE f # e
    BY <1>4, <2>2 DEF DoomInv
  <2> QED
    BY <2>1, <2>2
<1>14. SeenInv'
  <2> SUFFICES ASSUME NEW f \in Expirers, f # e, seen[f] # None
               PROVE  /\ doomed[f] = {}
                      /\ \A y \in In(seen[f]) :
                           /\ y \in Listed => listed[y] = seen[f][y]
                           /\ \E l \in Listed : /\ DatasetOf[l] = DatasetOf[y]
                                                /\ seen[f][y].created_at <= listed[l].created_at
                      /\ \A x \in Listed \ In(seen[f]) : listed[x].from \in In(seen[f]) =>
                           \A y \in In(seen[f]) : DatasetOf[y] = DatasetOf[x] =>
                             seen[f][y].created_at <= seen[f][listed[x].from].created_at
    BY <1>2, <1>4, <1>5 DEF SeenInv, In
  <2> QED
    BY DEF SeenInv
<1> QED
  BY <1>2, <1>13, <1>14, ManifestFrame, SendFrame

\* What is deleted is not the newest, so the base of a send is not.
LEMMA DeleteStep ==
  ASSUME TypeOK, Parts, Schedule, NEW e \in Expirers, ExpireDelete(e)
  PROVE  Parts'
<1> USE DEF Parts
<1>1. PICK z \in doomed[e] :
        /\ doomed' = [doomed EXCEPT ![e] = @ \ {z}]
        /\ Listed' = Listed \ {z}
        /\ \A y \in Listed \ {z} : listed'[y] = listed[y]
  BY DeleteFacts
<1>2. UNCHANGED <<pins, snaps, marks, clock, send, seen>>
  BY DEF ExpireDelete, local
<1>3. /\ doomed'[e] = doomed[e] \ {z}
      /\ \A f \in Expirers : f # e => doomed'[f] = doomed[f]
  BY <1>1 DEF TypeOK
<1>4. z \in Retained /\ z \in Snaps
  BY RetainedFacts DEF TypeOK
<1>5. \A d \in Datasets : z \notin Latest(d)
  BY DEF DoomInv
<1>6. \A y \in Listed : y \in Snaps /\ DatasetOf[y] \in Datasets /\ listed[y].created_at \in Nat
  BY ManifestFacts
<1>7. ManifestInv'
  BY <1>1, <1>2 DEF ManifestInv
<1>8. SendInv'
  <2> SUFFICES ASSUME NEW s \in Senders, send[s] # None
               PROVE  /\ send[s].snap \notin Listed'
                      /\ send[s].dataset \in NamesOf[DatasetOf[send[s].snap]]
                      /\ send[s].from # None =>
                           /\ send[s].from \in Listed'
                           /\ DatasetOf[send[s].from] = DatasetOf[send[s].snap]
                           /\ send[s].auto => \A c \in Candidates(send[s].snap)' :
                                listed'[c].created_at <= listed'[send[s].from].created_at
    BY <1>2 DEF SendInv, Candidates
  <2>1. send[s].snap \notin Listed' /\ send[s].dataset \in NamesOf[DatasetOf[send[s].snap]]
    BY <1>1 DEF SendInv
  <2>2. ASSUME send[s].from # None
        PROVE  /\ send[s].from \in Listed'
               /\ DatasetOf[send[s].from] = DatasetOf[send[s].snap]
               /\ send[s].auto => \A c \in Candidates(send[s].snap)' :
                    listed'[c].created_at <= listed'[send[s].from].created_at
    <3>1. /\ send[s].from \in Listed
          /\ DatasetOf[send[s].from] = DatasetOf[send[s].snap]
          /\ send[s].auto => \A c \in Candidates(send[s].snap) :
               listed[c].created_at <= listed[send[s].from].created_at
      BY <2>2 DEF SendInv
    <3>2. ASSUME send[s].from = z PROVE FALSE
      <4>1. \E y \in Retained : DatasetOf[y] = DatasetOf[send[s].snap]
        BY <1>4, <3>1, <3>2
      <4>2. send[s].from \in Latest(DatasetOf[send[s].snap]) /\ DatasetOf[send[s].snap] \in Datasets
        BY <2>2, <4>1, BaseIsLatest DEF Schedule
      <4> QED
        BY <1>5, <3>2, <4>2
    <3>3. send[s].from \in Listed'
      BY <1>1, <3>1, <3>2
    <3>4. Candidates(send[s].snap)' \subseteq Candidates(send[s].snap) \cap Listed'
      BY <1>1, <1>2 DEF Candidates
    <3> QED
      BY <1>1, <3>1, <3>3, <3>4
  <2> QED
    BY <2>1, <2>2
<1>9. SeenInv'
  <2> SUFFICES ASSUME NEW f \in Expirers, seen[f] # None
               PROVE  /\ doomed'[f] = {}
                      /\ \A y \in In(seen[f]) :
                           /\ y \in Listed' => listed'[y] = seen[f][y]
                           /\ \E l \in Listed' : /\ DatasetOf[l] = DatasetOf[y]
                                                 /\ seen[f][y].created_at <= listed'[l].created_at
                      /\ \A x \in Listed' \ In(seen[f]) : listed'[x].from \in In(seen[f]) =>
                           \A y \in In(seen[f]) : DatasetOf[y] = DatasetOf[x] =>
                             seen[f][y].created_at <= seen[f][listed'[x].from].created_at
    BY <1>2 DEF SeenInv, In
  <2> DEFINE R == In(seen[f])
  <2>1. /\ doomed[f] = {}
        /\ \A y \in R : /\ y \in Listed => listed[y] = seen[f][y]
                        /\ \E l \in Listed : /\ DatasetOf[l] = DatasetOf[y]
                                             /\ seen[f][y].created_at <= listed[l].created_at
        /\ \A x \in Listed \ R : listed[x].from \in R =>
             \A y \in R : DatasetOf[y] = DatasetOf[x] =>
               seen[f][y].created_at <= seen[f][listed[x].from].created_at
    BY DEF SeenInv
  <2>2. \A y \in R : seen[f][y].created_at \in Nat
    BY SeenFacts
  <2> HIDE DEF R
  <2>3. doomed'[f] = {}
    BY <1>3, <2>1
  <2>4. ASSUME NEW y \in R
        PROVE  \E l \in Listed' : /\ DatasetOf[l] = DatasetOf[y]
                                 /\ seen[f][y].created_at <= listed'[l].created_at
    <3>1. PICK l \in Listed : /\ DatasetOf[l] = DatasetOf[y]
                              /\ seen[f][y].created_at <= listed[l].created_at
      BY <2>1
    <3>2. PICK w \in Latest(DatasetOf[l]) :
            /\ w \in Listed /\ DatasetOf[w] = DatasetOf[l]
            /\ \A v \in Listed : DatasetOf[v] = DatasetOf[l] =>
                                listed[v].created_at <= listed[w].created_at
      BY LatestExists
    <3>3. w # z
      BY <1>5, <1>6, <3>2
    <3>4. w \in Listed' /\ listed'[w] = listed[w]
      BY <1>1, <3>2, <3>3
    <3>5. listed[l].created_at <= listed[w].created_at
      BY <3>2
    <3>6. seen[f][y].created_at <= listed[w].created_at
      BY <1>6, <2>2, <3>1, <3>2, <3>5
    <3> QED
      BY <3>1, <3>2, <3>4, <3>6
  <2>5. \A y \in R : y \in Listed' => listed'[y] = seen[f][y]
    BY <1>1, <2>1
  <2>6. \A x \in Listed' \ R : x \in Listed /\ listed'[x] = listed[x]
    BY <1>1
  <2> QED
    BY <2>1, <2>3, <2>4, <2>5, <2>6 DEF R
<1>10. ASSUME NEW d \in Datasets PROVE Latest(d)' \subseteq Latest(d)
  <2> SUFFICES ASSUME NEW y \in Latest(d)' PROVE y \in Latest(d)
    OBVIOUS
  <2>1. /\ y \in Listed' /\ y \in Listed /\ DatasetOf[y] = d
        /\ \A v \in Listed' : DatasetOf[v] = d => listed'[v].created_at <= listed'[y].created_at
    BY <1>1 DEF Latest
  <2>2. PICK w \in Latest(d) :
          /\ w \in Listed /\ DatasetOf[w] = d
          /\ \A v \in Listed : DatasetOf[v] = d => listed[v].created_at <= listed[w].created_at
    BY <2>1, LatestExists
  <2>3. w \in Listed' /\ listed'[w] = listed[w] /\ listed'[y] = listed[y]
    BY <1>1, <1>5, <2>1, <2>2
  <2>4. listed[w].created_at <= listed[y].created_at
    BY <2>1, <2>2, <2>3
  <2>5. ASSUME NEW v \in Listed, DatasetOf[v] = d PROVE listed[v].created_at <= listed[y].created_at
    <3>1. listed[v].created_at <= listed[w].created_at
      BY <2>2, <2>5
    <3> QED
      BY <1>6, <2>1, <2>2, <2>4, <3>1
  <2> QED
    BY <2>1, <2>5 DEF Latest
<1>11. DoomInv'
  <2> SUFFICES ASSUME NEW f \in Expirers
               PROVE  /\ \A y \in Listed' \ doomed'[f] : listed'[y].from \notin doomed'[f]
                      /\ \A d \in Datasets : Latest(d)' \cap doomed'[f] = {}
                      /\ pins \cap doomed'[f] = {}
    BY <1>2 DEF DoomInv
  <2>1. doomed'[f] \subseteq doomed[f] /\ doomed[f] \subseteq doomed'[f] \cup {z}
    BY <1>3
  <2>2. \A y \in Listed' \ doomed'[f] : y \in Listed \ doomed[f] /\ listed'[y] = listed[y]
    BY <1>1, <2>1
  <2>3. /\ \A y \in Listed \ doomed[f] : listed[y].from \notin doomed[f]
        /\ \A d \in Datasets : Latest(d) \cap doomed[f] = {}
        /\ pins \cap doomed[f] = {}
    BY DEF DoomInv
  <2> QED
    BY <1>10, <2>1, <2>2, <2>3
<1> QED
  BY <1>7, <1>8, <1>9, <1>11

\* A run that stops leaves the rest to the next.
LEMMA ExpireStopStep ==
  ASSUME TypeOK, Parts, NEW e \in Expirers, ExpireStop(e)
  PROVE  Parts'
<1>1. /\ seen'[e] = None /\ doomed'[e] = {}
      /\ \A f \in Expirers : f # e => seen'[f] = seen[f] /\ doomed'[f] = doomed[f]
  BY DEF ExpireStop, TypeOK
<1>2. UNCHANGED <<listed, pins, snaps, marks, clock, send>>
  BY DEF ExpireStop, local
<1>3. Listed' = Listed /\ \A d : Latest(d)' = Latest(d)
  BY <1>2 DEF Listed, Latest
<1>4. SeenInv'
  <2> SUFFICES ASSUME NEW f \in Expirers, f # e, seen[f] # None
               PROVE  /\ doomed[f] = {}
                      /\ \A y \in In(seen[f]) :
                           /\ y \in Listed => listed[y] = seen[f][y]
                           /\ \E l \in Listed : /\ DatasetOf[l] = DatasetOf[y]
                                                /\ seen[f][y].created_at <= listed[l].created_at
                      /\ \A x \in Listed \ In(seen[f]) : listed[x].from \in In(seen[f]) =>
                           \A y \in In(seen[f]) : DatasetOf[y] = DatasetOf[x] =>
                             seen[f][y].created_at <= seen[f][listed[x].from].created_at
    BY <1>1, <1>2, <1>3 DEF SeenInv, In
  <2> QED
    BY DEF Parts, SeenInv
<1>5. DoomInv'
  <2> SUFFICES ASSUME NEW f \in Expirers
               PROVE  /\ \A y \in Listed \ doomed'[f] : listed[y].from \notin doomed'[f]
                      /\ \A d \in Datasets : Latest(d) \cap doomed'[f] = {}
                      /\ pins \cap doomed'[f] = {}
    BY <1>2, <1>3 DEF DoomInv
  <2>1. CASE f = e
    BY <1>1, <2>1
  <2>2. CASE f # e
    BY <1>1, <2>2 DEF Parts, DoomInv
  <2> QED
    BY <2>1, <2>2
<1> QED
  BY <1>2, <1>4, <1>5, ManifestFrame, SendFrame DEF Parts

\* Pins are put aside of what is condemned, snapshots only go away.
LEMMA OwnerStep ==
  ASSUME TypeOK, Parts, PinsAside, NEW x \in Snaps, OwnerNext(x)
  PROVE  Parts'
<1>1. UNCHANGED <<listed, marks, clock, send, seen, doomed>> /\ snaps' \subseteq snaps
  BY DEF OwnerNext, Pin, Unpin, DestroySnapshot, local
<1> QED
  BY <1>1, ManifestFrame, SendFrame, SeenFrame, DoomFrame DEF Parts, PinsAside

(***************************************************************************)
(* The invariant holds.                                                    *)
(***************************************************************************)
LEMMA InvInit == Init => IInv
<1> SUFFICES ASSUME Init PROVE IInv
  OBVIOUS
<1>1. TypeOK
  BY TypeInit
<1>2. Listed = {} /\ \A d : Latest(d) = {}
  BY DEF Init, Listed, Latest
<1>3. /\ \A s \in Senders : send[s] = None
      /\ \A e \in Expirers : seen[e] = None /\ doomed[e] = {}
  BY DEF Init
<1>4. Schedule
  BY <1>3 DEF Schedule, SendsApart, SendsFresh, SendsAppend
<1>5. ManifestInv /\ SendInv /\ SeenInv
  BY <1>2, <1>3 DEF ManifestInv, SendInv, SeenInv
<1>6. DoomInv
  BY <1>2, <1>3 DEF DoomInv
<1> QED
  BY <1>1, <1>4, <1>5, <1>6 DEF IInv

\* Every step under the schedule keeps the invariant.
LEMMA InvNext ==
  ASSUME Usual, IInv, Next, Orderly
  PROVE  IInv'
<1> USE DEF Usual
<1>1. TypeOK /\ Parts /\ Schedule
  BY DEF IInv, Parts
<1>2. PinsAside /\ Schedule'
  BY DEF Orderly, Schedule
<1>3. TypeOK'
  BY <1>1, TypeStep
<1>4. ASSUME NEW s \in Senders, SendNext(s) PROVE Parts'
  BY <1>1, <1>4, BeginStep, CommitStep, SendStopStep DEF SendNext
<1>5. ASSUME NEW e \in Expirers, ExpireNext(e) PROVE Parts'
  BY <1>1, <1>5, ReadStep, PlanStep, DeleteStep, ExpireStopStep DEF ExpireNext
<1>6. ASSUME NEW x \in Snaps, OwnerNext(x) PROVE Parts'
  BY <1>1, <1>2, <1>6, OwnerStep
<1>7. Parts'
  BY <1>4, <1>5, <1>6 DEF Next
<1> QED
  BY <1>2, <1>3, <1>7 DEF IInv, Parts

\* And so does none.
LEMMA InvStutter == IInv /\ UNCHANGED vars => IInv'
<1> SUFFICES ASSUME IInv, UNCHANGED vars PROVE IInv'
  OBVIOUS
<1>1. UNCHANGED <<listed, pins, snaps, marks, clock, send, seen, doomed>>
  BY DEF vars, local
<1>2. TypeOK'
  BY <1>1 DEF IInv, TypeOK
<1>3. Listed' = Listed /\ \A x : Candidates(x)' = Candidates(x) /\ Latest(x)' = Latest(x)
  BY <1>1 DEF Listed, Candidates, Latest
<1>4. Retained' = Retained
  BY <1>1 DEF Retained, Expiring, In
<1>5. Schedule'
  BY <1>1, <1>3, <1>4 DEF IInv, Schedule, SendsApart, SendsFresh, SendsAppend
<1> QED
  BY <1>1, <1>2, <1>5, ManifestFrame, SendFrame, SeenFrame, DoomFrame, PinsKeptAside DEF IInv

\* What retention has read is still there, what it deletes is nobody's base
\* but of what it deletes as well, and a send beside it builds on the newest.
THEOREM Invariance == Usual => (OrderlySpec => []IInv)
<1> SUFFICES ASSUME Usual PROVE OrderlySpec => []IInv
  OBVIOUS
<1>1. IInv /\ [Next /\ Orderly]_vars => IInv'
  BY InvNext, InvStutter
<1> QED
  BY <1>1, InvInit, PTL DEF OrderlySpec

(***************************************************************************)
(* One send and one retention run at a time, as the cron entry has it, keep*)
(* apart of themselves.                                                    *)
(***************************************************************************)
OneAtATime ==
  /\ \A s, t \in Senders : s = t
  /\ \A e, f \in Expirers : e = f

\* What is sent is not listed, what retention still has in hand is.
SoloInv ==
  /\ TypeOK
  /\ \A s \in Senders : send[s] # None => send[s].snap \notin Listed
  /\ \A e \in Expirers : /\ doomed[e] \subseteq Listed
                         /\ seen[e] # None => In(seen[e]) \subseteq Listed /\ doomed[e] = {}

\* So no send is of a backup that retention has in hand.
LEMMA SoloFresh == OneAtATime /\ SoloInv => SendsApart /\ SendsFresh
<1> SUFFICES ASSUME OneAtATime, SoloInv PROVE SendsApart /\ SendsFresh
  OBVIOUS
<1>1. SendsApart
  BY DEF OneAtATime, SendsApart
<1>2. Retained \subseteq Listed
  BY DEF SoloInv, Retained, Expiring
<1>3. SendsFresh
  BY <1>2 DEF SoloInv, SendsFresh
<1> QED
  BY <1>1, <1>3

\* The steps of the one send keep to it.
LEMMA SoloSend ==
  ASSUME OneAtATime, SoloInv, NEW s \in Senders, SendNext(s)
  PROVE  SoloInv'
<1>1. TypeOK'
  BY TypeStep DEF SoloInv, Next
<1>2. UNCHANGED <<seen, doomed>>
  BY DEF SendNext, SendAuto, SendManual, Begin, Commit, SendStop
<1>3. CASE SendAuto(s) \/ SendManual(s)
  <2>0. PICK x \in Snaps : \E base, auto : Begin(s, x, base, auto)
    BY <1>3 DEF SendAuto, SendManual
  <2>1. PICK base, auto : Begin(s, x, base, auto)
    BY <2>0
  <2>2. Listed' = Listed /\ x \notin Listed
    BY <2>1 DEF Begin, Listed
  <2>3. \A t \in Senders : send'[t].snap = x
    BY <2>1 DEF Begin, OneAtATime, SoloInv, TypeOK
  <2> QED
    BY <1>1, <1>2, <2>2, <2>3 DEF SoloInv, In
<1>4. CASE Commit(s) \/ SendStop(s)
  <2>1. \A t \in Senders : send'[t] = None
    BY <1>4 DEF Commit, SendStop, OneAtATime, SoloInv, TypeOK
  <2>2. Listed \subseteq Listed'
    <3>1. CASE Commit(s)
      <4>1. /\ send[s].snap \in Snaps /\ Committed(s) # None
            /\ listed' = [listed EXCEPT ![send[s].snap] = Committed(s)]
        BY <3>1, CommitTypes DEF SoloInv
      <4>2. listed \in [Snaps -> Manifests \cup {None}]
        BY DEF SoloInv, TypeOK, Listing
      <4>3. \A y \in Snaps : listed[y] # None => listed'[y] # None
        BY <4>1, <4>2
      <4> QED
        BY <4>3 DEF Listed
    <3>2. CASE SendStop(s)
      BY <3>2 DEF SendStop, Listed
    <3> QED
      BY <1>4, <3>1, <3>2
  <2> QED
    BY <1>1, <1>2, <2>1, <2>2 DEF SoloInv, In
<1> QED
  BY <1>3, <1>4 DEF SendNext

\* And the steps of the one retention run.
LEMMA SoloExpire ==
  ASSUME OneAtATime, SoloInv, NEW e \in Expirers, ExpireNext(e)
  PROVE  SoloInv'
<1>1. TypeOK'
  BY TypeStep DEF SoloInv, Next
<1>2. UNCHANGED send /\ \A f \in Expirers : f = e
  BY DEF ExpireNext, ExpireRead, ExpirePlan, ExpireDelete, ExpireStop, OneAtATime
<1>3. CASE ExpireRead(e)
  <2>1. PICK scope \in Scopes : seen' = [seen EXCEPT ![e] =
          [x \in Snaps |->
             IF x \in Listed /\ InScope(scope, listed[x]) THEN listed[x] ELSE None]]
    BY <1>3 DEF ExpireRead
  <2>2. seen'[e] = [x \in Snaps |->
             IF x \in Listed /\ InScope(scope, listed[x]) THEN listed[x] ELSE None]
    BY <2>1 DEF SoloInv, TypeOK
  <2>3. In(seen'[e]) \subseteq Listed
    BY <2>2 DEF In
  <2>4. Listed' = Listed /\ doomed' = doomed /\ doomed[e] = {}
    BY <1>3 DEF ExpireRead, Retaining, Listed
  <2> QED
    BY <1>1, <1>2, <2>3, <2>4 DEF SoloInv, In
<1>4. CASE ExpirePlan(e)
  <2>1. /\ Listed' = Listed /\ seen[e] # None /\ seen'[e] = None
        /\ doomed'[e] \subseteq In(seen[e])
    BY <1>4 DEF ExpirePlan, Listed, SoloInv, TypeOK
  <2> QED
    BY <1>1, <1>2, <2>1 DEF SoloInv
<1>5. CASE ExpireDelete(e)
  <2>1. PICK z \in doomed[e] :
          /\ doomed' = [doomed EXCEPT ![e] = @ \ {z}]
          /\ Listed' = Listed \ {z}
    BY <1>5, DeleteFacts DEF SoloInv
  <2>2. doomed'[e] = doomed[e] \ {z}
    BY <2>1 DEF SoloInv, TypeOK
  <2>3. seen' = seen /\ seen[e] = None
    BY <1>5, <2>1 DEF ExpireDelete, SoloInv
  <2> QED
    BY <1>1, <1>2, <2>1, <2>2, <2>3 DEF SoloInv
<1>6. CASE ExpireStop(e)
  <2>1. Listed' = Listed /\ seen'[e] = None /\ doomed'[e] = {}
    BY <1>6 DEF ExpireStop, Listed, SoloInv, TypeOK
  <2> QED
    BY <1>1, <1>2, <2>1 DEF SoloInv
<1> QED
  BY <1>3, <1>4, <1>5, <1>6 DEF ExpireNext

\* One send and one retention run at a time need no condition on what is sent
\* again or beside another send (README.md, the cron entry).
THEOREM SoloIsOrderly ==
  OneAtATime => (Init /\ [][Next /\ PinsAside /\ SendsAppend']_vars => OrderlySpec)
<1> SUFFICES ASSUME OneAtATime
             PROVE  Init /\ [][Next /\ PinsAside /\ SendsAppend']_vars => OrderlySpec
  OBVIOUS
<1>1. Init => SoloInv
  BY TypeInit DEF Init, SoloInv
<1>2. ASSUME SoloInv, [Next]_vars PROVE SoloInv'
  <2>1. ASSUME NEW x \in Snaps, OwnerNext(x) PROVE SoloInv'
    <3>1. TypeOK'
      BY <1>2, TypeStep DEF SoloInv
    <3>2. UNCHANGED <<listed, send, seen, doomed>>
      BY <2>1 DEF OwnerNext, Pin, Unpin, DestroySnapshot
    <3> QED
      BY <1>2, <3>1, <3>2 DEF SoloInv, Listed, In
  <2>2. CASE UNCHANGED vars
    <3>1. TypeOK'
      BY <1>2, TypeStep DEF SoloInv
    <3>2. UNCHANGED <<listed, send, seen, doomed>>
      BY <2>2 DEF vars
    <3> QED
      BY <1>2, <3>1, <3>2 DEF SoloInv, Listed, In
  <2> QED
    BY <1>2, <2>1, <2>2, SoloSend, SoloExpire DEF Next
<1>3. SoloInv /\ SoloInv' /\ [Next /\ PinsAside /\ SendsAppend']_vars => [Next /\ Orderly]_vars
  <2>1. SoloInv' => SendsApart' /\ SendsFresh'
    BY SoloFresh, PTL
  <2> QED
    BY <2>1 DEF Orderly
<1> QED
  BY <1>1, <1>2, <1>3, PTL DEF OrderlySpec

(***************************************************************************)
(* What no step does.                                                      *)
(***************************************************************************)
\* Only a commit and a delete of a doomed backup change what is listed.
LEMMA ListedSteps ==
  ASSUME IInv, [Next /\ Orderly]_vars
  PROVE  \/ listed' = listed
         \/ \E s \in Senders : Commit(s)
         \/ \E e \in Expirers : ExpireDelete(e)
<1>1. ASSUME NEW s \in Senders, SendNext(s) PROVE listed' = listed \/ Commit(s)
  BY <1>1 DEF SendNext, SendAuto, SendManual, Begin, SendStop
<1>2. ASSUME NEW e \in Expirers, ExpireNext(e) PROVE listed' = listed \/ ExpireDelete(e)
  BY <1>2 DEF ExpireNext, ExpireRead, ExpirePlan, ExpireStop
<1>3. ASSUME NEW x \in Snaps, OwnerNext(x) PROVE listed' = listed
  BY <1>3 DEF OwnerNext, Pin, Unpin, DestroySnapshot
<1> QED
  BY <1>1, <1>2, <1>3 DEF Next, vars

\* A listed backup that no retention run has doomed stays listed, and its
\* chain with it.
LEMMA UndoomedStays ==
  ASSUME IInv, [Next /\ Orderly]_vars, NEW x \in Listed, \A e \in Expirers : x \notin doomed[e]
  PROVE  x \in Listed' /\ (Restorable(x) => Restorable(x)')
<1> USE DEF IInv
<1>1. CASE listed' = listed
  <2>1. Listed' = Listed
    BY <1>1 DEF Listed
  <2> QED
    BY <1>1, <2>1 DEF Restorable
<1>2. ASSUME NEW s \in Senders, Commit(s)
      PROVE  x \in Listed' /\ (Restorable(x) => Restorable(x)')
  <2>1. Listed \subseteq Listed' /\ \A y \in Listed : listed'[y] = listed[y]
    BY <1>2, CommitFacts
  <2>2. ASSUME NEW chain \in SUBSET Listed, x \in chain,
               \A y \in chain : listed[y].from # None => listed[y].from \in chain
        PROVE  Restorable(x)'
    <3>1. chain \in SUBSET Listed'
      BY <2>1
    <3>2. \A y \in chain : listed'[y].from # None => listed'[y].from \in chain
      BY <2>1, <2>2
    <3> QED
      BY <2>2, <3>1, <3>2 DEF Restorable
  <2> QED
    BY <2>1, <2>2 DEF Restorable
<1>3. ASSUME NEW e \in Expirers, ExpireDelete(e)
      PROVE  x \in Listed' /\ (Restorable(x) => Restorable(x)')
  <2>1. PICK z \in doomed[e] :
          /\ Listed' = Listed \ {z}
          /\ \A y \in Listed \ {z} : listed'[y] = listed[y]
    BY <1>3, DeleteFacts
  <2>2. \A y \in Listed \ doomed[e] : listed[y].from \notin doomed[e]
    BY DEF DoomInv
  <2>3. ASSUME NEW chain \in SUBSET Listed, x \in chain,
               \A y \in chain : listed[y].from # None => listed[y].from \in chain
        PROVE  Restorable(x)'
    <3> DEFINE kept == chain \ doomed[e]
    <3>1. kept \in SUBSET Listed' /\ x \in kept
      BY <2>1, <2>3
    <3>2. \A y \in kept : listed'[y] = listed[y]
      BY <2>1
    <3>3. \A y \in kept : listed[y].from # None => listed[y].from \in kept
      BY <2>2, <2>3
    <3> QED
      BY <3>1, <3>2, <3>3 DEF Restorable
  <2> QED
    BY <2>1, <2>3 DEF Restorable
<1> QED
  BY <1>1, <1>2, <1>3, ListedSteps

\* A backup that the policy has not condemned keeps its chain through every
\* step of every retention run (retention.rs:87).
THEOREM KeptRestorable == Usual => (OrderlySpec => KeptStayRestorable)
<1> SUFFICES ASSUME Usual PROVE OrderlySpec => KeptStayRestorable
  OBVIOUS
<1>1. IInv /\ [Next /\ Orderly]_vars =>
        [\A x \in Listed : Restorable(x) /\ x \notin Expiring => Restorable(x)']_vars
  BY UndoomedStays DEF Expiring
<1>2. OrderlySpec => []IInv
  BY Invariance
<1> QED
  BY <1>1, <1>2, PTL DEF OrderlySpec, KeptStayRestorable

\* A pin keeps a backup and everything it builds on (retention.rs:165).
THEOREM PinsRestorable == Usual => (OrderlySpec => PinsStayRestorable)
<1> SUFFICES ASSUME Usual PROVE OrderlySpec => PinsStayRestorable
  OBVIOUS
<1>1. ASSUME IInv, [Next /\ Orderly]_vars
      PROVE  \A x \in pins \cap pins' : Restorable(x) => Restorable(x)'
  <2> SUFFICES ASSUME NEW x \in pins, Restorable(x) PROVE Restorable(x)'
    OBVIOUS
  <2>1. x \in Listed
    BY DEF Restorable
  <2>2. \A e \in Expirers : x \notin doomed[e]
    BY <1>1 DEF IInv, DoomInv
  <2> QED
    BY <1>1, <2>1, <2>2, UndoomedStays
<1>2. OrderlySpec => []IInv
  BY Invariance
<1> QED
  BY <1>1, <1>2, PTL DEF OrderlySpec, PinsStayRestorable

\* The chain a send in progress builds on stays whole (send.rs:112).
THEOREM BasesRestorable == Usual => (OrderlySpec => BasesStayRestorable)
<1> SUFFICES ASSUME Usual PROVE OrderlySpec => BasesStayRestorable
  OBVIOUS
<1>1. ASSUME IInv, [Next /\ Orderly]_vars
      PROVE  \A s \in Senders : \A base \in Listed :
               send[s] # None /\ send[s].from = base /\ Restorable(base) => Restorable(base)'
  <2> SUFFICES ASSUME NEW s \in Senders, NEW base \in Listed, send[s] # None,
                      send[s].from = base, Restorable(base)
               PROVE  Restorable(base)'
    OBVIOUS
  <2>1. base # None
    BY <1>1, ManifestFacts DEF IInv
  <2>2. ASSUME NEW e \in Expirers, base \in doomed[e] PROVE FALSE
    <3>1. base \in Retained /\ DatasetOf[base] = DatasetOf[send[s].snap]
      BY <1>1, <2>1, <2>2, RetainedFacts DEF IInv, SendInv
    <3>2. base \in Latest(DatasetOf[send[s].snap]) /\ DatasetOf[send[s].snap] \in Datasets
      BY <1>1, <2>1, <3>1, BaseIsLatest DEF IInv, Schedule
    <3> QED
      BY <1>1, <2>2, <3>2 DEF IInv, DoomInv
  <2> QED
    BY <1>1, <2>2, UndoomedStays
<1>2. OrderlySpec => []IInv
  BY Invariance
<1> QED
  BY <1>1, <1>2, PTL DEF OrderlySpec, BasesStayRestorable

\* The newest backup of a dataset is never expired (retention.rs:158).
THEOREM LatestKept == Usual => (OrderlySpec => LatestStays)
<1> SUFFICES ASSUME Usual PROVE OrderlySpec => LatestStays
  OBVIOUS
<1>1. ASSUME IInv, [Next /\ Orderly]_vars
      PROVE  \A d \in Datasets : \A x \in Latest(d) : x \in Listed'
  <2> SUFFICES ASSUME NEW d \in Datasets, NEW x \in Latest(d) PROVE x \in Listed'
    OBVIOUS
  <2>1. x \in Listed
    BY DEF Latest
  <2>2. \A e \in Expirers : x \notin doomed[e]
    BY <1>1 DEF IInv, DoomInv
  <2> QED
    BY <1>1, <2>1, <2>2, UndoomedStays
<1>2. OrderlySpec => []IInv
  BY Invariance
<1> QED
  BY <1>1, <1>2, PTL DEF OrderlySpec, LatestStays
=============================================================================
