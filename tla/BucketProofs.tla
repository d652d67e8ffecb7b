---------------------------- MODULE BucketProofs ----------------------------
(***************************************************************************)
(* Theorems about Bucket, for any keys, versions, pages and clients: what  *)
(* a purge leaves, what it shows and what it takes from others.            *)
(***************************************************************************)
EXTENDS Bucket, TLAPS

(***************************************************************************)
(* The inductive invariant, by parts.                                      *)
(***************************************************************************)
Purging == pc \in {"list", "erase"}
InOut(k, at) == \E e \in out : e.key = k /\ e.at = at

TimeInv ==
  /\ since <= now
  /\ \A k \in Keys : \A v, w \in vers[k] : v.at = w.at => v = w

\* An entry of the list tells a null version and a marker as long as they are.
EntryInv == Purging => \A e \in out :
  /\ e.at < now
  /\ e.null => e.key \in nulls
  /\ \A v \in vers[e.key] : v.at = e.at => v.null = e.null /\ v.marker = e.marker

\* What has been listed comes before what will be.
MarkInv == pc = "list" => \A e \in out :
  \/ e.key = mark.key /\ e.at = mark.at
  \/ Precedes(e.key, e.at, mark.key, mark.at)

\* A null version that could not be erased, below a version that stays.
Hiding(k, v) ==
  /\ mode = "Enabled" /\ v.null
  /\ \E w \in vers[k] : w.at >= since /\ ~(pc = "erase" /\ InOut(k, w.at))

\* What was there when the purge began is to be listed, listed, or hidden.
CoverInv == \A k \in Keys : \A v \in vers[k] :
  v.at < since =>
    /\ pc = "list" => Precedes(mark.key, mark.at, k, v.at) \/ InOut(k, v.at)
    /\ pc = "erase" => InOut(k, v.at) \/ Hiding(k, v)
    /\ pc \in {"uploads", "abort", "done"} => Hiding(k, v)

UploadInv == \A u \in up :
  u.at < since =>
    /\ pc = "uploads" => Precedes(mark.key, u.at, u.key, mark.at) \/ u \in out
    /\ pc = "abort" => u \in out
    /\ pc # "done"

\* What was put late is the newest of its key, and not on the list.
LateInv ==
  /\ pc \in {"idle", "list"} => late = {}
  /\ mode = "Enabled" /\ pc # "failed" => \A k \in late \ nulls :
       \E v \in Shows(k) : ~(pc = "erase" /\ InOut(k, v.at))

\* What is older than an entry is erased with its page, or hidden by a version
\* that is not on the list.
HiddenInv == Purging => \A e \in out : e.key \notin split =>
  \A v \in vers[e.key] :
    v.at < e.at =>
      \/ \E f \in out : f.key = e.key /\ f.at = v.at /\ f.page = e.page
      \/ \E w \in vers[e.key] : w.at > e.at /\ ~InOut(e.key, w.at)

IdleInv == pc \in {"idle", "done", "failed"} => out = {}

IInv == TypeOK /\ TimeInv /\ EntryInv /\ MarkInv /\ CoverInv /\ UploadInv
        /\ LateInv /\ HiddenInv /\ IdleInv

(***************************************************************************)
(* Writes.                                                                 *)
(***************************************************************************)
\* The versions of a key with a newer one, or without a null one.
Overwrites(k) ==
  \E F \in {{}, {Fresh(TRUE)}, {Fresh(FALSE)}} :
    /\ F = {} => mode = "Disabled"
    /\ F = {Fresh(TRUE)} => mode # "Disabled"
    /\ vers' = [vers EXCEPT ![k] = Kept(k) \cup F]

LEMMA PutOverwrites ==
  ASSUME NEW k \in Keys, vers' = [vers EXCEPT ![k] = AfterPut(k)]
  PROVE  Overwrites(k)
<1>1. Fresh(FALSE) # Fresh(TRUE)
  BY DEF Fresh
<1>2. {Fresh(FALSE)} # {} /\ {Fresh(FALSE)} # {Fresh(TRUE)}
  BY <1>1
<1> QED
  BY <1>2 DEF Overwrites, AfterPut

LEMMA DeleteOverwrites ==
  ASSUME NEW k \in Keys, vers' = [vers EXCEPT ![k] = AfterDelete(k)]
  PROVE  Overwrites(k)
<1>1. {Fresh(TRUE)} # {}
  OBVIOUS
<1>2. CASE mode = "Disabled"
  <2>1. AfterDelete(k) = Kept(k) \cup {}
    BY <1>2 DEF AfterDelete
  <2> QED
    BY <1>1, <1>2, <2>1 DEF Overwrites
<1>3. CASE mode # "Disabled"
  <2>1. AfterDelete(k) = Kept(k) \cup {Fresh(TRUE)}
    BY <1>3 DEF AfterDelete
  <2> QED
    BY <1>1, <1>3, <2>1 DEF Overwrites
<1> QED
  BY <1>2, <1>3

\* What such a write adds and removes.
LEMMA WriteFacts ==
  ASSUME TypeOK, NEW k \in Keys, Overwrites(k)
  PROVE  /\ \A j \in Keys : \A v \in vers'[j] :
              v \in vers[j] \/ (j = k /\ v.at = now /\ v.null = (mode # "Enabled"))
         /\ \A j \in Keys : \A v \in vers[j] :
              v \in vers'[j] \/ (j = k /\ mode # "Enabled" /\ v.null)
         /\ \A j \in Keys : \A v, w \in vers'[j] :
              v \notin vers[j] /\ w \notin vers[j] => v = w
         /\ \A v \in vers'[k] : mode # "Enabled" /\ v.null => v.at = now
         /\ mode # "Disabled" => \E w \in vers'[k] : w.at = now
         /\ vers' \in [Keys -> SUBSET Version(1 .. now)]
         /\ \A j \in Keys : Legal(mode, vers[j]) => Legal(mode, vers'[j])
<1>1. PICK F \in {{}, {Fresh(TRUE)}, {Fresh(FALSE)}} :
        /\ F = {} => mode = "Disabled"
        /\ F = {Fresh(TRUE)} => mode # "Disabled"
        /\ vers' = [vers EXCEPT ![k] = Kept(k) \cup F]
  BY DEF Overwrites
<1>2. vers \in [Keys -> SUBSET Version(1 .. now - 1)] /\ now \in Nat \ {0}
  BY DEF TypeOK
<1>3. /\ vers'[k] = Kept(k) \cup F
      /\ \A j \in Keys : j # k => vers'[j] = vers[j]
  BY <1>1, <1>2
<1>4. \A x \in F : /\ x.at = now /\ x.null = (mode # "Enabled")
                   /\ mode = "Disabled" => ~x.marker
  BY <1>1 DEF Fresh
<1>5. \A x, y \in F : x = y
  BY <1>1
<1>6. /\ Kept(k) \subseteq vers[k]
      /\ \A v \in vers[k] : v \in Kept(k) \/ (mode # "Enabled" /\ v.null)
      /\ \A v \in Kept(k) : mode # "Enabled" => ~v.null
  BY DEF Kept, NotNull
<1>7. mode # "Disabled" => F # {}
  BY <1>1
<1>8. F \subseteq Version(1 .. now)
  <2>1. now \in 1 .. now /\ (mode # "Enabled") \in BOOLEAN
    BY <1>2
  <2>2. \A marker \in BOOLEAN : Fresh(marker) \in Version(1 .. now)
    BY <2>1 DEF Version, Fresh
  <2>3. Fresh(TRUE) \in Version(1 .. now) /\ Fresh(FALSE) \in Version(1 .. now)
    BY <2>2
  <2> QED
    BY <1>1, <2>3
<1>9. Version(1 .. now - 1) \subseteq Version(1 .. now)
  BY <1>2 DEF Version
<1>10. vers' \in [Keys -> SUBSET Version(1 .. now)]
  <2>1. Kept(k) \cup F \in SUBSET Version(1 .. now)
    BY <1>2, <1>6, <1>8, <1>9
  <2>2. vers \in [Keys -> SUBSET Version(1 .. now)]
    BY <1>2, <1>9
  <2> QED
    BY <1>1, <2>1, <2>2
<1>11. ASSUME NEW j \in Keys, Legal(mode, vers[j]) PROVE Legal(mode, vers'[j])
  <2>1. CASE j # k
    BY <1>3, <1>11, <2>1
  <2>2. CASE j = k
    <3>1. \A v, w \in vers'[k] : v.null /\ w.null => v = w
      <4>1. CASE mode = "Enabled"
        <5>1. \A x \in F : ~x.null
          BY <1>4, <4>1
        <5> QED
          BY <1>3, <1>6, <1>11, <2>2, <5>1 DEF Legal
      <4>2. CASE mode # "Enabled"
        BY <1>3, <1>5, <1>6, <4>2
      <4> QED
        BY <4>1, <4>2
    <3>2. ASSUME mode = "Disabled" PROVE \A v \in vers'[k] : v.null /\ ~v.marker
      <4>1. mode # "Enabled"
        BY <3>2
      <4> QED
        BY <1>3, <1>4, <1>6, <1>11, <2>2, <3>2, <4>1 DEF Legal
    <3> QED
      BY <2>2, <3>1, <3>2 DEF Legal
  <2> QED
    BY <2>1, <2>2
<1>12. \A v \in vers'[k] : mode # "Enabled" /\ v.null => v.at = now
  BY <1>3, <1>4, <1>6
<1>13. mode # "Disabled" => \E w \in vers'[k] : w.at = now
  BY <1>3, <1>4, <1>7
<1>14. \A j \in Keys : \A v \in vers'[j] :
         v \in vers[j] \/ (j = k /\ v.at = now /\ v.null = (mode # "Enabled"))
  BY <1>3, <1>4, <1>6
<1>15. \A j \in Keys : \A v \in vers[j] :
         v \in vers'[j] \/ (j = k /\ mode # "Enabled" /\ v.null)
  BY <1>3, <1>6
<1>16. \A j \in Keys : \A v, w \in vers'[j] :
         v \notin vers[j] /\ w \notin vers[j] => v = w
  BY <1>3, <1>5, <1>6
<1> QED
  BY <1>10, <1>11, <1>12, <1>13, <1>14, <1>15, <1>16

\* A write, by whomever, leaves what the purge knows of the entries true.
Meanwhile == now' = now + 1 /\ UNCHANGED <<mode, pc, mark, page, history>>

LEMMA WriteKeeps ==
  ASSUME IInv, NEW k \in Keys, Overwrites(k), Meanwhile, out' \subseteq out
  PROVE  /\ vers' \in [Keys -> SUBSET Version(1 .. now' - 1)]
         /\ \A j \in Keys : Legal(mode, vers[j])'
         /\ TimeInv' /\ EntryInv' /\ MarkInv' /\ IdleInv'
<1> USE DEF Meanwhile, history
<1>1. now \in Nat \ {0} /\ since \in Nat /\ now' = now + 1 /\ since' = since /\ since <= now
  BY DEF IInv, TypeOK, TimeInv
<1>2. \A j \in Keys : \A v \in vers[j] : v.at \in Nat /\ v.at < now
  BY <1>1 DEF IInv, TypeOK, Version
<1>3. /\ \A j \in Keys : \A v \in vers'[j] :
           v \in vers[j] \/ (j = k /\ v.at = now /\ v.null = (mode # "Enabled"))
      /\ \A j \in Keys : \A v \in vers[j] :
           v \in vers'[j] \/ (j = k /\ mode # "Enabled" /\ v.null)
      /\ \A j \in Keys : \A v, w \in vers'[j] :
           v \notin vers[j] /\ w \notin vers[j] => v = w
      /\ \A v \in vers'[k] : mode # "Enabled" /\ v.null => v.at = now
      /\ mode # "Disabled" => \E w \in vers'[k] : w.at = now
      /\ vers' \in [Keys -> SUBSET Version(1 .. now)]
      /\ \A j \in Keys : Legal(mode, vers[j]) => Legal(mode, vers'[j])
  BY WriteFacts DEF IInv
<1>4. /\ vers' \in [Keys -> SUBSET Version(1 .. now' - 1)]
      /\ \A j \in Keys : Legal(mode, vers[j])'
  <2>1. now' - 1 = now
    BY <1>1
  <2> QED
    BY <1>3, <2>1 DEF IInv, TypeOK, Legal
<1>5. TimeInv'
  <2>1. ASSUME NEW j \in Keys, NEW v \in vers'[j], NEW w \in vers'[j], v.at = w.at
        PROVE  v = w
    <3>1. v \in vers[j] => w \in vers[j]
      BY <1>1, <1>2, <1>3, <2>1
    <3>2. w \in vers[j] => v \in vers[j]
      BY <1>1, <1>2, <1>3, <2>1
    <3> QED
      BY <1>3, <2>1, <3>1, <3>2 DEF IInv, TimeInv
  <2> QED
    BY <1>1, <2>1 DEF TimeInv
<1>6. EntryInv'
  <2>1. ASSUME Purging, NEW e \in out
        PROVE  /\ e.at < now + 1 /\ e.at < now
               /\ e.null => e.key \in nulls
               /\ e.key \in Keys /\ e.at \in Nat
    <3>1. e \in Found
      BY <2>1 DEF IInv, TypeOK, Purging
    <3>2. e.at \in Nat /\ e.key \in Keys
      BY <3>1 DEF Found
    <3>3. e.at < now /\ (e.null => e.key \in nulls)
      BY <2>1 DEF IInv, EntryInv
    <3> QED
      BY <1>1, <3>2, <3>3
  <2>2. ASSUME Purging, NEW e \in out, NEW v \in vers'[e.key], v.at = e.at
        PROVE  v.null = e.null /\ v.marker = e.marker
    <3>1. v \in vers[e.key]
      BY <1>1, <1>3, <2>1, <2>2
    <3> QED
      BY <2>2, <3>1 DEF IInv, EntryInv
  <2> QED
    BY <1>1, <2>1, <2>2 DEF EntryInv, Purging
<1>7. MarkInv'
  BY DEF IInv, MarkInv
<1>8. IdleInv'
  BY DEF IInv, IdleInv
<1> QED
  BY <1>4, <1>5, <1>6, <1>7, <1>8

\* A write of another client changes nothing that the purge relies on.
Aside == Meanwhile /\ out' = out

LEMMA WriteAside ==
  ASSUME IInv, NEW k \in Keys, Overwrites(k), Aside
  PROVE  /\ vers' \in [Keys -> SUBSET Version(1 .. now' - 1)]
         /\ \A j \in Keys : Legal(mode, vers[j])'
         /\ TimeInv' /\ EntryInv' /\ MarkInv' /\ CoverInv' /\ HiddenInv' /\ IdleInv'
<1> USE DEF Aside, Meanwhile, history
<1>1. now \in Nat \ {0} /\ since \in Nat /\ now' = now + 1 /\ since' = since /\ since <= now
  BY DEF IInv, TypeOK, TimeInv
<1>2. \A j \in Keys : \A v \in vers[j] : v.at \in Nat /\ v.at < now
  BY <1>1 DEF IInv, TypeOK, Version
<1>3. /\ \A j \in Keys : \A v \in vers'[j] :
           v \in vers[j] \/ (j = k /\ v.at = now /\ v.null = (mode # "Enabled"))
      /\ \A j \in Keys : \A v \in vers[j] :
           v \in vers'[j] \/ (j = k /\ mode # "Enabled" /\ v.null)
      /\ \A j \in Keys : \A v, w \in vers'[j] :
           v \notin vers[j] /\ w \notin vers[j] => v = w
      /\ \A v \in vers'[k] : mode # "Enabled" /\ v.null => v.at = now
      /\ mode # "Disabled" => \E w \in vers'[k] : w.at = now
      /\ vers' \in [Keys -> SUBSET Version(1 .. now)]
      /\ \A j \in Keys : Legal(mode, vers[j]) => Legal(mode, vers'[j])
  BY WriteFacts DEF IInv
<1>4. \A at : \A j \in Keys : InOut(j, at)' <=> InOut(j, at)
  BY DEF InOut
<1>5. CoverInv'
  <2>1. ASSUME NEW j \in Keys, NEW v \in vers'[j], v.at < since
        PROVE  v \in vers[j]
    BY <1>1, <1>2, <1>3, <2>1
  <2>2. ASSUME NEW j \in Keys, NEW v \in vers[j], Hiding(j, v)
        PROVE  Hiding(j, v)'
    BY <1>3, <1>4, <2>2 DEF Hiding
  <2> QED
    BY <1>4, <2>1, <2>2 DEF IInv, CoverInv
<1>6. HiddenInv'
  <2> SUFFICES ASSUME Purging, NEW e \in out, e.key \notin split,
                      NEW v \in vers'[e.key], v.at < e.at
               PROVE  \/ \E f \in out : f.key = e.key /\ f.at = v.at /\ f.page = e.page
                      \/ \E w \in vers'[e.key] : w.at > e.at /\ ~InOut(e.key, w.at)
    BY <1>4 DEF HiddenInv, Purging, InOut
  <2>1. e.key \in Keys /\ e.at \in Nat /\ e.at < now
    BY DEF IInv, TypeOK, Found, Purging, EntryInv
  <2>2. v \in vers[e.key]
    BY <1>1, <1>2, <1>3, <2>1
  <2>3. \/ \E f \in out : f.key = e.key /\ f.at = v.at /\ f.page = e.page
        \/ \E w \in vers[e.key] : w.at > e.at /\ ~InOut(e.key, w.at)
    BY <2>2 DEF IInv, HiddenInv
  <2>4. ~InOut(e.key, now)
    BY <1>1 DEF IInv, EntryInv, InOut
  <2>5. ASSUME NEW w \in vers[e.key], w.at > e.at, ~InOut(e.key, w.at)
        PROVE  \E x \in vers'[e.key] : x.at > e.at /\ ~InOut(e.key, x.at)
    <3>1. CASE w \in vers'[e.key]
      BY <2>5, <3>1
    <3>2. CASE w \notin vers'[e.key]
      <4>1. e.key = k /\ mode # "Enabled"
        BY <1>3, <2>1, <3>2
      <4>2. mode # "Disabled"
        <5>1. ASSUME mode = "Disabled" PROVE FALSE
          <6>1. v.null
            BY <2>1, <2>2, <5>1 DEF IInv, TypeOK, Legal
          <6>2. v.at = now
            BY <1>3, <4>1, <6>1
          <6> QED
            BY <1>2, <2>1, <2>2, <6>2
        <5> QED
          BY <5>1
      <4>3. PICK x \in vers'[k] : x.at = now
        BY <1>3, <4>2
      <4> QED
        BY <1>1, <2>1, <2>4, <4>1, <4>3
    <3> QED
      BY <3>1, <3>2
  <2> QED
    BY <2>3, <2>5
<1> QED
  BY <1>5, <1>6, WriteKeeps

(***************************************************************************)
(* Every step keeps the invariant.                                         *)
(***************************************************************************)
\* What was put last is the newest of its key, and on no list.
LEMMA FreshShows ==
  ASSUME IInv, NEW k \in Keys, vers' = [vers EXCEPT ![k] = AfterPut(k)], UNCHANGED <<pc, out>>
  PROVE  \E v \in Shows(k)' : ~(pc = "erase" /\ InOut(k, v.at))
<1> DEFINE x == Fresh(FALSE)
<1>1. x.at = now /\ ~x.marker
  BY DEF Fresh
<1>2. vers \in [Keys -> SUBSET Version(1 .. now - 1)] /\ now \in Nat \ {0}
  BY DEF IInv, TypeOK
<1>3. vers'[k] = Kept(k) \cup {x} /\ Kept(k) \subseteq vers[k]
  BY <1>2 DEF AfterPut, Kept, NotNull
<1>4. \A v \in vers[k] : v.at \in Nat /\ v.at < now
  BY <1>2 DEF Version
<1> HIDE DEF x
<1>5. x \in vers'[k] /\ \A w \in vers'[k] : w.at <= x.at
  BY <1>1, <1>2, <1>3, <1>4
<1>6. x \in Shows(k)'
  BY <1>1, <1>5 DEF Shows, Newest
<1>7. pc = "erase" => ~InOut(k, now)
  BY <1>2 DEF IInv, EntryInv, Purging, InOut, TypeOK, Found
<1> QED
  BY <1>1, <1>6, <1>7

LEMMA ShowsElsewhere ==
  ASSUME IInv, NEW k, NEW X, vers' = [vers EXCEPT ![k] = X], NEW j \in Keys, j # k
  PROVE  Shows(j)' = Shows(j)
<1>1. vers'[j] = vers[j]
  BY DEF IInv, TypeOK
<1> QED
  BY <1>1 DEF Shows, Newest

LEMMA PutStep ==
  ASSUME IInv, NEW k \in Keys, Put(k), Aside, others' \in 0 .. MaxOthers, purges' = purges,
         up' \subseteq up
  PROVE  IInv'
<1>1. vers' = [vers EXCEPT ![k] = AfterPut(k)]
  BY DEF Put
<1>2. /\ vers' \in [Keys -> SUBSET Version(1 .. now' - 1)]
      /\ \A j \in Keys : Legal(mode, vers[j])'
      /\ TimeInv' /\ EntryInv' /\ MarkInv' /\ CoverInv' /\ HiddenInv' /\ IdleInv'
  BY <1>1, PutOverwrites, WriteAside
<1>3. late' = IF pc \in {"erase", "uploads", "abort"} THEN late \cup {k} ELSE late
  BY DEF Put
<1>4. TypeOK'
  BY <1>2, <1>3 DEF Aside, Meanwhile, history, IInv, TypeOK
<1>5. UploadInv'
  BY DEF IInv, UploadInv, Aside, Meanwhile, history
<1>6. LateInv'
  <2>1. pc' \in {"idle", "list"} => late' = {}
    BY <1>3 DEF IInv, LateInv, Aside, Meanwhile
  <2>2. ASSUME mode = "Enabled", pc # "failed", NEW j \in late' \ nulls
        PROVE  \E v \in Shows(j)' : ~(pc = "erase" /\ InOut(j, v.at))
    <3>1. CASE j = k
      BY <1>1, <3>1, FreshShows DEF Aside, Meanwhile
    <3>2. CASE j # k
      <4>1. j \in late \ nulls /\ j \in Keys
        BY <1>3, <2>2, <3>2 DEF IInv, TypeOK
      <4>2. Shows(j)' = Shows(j)
        BY <1>1, <3>2, <4>1, ShowsElsewhere
      <4> QED
        BY <2>2, <4>1, <4>2 DEF IInv, LateInv
    <3> QED
      BY <3>1, <3>2
  <2>3. \A j, at : InOut(j, at)' <=> InOut(j, at)
    BY DEF InOut, Aside
  <2> QED
    BY <2>1, <2>2, <2>3 DEF LateInv, Aside, Meanwhile, history
<1> QED
  BY <1>2, <1>4, <1>5, <1>6 DEF IInv

LEMMA OtherPutsStep == IInv /\ OtherPuts => IInv'
<1> SUFFICES ASSUME IInv, OtherPuts PROVE IInv'
  OBVIOUS
<1>1. PICK k \in Keys : Put(k) /\ UNCHANGED up
  BY DEF OtherPuts
<1>2. Aside /\ purges' = purges /\ others' \in 0 .. MaxOthers
  BY BucketAssumption DEF OtherPuts, Other, Aside, Meanwhile, history, IInv, TypeOK
<1> QED
  BY <1>1, <1>2, PutStep

LEMMA OtherCompletesStep == IInv /\ OtherCompletes => IInv'
<1> SUFFICES ASSUME IInv, OtherCompletes PROVE IInv'
  OBVIOUS
<1>1. PICK u \in up : up' = up \ {u} /\ Put(u.key)
  BY DEF OtherCompletes
<1>2. u.key \in Keys
  BY DEF IInv, TypeOK, Uploads
<1>3. Aside /\ purges' = purges /\ others' \in 0 .. MaxOthers
  BY BucketAssumption DEF OtherCompletes, Other, Aside, Meanwhile, history, IInv, TypeOK
<1> QED
  BY <1>1, <1>2, <1>3, PutStep

LEMMA OtherDeletesStep == IInv /\ OtherDeletes => IInv'
<1> SUFFICES ASSUME IInv, OtherDeletes PROVE IInv'
  OBVIOUS
<1>1. PICK k \in Keys : vers' = [vers EXCEPT ![k] = AfterDelete(k)] /\ late' = late \ {k}
  BY DEF OtherDeletes
<1>2. Aside /\ purges' = purges /\ up' = up /\ others' \in 0 .. MaxOthers
  BY BucketAssumption DEF OtherDeletes, Other, Aside, Meanwhile, history, IInv, TypeOK
<1>3. /\ vers' \in [Keys -> SUBSET Version(1 .. now' - 1)]
      /\ \A j \in Keys : Legal(mode, vers[j])'
      /\ TimeInv' /\ EntryInv' /\ MarkInv' /\ CoverInv' /\ HiddenInv' /\ IdleInv'
  BY <1>1, <1>2, DeleteOverwrites, WriteAside
<1>4. TypeOK'
  BY <1>1, <1>2, <1>3 DEF Aside, Meanwhile, history, IInv, TypeOK
<1>5. UploadInv'
  BY <1>2 DEF IInv, UploadInv, Aside, Meanwhile, history
<1>6. LateInv'
  <2>1. pc' \in {"idle", "list"} => late' = {}
    BY <1>1, <1>2 DEF IInv, LateInv, Aside, Meanwhile
  <2>2. ASSUME mode = "Enabled", pc # "failed", NEW j \in late' \ nulls
        PROVE  \E v \in Shows(j)' : ~(pc = "erase" /\ InOut(j, v.at))
    <3>1. j \in late \ nulls /\ j \in Keys /\ j # k
      BY <1>1, <2>2 DEF IInv, TypeOK
    <3>2. Shows(j)' = Shows(j)
      BY <1>1, <3>1, ShowsElsewhere
    <3> QED
      BY <2>2, <3>1, <3>2 DEF IInv, LateInv
  <2>3. \A j, at : InOut(j, at)' <=> InOut(j, at)
    BY <1>2 DEF InOut, Aside
  <2> QED
    BY <1>2, <2>1, <2>2, <2>3 DEF LateInv, Aside, Meanwhile, history
<1> QED
  BY <1>3, <1>4, <1>5, <1>6 DEF IInv

LEMMA OtherUploadsStep == IInv /\ OtherUploads => IInv'
<1> SUFFICES ASSUME IInv, OtherUploads PROVE IInv'
  OBVIOUS
<1> USE DEF OtherUploads, Other, history
<1>1. now \in Nat \ {0} /\ now' = now + 1 /\ since \in Nat /\ since <= now
  BY DEF IInv, TypeOK, TimeInv
<1>2. PICK k \in Keys : up' = up \cup {[key |-> k, at |-> now]}
  OBVIOUS
<1>3. TypeOK'
  <2>1. Version(1 .. now - 1) \subseteq Version(1 .. now' - 1)
    BY <1>1 DEF Version
  <2>2. vers' \in [Keys -> SUBSET Version(1 .. now' - 1)]
    BY <2>1 DEF IInv, TypeOK
  <2>3. up' \subseteq Uploads
    BY <1>1, <1>2 DEF IInv, TypeOK, Uploads
  <2>4. others' \in 0 .. MaxOthers
    BY BucketAssumption DEF IInv, TypeOK
  <2> QED
    BY <1>1, <2>2, <2>3, <2>4 DEF IInv, TypeOK, Legal
<1>4. TimeInv'
  BY <1>1 DEF IInv, TimeInv
<1>5. EntryInv'
  <2>1. ASSUME Purging, NEW e \in out PROVE e.at < now + 1
    BY <1>1, <2>1 DEF IInv, TypeOK, Purging, Found, EntryInv
  <2> QED
    BY <1>1, <2>1 DEF IInv, EntryInv, Purging
<1>6. MarkInv' /\ CoverInv' /\ HiddenInv' /\ IdleInv'
  BY DEF IInv, MarkInv, CoverInv, HiddenInv, IdleInv, Hiding, InOut, Purging
<1>7. UploadInv'
  BY <1>1, <1>2 DEF IInv, UploadInv
<1>8. LateInv'
  BY DEF IInv, LateInv, Shows, Newest, InOut
<1> QED
  BY <1>3, <1>4, <1>5, <1>6, <1>7, <1>8 DEF IInv

LEMMA BeginStep == IInv /\ Begin => IInv'
<1> SUFFICES ASSUME IInv, Begin PROVE IInv'
  OBVIOUS
<1> USE DEF Begin, bucket
<1>1. \A k \in Keys : k \in Nat /\ 0 < k
  BY BucketAssumption DEF Keys
<1>2. TypeOK'
  <2>1. mark' \in [key : Nat, at : Nat]
    BY DEF Oldest
  <2>2. purges' \in 0 .. MaxPurges
    BY BucketAssumption DEF IInv, TypeOK
  <2> QED
    BY <2>1, <2>2 DEF IInv, TypeOK, Legal
<1>3. TimeInv'
  BY DEF IInv, TimeInv, TypeOK
<1>4. EntryInv' /\ MarkInv' /\ HiddenInv' /\ IdleInv'
  BY DEF EntryInv, MarkInv, HiddenInv, IdleInv
<1>5. CoverInv'
  BY <1>1 DEF CoverInv, Precedes, Oldest
<1>6. UploadInv' /\ LateInv'
  BY DEF UploadInv, LateInv
<1> QED
  BY <1>2, <1>3, <1>4, <1>5, <1>6 DEF IInv

LEMMA ErasedStep == IInv /\ Erased => IInv'
<1> SUFFICES ASSUME IInv, Erased PROVE IInv'
  OBVIOUS
<1> USE DEF Erased, bucket, history
<1>1. TypeOK'
  BY DEF IInv, TypeOK, Oldest, Legal
<1>2. TimeInv' /\ EntryInv' /\ MarkInv' /\ HiddenInv' /\ IdleInv'
  BY DEF IInv, TimeInv, EntryInv, MarkInv, HiddenInv, IdleInv, Purging
<1>3. CoverInv'
  BY DEF IInv, CoverInv, Hiding, InOut
<1>4. UploadInv'
  <2>1. \A u \in up : u.key \in Nat /\ 0 < u.key
    BY BucketAssumption DEF IInv, TypeOK, Uploads, Keys
  <2> QED
    BY <2>1 DEF UploadInv, Precedes, Oldest
<1>5. LateInv'
  BY DEF IInv, LateInv, Shows, Newest
<1> QED
  BY <1>1, <1>2, <1>3, <1>4, <1>5 DEF IInv

\* While uploads are listed and aborted, versions are as they were.
LEMMA UploadsAside ==
  ASSUME IInv, pc \in {"uploads", "abort"}, pc' \in {"uploads", "abort", "done"},
         UNCHANGED <<mode, vers, now, others, purges, page, history, late>>,
         pc' = "done" => out' = {}
  PROVE  /\ TimeInv' /\ EntryInv' /\ MarkInv' /\ CoverInv' /\ LateInv' /\ HiddenInv'
         /\ IdleInv'
<1> USE DEF history
<1>1. TimeInv' /\ EntryInv' /\ MarkInv' /\ HiddenInv' /\ IdleInv'
  BY DEF IInv, TimeInv, EntryInv, MarkInv, HiddenInv, IdleInv, Purging
<1>2. CoverInv'
  BY DEF IInv, CoverInv, Hiding
<1>3. LateInv'
  BY DEF IInv, LateInv, Shows, Newest
<1> QED
  BY <1>1, <1>2, <1>3

LEMMA ListUploadsPageStep == IInv /\ ListUploadsPage => IInv'
<1> SUFFICES ASSUME IInv, ListUploadsPage PROVE IInv'
  OBVIOUS
<1> USE DEF bucket, history
<1>1. /\ pc = "uploads" /\ pc' \in {"uploads", "abort"}
      /\ UNCHANGED <<mode, vers, up, now, others, purges, page, since, split, nulls, late>>
  BY DEF ListUploadsPage
<1>2. PICK P \in SUBSET UploadsRest :
        /\ IsUploadPage(P)
        /\ out' = out \cup P
        /\ IF P = UploadsRest THEN pc' = "abort" /\ UNCHANGED mark
           ELSE /\ UNCHANGED pc
                /\ \E u \in P : /\ \A w \in P \ {u} : Precedes(w.key, u.at, u.key, w.at)
                                /\ mark' = u
  BY DEF ListUploadsPage
<1>3. P \subseteq up /\ up \subseteq Uploads
  BY DEF UploadsRest, IInv, TypeOK
<1>4. TypeOK'
  <2>1. mark' \in [key : Nat, at : Nat]
    BY <1>2, <1>3, BucketAssumption DEF IInv, TypeOK, Uploads, Keys
  <2>2. out' \subseteq Uploads
    BY <1>1, <1>2, <1>3 DEF IInv, TypeOK
  <2> QED
    BY <1>1, <2>1, <2>2 DEF IInv, TypeOK, Legal
<1>5. UploadInv'
  <2> SUFFICES ASSUME NEW u \in up, u.at < since
               PROVE  /\ pc' = "uploads" =>
                           Precedes(mark'.key, u.at, u.key, mark'.at) \/ u \in out'
                      /\ pc' = "abort" => u \in out'
    BY <1>1 DEF UploadInv
  <2>1. u \in UploadsRest \/ u \in out
    BY <1>1 DEF IInv, UploadInv, UploadsRest
  <2>2. CASE u \in out \/ u \in P
    BY <1>2, <2>2
  <2>3. CASE u \in UploadsRest \ P
    <3>1. pc' = pc
      BY <1>2, <2>3
    <3>2. PICK w \in P : mark' = w
      BY <1>2, <2>3
    <3>3. Precedes(w.key, u.at, u.key, w.at)
      BY <1>2, <2>3 DEF IsUploadPage
    <3> QED
      BY <1>1, <3>1, <3>2, <3>3
  <2> QED
    BY <2>1, <2>2, <2>3
<1> QED
  BY <1>1, <1>4, <1>5, UploadsAside DEF IInv

LEMMA AbortUploadStep == IInv /\ AbortUpload => IInv'
<1> SUFFICES ASSUME IInv, AbortUpload PROVE IInv'
  OBVIOUS
<1> USE DEF AbortUpload, history
<1>1. TypeOK'
  BY DEF IInv, TypeOK, Legal
<1>2. UploadInv'
  BY DEF IInv, UploadInv
<1> QED
  BY <1>1, <1>2, UploadsAside DEF IInv

LEMMA PurgedStep == IInv /\ Purged => IInv'
<1> SUFFICES ASSUME IInv, Purged PROVE IInv'
  OBVIOUS
<1> USE DEF Purged, bucket, history
<1>1. TypeOK'
  BY DEF IInv, TypeOK, Legal
<1>2. UploadInv'
  BY DEF IInv, UploadInv
<1> QED
  BY <1>1, <1>2, UploadsAside DEF IInv

LEMMA PurgeFailsStep == IInv /\ PurgeFails => IInv'
<1> SUFFICES ASSUME IInv, PurgeFails PROVE IInv'
  OBVIOUS
<1> USE DEF PurgeFails, bucket, history
<1>1. TypeOK'
  BY DEF IInv, TypeOK, Legal
<1>2. TimeInv' /\ EntryInv' /\ MarkInv' /\ HiddenInv' /\ IdleInv'
  BY DEF IInv, TimeInv, EntryInv, MarkInv, HiddenInv, IdleInv, Purging
<1>3. CoverInv' /\ UploadInv' /\ LateInv'
  BY DEF CoverInv, UploadInv, LateInv
<1> QED
  BY <1>1, <1>2, <1>3 DEF IInv

\* What can be listed are the versions of the keys.
LEMMA RestFacts ==
  ASSUME TypeOK, NEW r \in Rest
  PROVE  /\ r.key \in Keys /\ r.key \in Nat /\ r.v \in vers[r.key]
         /\ r.v.at \in Nat /\ r.v.at < now
         /\ r.v.null \in BOOLEAN /\ r.v.marker \in BOOLEAN
         /\ r = [key |-> r.key, v |-> r.v]
         /\ Precedes(mark.key, mark.at, r.key, r.v.at)
<1>1. r \in Entries /\ r.v \in vers[r.key] /\ Precedes(mark.key, mark.at, r.key, r.v.at)
  BY DEF Rest, Listable
<1>2. PICK k \in Keys, v \in UNION {vers[j] : j \in Keys} : r = [key |-> k, v |-> v]
  BY <1>1 DEF Entries
<1>3. r.key = k /\ r.v = v
  BY <1>2
<1>4. vers[k] \subseteq Version(1 .. now - 1) /\ now \in Nat
  BY DEF TypeOK
<1>5. v \in Version(1 .. now - 1)
  BY <1>1, <1>3, <1>4
<1>6. v.at \in 1 .. now - 1 /\ v.null \in BOOLEAN /\ v.marker \in BOOLEAN
  BY <1>5 DEF Version
<1>7. k \in Nat
  BY BucketAssumption DEF Keys
<1> QED
  BY <1>1, <1>2, <1>3, <1>4, <1>6, <1>7

LEMMA InRest ==
  ASSUME NEW k \in Keys, NEW v \in vers[k], Precedes(mark.key, mark.at, k, v.at)
  PROVE  [key |-> k, v |-> v] \in Rest
  BY DEF Rest, Listable, Entries

LEMMA ListPageStep == IInv /\ ListPage => IInv'
<1> SUFFICES ASSUME IInv, ListPage PROVE IInv'
  OBVIOUS
<1>1. /\ pc = "list" /\ page' = page + 1
      /\ UNCHANGED <<mode, vers, up, now, others, purges, since, late>>
  BY DEF ListPage, bucket
<1>2. PICK P \in SUBSET Rest :
        /\ IsPage(P, Rest)
        /\ out' = out \cup Listed(P)
        /\ nulls' = nulls \cup {e.key : e \in {f \in P : f.v.null}}
        /\ split' = split \cup {k \in Keys : /\ \E e \in P : e.key = k
                                             /\ \E e \in Rest \ P : e.key = k}
        /\ IF P = Rest THEN pc' = "erase" /\ UNCHANGED mark
           ELSE /\ UNCHANGED pc
                /\ \E e \in P : /\ \A f \in P \ {e} : Precedes(f.key, f.v.at, e.key, e.v.at)
                                /\ mark' = [key |-> e.key, at |-> e.v.at]
  BY DEF ListPage
<1> DEFINE Entry(e) == [page |-> page, key |-> e.key, at |-> e.v.at, null |-> e.v.null,
                        marker |-> e.v.marker]
<1>3. Listed(P) = {Entry(e) : e \in P}
  BY DEF Listed
<1>4. \A e \in Rest : /\ e.key \in Keys /\ e.key \in Nat /\ e.v \in vers[e.key]
                      /\ e.v.at \in Nat /\ e.v.at < now
                      /\ e.v.null \in BOOLEAN /\ e.v.marker \in BOOLEAN
                      /\ e = [key |-> e.key, v |-> e.v]
                      /\ Precedes(mark.key, mark.at, e.key, e.v.at)
  BY RestFacts DEF IInv
<1>5. mark.key \in Nat /\ mark.at \in Nat /\ page \in Nat /\ since \in Nat
  BY DEF IInv, TypeOK
<1>6. \A e \in P, f \in Rest \ P : Precedes(e.key, e.v.at, f.key, f.v.at)
  BY <1>2 DEF IsPage
<1>7. \A f \in out : f \in Found /\ f.key \in Nat /\ f.key \in Keys /\ f.at \in Nat
  <2>1. out \subseteq Found
    BY <1>1 DEF IInv, TypeOK
  <2> QED
    BY <2>1, BucketAssumption DEF Found, Keys
<1>8. \A e \in P : Entry(e) \in out' /\ Entry(e).key = e.key /\ Entry(e).at = e.v.at
                   /\ Entry(e).page = page
  BY <1>2, <1>3
<1>9. \A f \in out' : f \in out \/ \E e \in P : f = Entry(e)
  BY <1>2, <1>3
<1>10. \A e \in P : /\ Entry(e).key = e.key /\ Entry(e).at = e.v.at /\ Entry(e).page = page
                    /\ Entry(e).null = e.v.null /\ Entry(e).marker = e.v.marker
                    /\ Entry(e) \in Found
  BY <1>4, <1>5 DEF Found
<1> HIDE DEF Entry
<1>11. TypeOK'
  <2>1. out' \subseteq Found
    BY <1>7, <1>9, <1>10
  <2>2. mark' \in [key : Nat, at : Nat]
    BY <1>2, <1>4 DEF IInv, TypeOK
  <2>3. split' \subseteq Keys /\ nulls' \subseteq Keys
    BY <1>2, <1>4 DEF IInv, TypeOK
  <2>4. pc' \in {"list", "erase"} /\ page' \in Nat
    BY <1>1, <1>2, <1>5
  <2> QED
    BY <1>1, <2>1, <2>2, <2>3, <2>4 DEF IInv, TypeOK, Legal
<1>12. TimeInv'
  BY <1>1 DEF IInv, TimeInv
<1>13. EntryInv'
  <2> SUFFICES ASSUME NEW f \in out'
               PROVE  /\ f.at < now
                      /\ f.null => f.key \in nulls'
                      /\ \A v \in vers[f.key] : v.at = f.at => v.null = f.null /\ v.marker = f.marker
    BY <1>1 DEF EntryInv
  <2>1. CASE f \in out
    BY <1>1, <1>2, <2>1 DEF IInv, EntryInv, Purging
  <2>2. CASE \E e \in P : f = Entry(e)
    <3>1. PICK e \in P : f = Entry(e)
      BY <2>2
    <3>2. f.null => f.key \in nulls'
      BY <1>2, <1>10, <3>1
    <3>3. \A v \in vers[f.key] : v.at = f.at => v = e.v
      BY <1>4, <1>10, <3>1 DEF IInv, TimeInv
    <3> QED
      BY <1>4, <1>10, <3>1, <3>2, <3>3
  <2> QED
    BY <1>9, <2>1, <2>2
<1>14. MarkInv'
  <2> SUFFICES ASSUME pc' = "list", NEW f \in out'
               PROVE  \/ f.key = mark'.key /\ f.at = mark'.at
                      \/ Precedes(f.key, f.at, mark'.key, mark'.at)
    BY DEF MarkInv
  <2>1. PICK l \in P : /\ \A e \in P \ {l} : Precedes(e.key, e.v.at, l.key, l.v.at)
                       /\ mark' = [key |-> l.key, at |-> l.v.at]
    BY <1>2
  <2>2. mark'.key = l.key /\ mark'.at = l.v.at
    BY <2>1
  <2>3. CASE f \in out
    <3>1. (f.key = mark.key /\ f.at = mark.at) \/ Precedes(f.key, f.at, mark.key, mark.at)
      BY <1>1, <2>3 DEF IInv, MarkInv
    <3>2. Precedes(mark.key, mark.at, l.key, l.v.at)
      BY <1>4
    <3>3. /\ f.key \in Nat /\ f.at \in Nat /\ l.key \in Nat /\ l.v.at \in Nat
          /\ mark.key \in Nat /\ mark.at \in Nat
      BY <1>4, <1>5, <1>7, <2>3
    <3>4. Precedes(f.key, f.at, l.key, l.v.at)
      BY <3>1, <3>2, <3>3 DEF Precedes
    <3> QED
      BY <2>2, <3>4
  <2>4. CASE \E e \in P : f = Entry(e)
    <3>1. PICK e \in P : f = Entry(e)
      BY <2>4
    <3> QED
      BY <1>10, <2>1, <2>2, <3>1
  <2> QED
    BY <1>9, <2>3, <2>4
<1>15. CoverInv'
  <2> SUFFICES ASSUME NEW k \in Keys, NEW v \in vers[k], v.at < since
               PROVE  /\ pc' = "list" => Precedes(mark'.key, mark'.at, k, v.at) \/ InOut(k, v.at)'
                      /\ pc' = "erase" => InOut(k, v.at)'
    BY <1>1, <1>2 DEF CoverInv
  <2> DEFINE r == [key |-> k, v |-> v]
  <2>1. r.key = k /\ r.v = v
    OBVIOUS
  <2>2. CASE InOut(k, v.at)
    BY <1>2, <2>2 DEF InOut
  <2>3. CASE r \in P
    BY <1>8, <2>1, <2>3 DEF InOut
  <2>4. CASE ~InOut(k, v.at) /\ r \notin P
    <3>1. Precedes(mark.key, mark.at, k, v.at)
      BY <1>1, <2>4 DEF IInv, CoverInv
    <3>2. r \in Rest \ P
      BY <2>4, <3>1, InRest
    <3> HIDE DEF r
    <3>3. PICK l \in P : mark' = [key |-> l.key, at |-> l.v.at]
      BY <1>2, <3>2
    <3>4. Precedes(l.key, l.v.at, k, v.at)
      BY <1>6, <2>1, <3>2
    <3>5. pc' = "list"
      BY <1>1, <1>2, <3>2
    <3> QED
      BY <3>3, <3>4, <3>5
  <2> QED
    BY <2>2, <2>3, <2>4
<1>16. UploadInv' /\ LateInv' /\ IdleInv'
  <2>1. pc' \in {"list", "erase"} /\ late' = {}
    BY <1>1, <1>2 DEF IInv, LateInv
  <2> QED
    BY <2>1 DEF UploadInv, LateInv, IdleInv
<1>17. HiddenInv'
  <2> SUFFICES ASSUME NEW f \in out', f.key \notin split', NEW v \in vers[f.key], v.at < f.at
               PROVE  \/ \E g \in out' : g.key = f.key /\ g.at = v.at /\ g.page = f.page
                      \/ \E w \in vers[f.key] : w.at > f.at /\ ~InOut(f.key, w.at)'
    BY <1>1 DEF HiddenInv
  <2>1. CASE f \in out
    <3>1. \/ \E g \in out : g.key = f.key /\ g.at = v.at /\ g.page = f.page
          \/ \E w \in vers[f.key] : w.at > f.at /\ ~InOut(f.key, w.at)
      BY <1>1, <1>2, <2>1 DEF IInv, HiddenInv, Purging
    <3>2. ASSUME NEW w \in vers[f.key], w.at > f.at, ~InOut(f.key, w.at)
          PROVE  ~InOut(f.key, w.at)'
      <4>1. ASSUME NEW e \in P, e.key = f.key, e.v.at = w.at PROVE FALSE
        <5>1. (f.key = mark.key /\ f.at = mark.at) \/ Precedes(f.key, f.at, mark.key, mark.at)
          BY <1>1, <2>1 DEF IInv, MarkInv
        <5>2. Precedes(mark.key, mark.at, e.key, e.v.at)
          BY <1>4
        <5>3. /\ f.key \in Nat /\ f.at \in Nat /\ e.v.at \in Nat
              /\ mark.key \in Nat /\ mark.at \in Nat
          BY <1>4, <1>5, <1>7, <2>1
        <5>4. e.v.at > f.at /\ e.key = f.key
          BY <3>2, <4>1
        <5> QED
          BY <5>1, <5>2, <5>3, <5>4 DEF Precedes
      <4> QED
        BY <1>9, <1>10, <3>2, <4>1 DEF InOut
    <3> QED
      BY <1>2, <3>1, <3>2
  <2>2. CASE \E e \in P : f = Entry(e)
    <3>1. PICK e \in P : f = Entry(e)
      BY <2>2
    <3>2. f.key = e.key /\ f.at = e.v.at /\ f.page = page
      BY <1>10, <3>1
    <3> DEFINE r == [key |-> f.key, v |-> v]
    <3>3. r.key = f.key /\ r.v = v
      OBVIOUS
    <3>4. f.key \in Keys /\ f.key \in Nat /\ v.at \in Nat
      BY <1>4, <3>2 DEF IInv, TypeOK, Version
    <3>5. Precedes(e.key, e.v.at, f.key, v.at)
      BY <3>2 DEF Precedes
    <3>6. Precedes(mark.key, mark.at, e.key, e.v.at)
      BY <1>4
    <3>7. Precedes(mark.key, mark.at, f.key, v.at)
      <4>1. e.key \in Nat /\ e.v.at \in Nat /\ mark.key \in Nat /\ mark.at \in Nat
        BY <1>4, <1>5
      <4> QED
        BY <3>4, <3>5, <3>6, <4>1 DEF Precedes
    <3>8. r \in Rest
      BY <3>4, <3>7, InRest
    <3> HIDE DEF r
    <3>9. r \in P
      BY <1>2, <3>2, <3>3, <3>4, <3>8
    <3> QED
      BY <1>8, <3>2, <3>3, <3>9
  <2> QED
    BY <1>9, <2>1, <2>2
<1> QED
  BY <1>11, <1>12, <1>13, <1>14, <1>15, <1>16, <1>17 DEF IInv

\* The entry of a null version is erased by a delete that names no version.
LEMMA EraseNullStep ==
  ASSUME IInv, pc = "erase", NEW e \in out, e.null,
         vers' = [vers EXCEPT ![e.key] = AfterDelete(e.key)], out' = out \ {e},
         now' = now + 1,
         UNCHANGED <<mode, up, others, purges, pc, mark, page, history, late>>
  PROVE  IInv'
<1> USE DEF history
<1>1. now \in Nat \ {0} /\ since \in Nat /\ since <= now
  BY DEF IInv, TypeOK, TimeInv
<1>2. out \subseteq Found
  BY DEF IInv, TypeOK
<1>3. e.key \in Keys /\ e.key \in nulls /\ \A v \in vers[e.key] : v.at = e.at => v.null
  BY <1>2 DEF IInv, EntryInv, Purging, Found
<1>4. Overwrites(e.key)
  BY <1>3, DeleteOverwrites
<1>5. /\ \A j \in Keys : \A v \in vers'[j] :
           v \in vers[j] \/ (j = e.key /\ v.at = now /\ v.null = (mode # "Enabled"))
      /\ \A j \in Keys : \A v \in vers[j] :
           v \in vers'[j] \/ (j = e.key /\ mode # "Enabled" /\ v.null)
      /\ \A v \in vers'[e.key] : mode # "Enabled" /\ v.null => v.at = now
      /\ mode # "Disabled" => \E w \in vers'[e.key] : w.at = now
  BY <1>3, <1>4, WriteFacts DEF IInv
<1>6. /\ vers' \in [Keys -> SUBSET Version(1 .. now' - 1)]
      /\ \A j \in Keys : Legal(mode, vers[j])'
      /\ TimeInv' /\ EntryInv' /\ MarkInv' /\ IdleInv'
  BY <1>3, <1>4, WriteKeeps DEF Meanwhile
<1>7. TypeOK'
  BY <1>1, <1>2, <1>6 DEF IInv, TypeOK
<1>8. /\ \A j, at : InOut(j, at)' => InOut(j, at)
      /\ \A j, at : InOut(j, at) => InOut(j, at)' \/ (j = e.key /\ at = e.at)
      /\ \A j : ~InOut(j, now)
  <2>1. \A f \in out : f.at < now /\ f.at \in Nat
    BY <1>2 DEF IInv, EntryInv, Purging, Found
  <2> QED
    BY <1>1, <2>1 DEF InOut
<1>9. \A j \in Keys : \A v \in vers[j] : v.at \in Nat /\ v.at < now
  BY <1>1 DEF IInv, TypeOK, Version
<1>10. \A j \in Keys : \A v \in vers'[j] : v.at < now => v \in vers[j]
  BY <1>1, <1>5
<1>11. \A v \in vers'[e.key] : v.at < now /\ v.at = e.at => mode = "Enabled" /\ v.null
  BY <1>1, <1>3, <1>5, <1>10
<1>12. CoverInv'
  <2> SUFFICES ASSUME NEW j \in Keys, NEW v \in vers'[j], v.at < since
               PROVE  InOut(j, v.at)' \/ Hiding(j, v)'
    BY DEF CoverInv
  <2>1. v \in vers[j] /\ v.at < now
    BY <1>1, <1>5, <1>9
  <2>2. CASE Hiding(j, v)
    <3>1. PICK w \in vers[j] : w.at >= since /\ ~InOut(j, w.at)
      BY <2>2 DEF Hiding
    <3>2. w \in vers'[j]
      BY <1>5, <2>2 DEF Hiding
    <3> QED
      BY <1>8, <2>2, <3>1, <3>2 DEF Hiding
  <2>3. CASE InOut(j, v.at) /\ ~InOut(j, v.at)'
    <3>1. j = e.key /\ v.at = e.at
      BY <1>8, <2>3
    <3>2. mode = "Enabled" /\ v.null
      BY <1>11, <2>1, <3>1
    <3>3. PICK w \in vers'[j] : w.at = now
      BY <1>5, <3>1, <3>2
    <3>4. w.at >= since /\ ~InOut(j, w.at)'
      BY <1>1, <1>8, <3>3
    <3> QED
      BY <3>2, <3>4 DEF Hiding
  <2> QED
    BY <2>1, <2>2, <2>3 DEF IInv, CoverInv
<1>13. UploadInv'
  BY DEF UploadInv
<1>14. LateInv'
  <2>1. ASSUME mode = "Enabled", NEW k \in late \ nulls
        PROVE  \E v \in Shows(k)' : ~InOut(k, v.at)'
    <3>1. k # e.key /\ k \in Keys
      BY <1>3 DEF IInv, TypeOK
    <3>2. Shows(k)' = Shows(k)
      BY <3>1, ShowsElsewhere
    <3> QED
      BY <1>8, <2>1, <3>2 DEF IInv, LateInv
  <2> QED
    BY <2>1 DEF LateInv
<1>15. HiddenInv'
  <2> SUFFICES ASSUME NEW f \in out', f.key \notin split, NEW v \in vers'[f.key], v.at < f.at
               PROVE  \/ \E g \in out' : g.key = f.key /\ g.at = v.at /\ g.page = f.page
                      \/ \E w \in vers'[f.key] : w.at > f.at /\ ~InOut(f.key, w.at)'
    BY DEF HiddenInv
  <2>1. f \in out /\ f.key \in Keys /\ f.at \in Nat /\ f.at < now
    BY <1>2 DEF IInv, EntryInv, Purging, Found
  <2>2. v \in vers[f.key] /\ v.at < now
    BY <1>1, <1>5, <1>9, <2>1
  <2>3. \/ \E g \in out : g.key = f.key /\ g.at = v.at /\ g.page = f.page
        \/ \E w \in vers[f.key] : w.at > f.at /\ ~InOut(f.key, w.at)
    BY <2>1, <2>2 DEF IInv, HiddenInv, Purging
  <2>4. f.key = e.key /\ mode # "Disabled"
          => \E w \in vers'[f.key] : w.at > f.at /\ ~InOut(f.key, w.at)'
    BY <1>1, <1>5, <1>8, <2>1
  <2>5. ASSUME NEW g \in out, g.key = f.key, g.at = v.at, g.page = f.page, g = e
        PROVE  f.key = e.key /\ mode # "Disabled"
    <3>1. mode = "Enabled"
      BY <1>11, <2>2, <2>5
    <3> QED
      BY <2>5, <3>1
  <2>6. ASSUME NEW w \in vers[f.key], w.at > f.at, ~InOut(f.key, w.at), w \notin vers'[f.key]
        PROVE  f.key = e.key /\ mode # "Disabled"
    <3>1. f.key = e.key /\ mode # "Enabled"
      BY <1>5, <2>1, <2>6
    <3>2. mode = "Disabled" => v.null
      BY <2>1, <2>2 DEF IInv, TypeOK, Legal
    <3>3. mode = "Disabled" => v.at = now
      BY <1>5, <3>1, <3>2
    <3> QED
      BY <1>1, <2>2, <3>1, <3>3
  <2> QED
    BY <1>8, <2>3, <2>4, <2>5, <2>6
<1> QED
  BY <1>6, <1>7, <1>12, <1>13, <1>14, <1>15 DEF IInv

\* The entry of another version is erased by its id.
LEMMA EraseVersionStep ==
  ASSUME IInv, pc = "erase", NEW e \in out,
         vers' = [vers EXCEPT ![e.key] = AfterErase(e.key, e.at)], out' = out \ {e},
         now' = now + 1,
         UNCHANGED <<mode, up, others, purges, pc, mark, page, history, late>>
  PROVE  IInv'
<1> USE DEF history
<1>1. now \in Nat \ {0} /\ since \in Nat /\ since <= now
  BY DEF IInv, TypeOK, TimeInv
<1>2. out \subseteq Found
  BY DEF IInv, TypeOK
<1>3. e.key \in Keys
  BY <1>2 DEF Found
<1>4. \A j \in Keys : \A v : v \in vers'[j] <=> v \in vers[j] /\ ~(j = e.key /\ v.at = e.at)
  BY <1>3 DEF IInv, TypeOK, AfterErase
<1>5. vers' \in [Keys -> SUBSET Version(1 .. now' - 1)]
  <2>1. Version(1 .. now - 1) \subseteq Version(1 .. now' - 1)
    BY <1>1 DEF Version
  <2>2. vers \in [Keys -> SUBSET Version(1 .. now' - 1)]
    BY <2>1 DEF IInv, TypeOK
  <2>3. AfterErase(e.key, e.at) \in SUBSET Version(1 .. now' - 1)
    BY <1>3, <2>2 DEF AfterErase
  <2> QED
    BY <2>2, <2>3
<1>6. TypeOK'
  <2>1. \A j \in Keys : Legal(mode, vers'[j])
    BY <1>4 DEF IInv, TypeOK, Legal
  <2> QED
    BY <1>1, <1>2, <1>5, <2>1 DEF IInv, TypeOK
<1>7. TimeInv' /\ MarkInv' /\ IdleInv' /\ UploadInv'
  BY <1>1, <1>4 DEF IInv, TimeInv, MarkInv, IdleInv, UploadInv
<1>8. EntryInv'
  <2>1. \A f \in out : f.at \in Nat /\ f.key \in Keys /\ f.at < now
    BY <1>2 DEF IInv, EntryInv, Purging, Found
  <2>2. \A f \in out : f.at < now'
    BY <1>1, <2>1
  <2> QED
    BY <1>4, <2>1, <2>2 DEF IInv, EntryInv, Purging
<1>9. /\ \A j, at : InOut(j, at)' => InOut(j, at)
      /\ \A j, at : InOut(j, at) => InOut(j, at)' \/ (j = e.key /\ at = e.at)
      /\ InOut(e.key, e.at)
  BY DEF InOut
<1>10. CoverInv'
  <2> SUFFICES ASSUME NEW j \in Keys, NEW v \in vers'[j], v.at < since
               PROVE  InOut(j, v.at)' \/ Hiding(j, v)'
    BY DEF CoverInv
  <2>1. v \in vers[j] /\ ~(j = e.key /\ v.at = e.at)
    BY <1>4
  <2>2. CASE Hiding(j, v)
    <3>1. PICK w \in vers[j] : w.at >= since /\ ~InOut(j, w.at)
      BY <2>2 DEF Hiding
    <3>2. w \in vers'[j] /\ ~InOut(j, w.at)'
      BY <1>4, <1>9, <3>1
    <3> QED
      BY <2>2, <3>1, <3>2 DEF Hiding
  <2>3. CASE InOut(j, v.at)
    BY <1>9, <2>1, <2>3
  <2> QED
    BY <2>1, <2>2, <2>3 DEF IInv, CoverInv
<1>11. LateInv'
  <2>1. ASSUME mode = "Enabled", NEW k \in late \ nulls
        PROVE  \E v \in Shows(k)' : ~InOut(k, v.at)'
    <3>1. PICK v \in Shows(k) : ~InOut(k, v.at)
      BY <2>1 DEF IInv, LateInv
    <3>2. k \in Keys
      BY DEF IInv, TypeOK
    <3>3. v \in vers'[k] /\ \A w \in vers'[k] : w \in vers[k]
      BY <1>4, <1>9, <3>1, <3>2 DEF Shows, Newest
    <3>4. v \in Shows(k)'
      BY <3>1, <3>3 DEF Shows, Newest
    <3> QED
      BY <1>9, <3>1, <3>4
  <2> QED
    BY <2>1 DEF LateInv, IInv
<1>12. HiddenInv'
  <2> SUFFICES ASSUME NEW f \in out', f.key \notin split, NEW v \in vers'[f.key], v.at < f.at
               PROVE  \/ \E g \in out' : g.key = f.key /\ g.at = v.at /\ g.page = f.page
                      \/ \E w \in vers'[f.key] : w.at > f.at /\ ~InOut(f.key, w.at)'
    BY DEF HiddenInv
  <2>1. f \in out /\ f.key \in Keys
    BY <1>2 DEF Found
  <2>2. v \in vers[f.key] /\ ~(f.key = e.key /\ v.at = e.at)
    BY <1>4, <2>1
  <2>3. \/ \E g \in out : g.key = f.key /\ g.at = v.at /\ g.page = f.page
        \/ \E w \in vers[f.key] : w.at > f.at /\ ~InOut(f.key, w.at)
    BY <2>1, <2>2 DEF IInv, HiddenInv, Purging
  <2>4. ASSUME NEW w \in vers[f.key], ~InOut(f.key, w.at)
        PROVE  w \in vers'[f.key] /\ ~InOut(f.key, w.at)'
    BY <1>4, <1>9, <2>1, <2>4
  <2> QED
    BY <2>2, <2>3, <2>4
<1> QED
  BY <1>6, <1>7, <1>8, <1>10, <1>11, <1>12 DEF IInv

LEMMA EraseStep == IInv /\ Erase => IInv'
<1> SUFFICES ASSUME IInv, Erase PROVE IInv'
  OBVIOUS
<1>1. /\ pc = "erase" /\ now' = now + 1
      /\ UNCHANGED <<mode, up, others, purges, pc, mark, page, history, late>>
  BY DEF Erase
<1>2. PICK e \in out : vers' = [vers EXCEPT ![e.key] = Effect(e)] /\ out' = out \ {e}
  BY DEF Erase
<1>3. CASE e.null
  BY <1>1, <1>2, <1>3, EraseNullStep DEF Effect
<1>4. CASE ~e.null
  BY <1>1, <1>2, <1>4, EraseVersionStep DEF Effect
<1> QED
  BY <1>3, <1>4

LEMMA InitStep == Init => IInv
<1> SUFFICES ASSUME Init PROVE IInv
  OBVIOUS
<1> USE DEF Init
<1>1. \A k \in Keys : vers[k] \in Histories(mode, Depth[k])
  OBVIOUS
<1>2. \A k \in Keys : /\ vers[k] \in SUBSET Version(1 .. Depth[k])
                      /\ Legal(mode, vers[k])
                      /\ \A v, w \in vers[k] : v.at = w.at => v = w
  BY <1>1 DEF Histories
<1>3. MaxDepth \in Nat /\ now = MaxDepth + 2
  BY BucketAssumption
<1>4. \A k \in Keys : Depth[k] \in 0 .. MaxDepth
  BY BucketAssumption
<1>5. \A k \in Keys : Version(1 .. Depth[k]) \subseteq Version(1 .. now - 1)
  <2>1. ASSUME NEW k \in Keys PROVE 1 .. Depth[k] \subseteq 1 .. now - 1
    BY <1>3, <1>4
  <2> QED
    BY <2>1 DEF Version
<1>6. vers \in [Keys -> SUBSET Version(1 .. now - 1)]
  <2>1. \A k \in Keys : vers[k] \in SUBSET Version(1 .. now - 1)
    BY <1>2, <1>5
  <2> QED
    BY <2>1
<1>7. TypeOK
  <2>1. up \subseteq Uploads
    BY <1>3 DEF Uploads
  <2> QED
    BY <1>2, <1>3, <1>6, <2>1, BucketAssumption DEF TypeOK, Oldest
<1>8. TimeInv
  BY <1>2, <1>3 DEF TimeInv
<1>9. UploadInv
  BY <1>3 DEF UploadInv
<1>10. EntryInv /\ MarkInv /\ CoverInv /\ LateInv /\ HiddenInv /\ IdleInv
  BY DEF EntryInv, MarkInv, CoverInv, LateInv, HiddenInv, IdleInv, Purging
<1> QED
  BY <1>7, <1>8, <1>9, <1>10 DEF IInv

LEMMA StutterStep == IInv /\ UNCHANGED vars => IInv'
<1> SUFFICES ASSUME IInv, UNCHANGED vars PROVE IInv'
  OBVIOUS
<1> USE DEF vars, bucket, history
<1>1. TypeOK' /\ TimeInv' /\ EntryInv' /\ MarkInv'
  BY DEF IInv, TypeOK, TimeInv, EntryInv, MarkInv, Purging, Legal
<1>2. CoverInv' /\ UploadInv' /\ IdleInv'
  BY DEF IInv, CoverInv, UploadInv, IdleInv, Hiding, InOut
<1>3. LateInv' /\ HiddenInv'
  BY DEF IInv, LateInv, HiddenInv, Purging, Shows, Newest, InOut
<1> QED
  BY <1>1, <1>2, <1>3 DEF IInv

----------------------------------------------------------------------------
(* The theorems.                                                           *)

(* The inductive invariant holds throughout.                               *)
THEOREM Invariance == Spec => []IInv
<1>1. Init => IInv
  BY InitStep
<1>2. IInv /\ [Next]_vars => IInv'
  <2> SUFFICES ASSUME IInv, [Next]_vars PROVE IInv'
    OBVIOUS
  <2>1. CASE Purge
    BY <2>1, BeginStep, ListPageStep, EraseStep, ErasedStep, ListUploadsPageStep,
       AbortUploadStep, PurgedStep, PurgeFailsStep DEF Purge
  <2>2. CASE OtherPuts \/ OtherDeletes \/ OtherUploads \/ OtherCompletes
    BY <2>2, OtherPutsStep, OtherDeletesStep, OtherUploadsStep, OtherCompletesStep
  <2>3. CASE UNCHANGED vars
    BY <2>3, StutterStep
  <2> QED
    BY <2>1, <2>2, <2>3 DEF Next
<1> QED
  BY <1>1, <1>2, PTL DEF Spec

(* Every variable keeps its type.                                          *)
THEOREM TypeCorrect == Spec => []TypeOK
<1>1. IInv => TypeOK
  BY DEF IInv
<1> QED
  BY <1>1, Invariance, PTL

(* A purge leaves nothing of what was there when it began, but null        *)
(* versions with a newer version above them.                               *)
THEOREM PurgeIsComplete == Spec => []PurgedIsGone
<1>1. IInv => PurgedIsGone
  <2> SUFFICES ASSUME IInv, pc = "done" PROVE PurgedIsGone
    BY DEF PurgedIsGone
  <2>1. \A k \in Keys : \A v \in vers[k] : v.at < since => Hiding(k, v)
    BY DEF IInv, CoverInv
  <2>2. since \in Nat /\ \A k \in Keys : \A v \in vers[k] : v.at \in Nat
    BY DEF IInv, TypeOK, Version
  <2>3. \A k \in Keys : \A v \in vers[k] : v.at >= since \/ (mode = "Enabled" /\ v.null)
    BY <2>1, <2>2 DEF Hiding
  <2>4. ASSUME NEW k \in Keys, NEW v \in Shows(k), v.at < since PROVE FALSE
    <3>1. v \in vers[k] /\ \A w \in vers[k] : w.at <= v.at
      BY DEF Shows, Newest
    <3>2. PICK w \in vers[k] : w.at >= since
      BY <2>1, <2>4, <3>1 DEF Hiding
    <3> QED
      BY <2>2, <2>4, <3>1, <3>2
  <2>5. \A k \in Keys : \A v \in Shows(k) : v.at >= since
    BY <2>2, <2>4 DEF Shows, Newest
  <2>6. \A u \in up : u.at >= since
    BY <2>2 DEF IInv, UploadInv, TypeOK, Uploads
  <2> QED
    BY <2>3, <2>5, <2>6 DEF PurgedIsGone
<1> QED
  BY <1>1, Invariance, PTL

(* What others put after the listing is not lost to the purge.             *)
THEOREM LateWritesKept == Spec => []LateWritesSurvive
<1>1. IInv => LateWritesSurvive
  BY DEF IInv, LateInv, LateWritesSurvive, Visible, TypeOK
<1> QED
  BY <1>1, Invariance, PTL

\* An erased entry shows nothing older, unless its key came in two pages.
LEMMA EraseHides ==
  ASSUME IInv, pc = "erase", NEW e \in out, \A f \in out \ {e} : Sooner(e, f),
         vers' = [vers EXCEPT ![e.key] = Effect(e)],
         mode' = mode, NEW k \in Keys \ split, NEW x \in Shows(k)'
  PROVE  Shows(k) # {}
<1>1. out \subseteq Found
  BY DEF IInv, TypeOK
<1>2. e.key \in Keys /\ e.at \in Nat /\ e.page \in Nat
  BY <1>1 DEF Found
<1>3. x \in vers'[k] /\ (\A w \in vers'[k] : w.at <= x.at) /\ ~x.marker
  BY DEF Shows, Newest
<1>4. now \in Nat /\ \A v \in vers[k] : v.at \in Nat /\ v.at < now
  BY DEF IInv, TypeOK, Version
<1>5. CASE k # e.key
  BY <1>5, ShowsElsewhere
<1>6. CASE k = e.key /\ e.null
  <2>1. vers'[k] = AfterDelete(k)
    BY <1>2, <1>6 DEF Effect, IInv, TypeOK
  <2>2. CASE mode = "Disabled"
    <3>1. Kept(k) = {}
      BY <2>2 DEF Kept, NotNull, IInv, TypeOK, Legal
    <3> QED
      BY <1>3, <2>1, <2>2, <3>1 DEF AfterDelete
  <2>3. CASE mode # "Disabled"
    <3>1. vers'[k] = Kept(k) \cup {Fresh(TRUE)} /\ Kept(k) \subseteq vers[k]
      BY <2>1, <2>3 DEF AfterDelete, Kept, NotNull
    <3>2. Fresh(TRUE).at = now /\ Fresh(TRUE).marker
      BY DEF Fresh
    <3>3. x # Fresh(TRUE) /\ now <= x.at
      BY <1>3, <3>1, <3>2
    <3>4. x \in vers[k]
      <4>1. x \in Kept(k)
        BY <1>3, <3>1, <3>3, Zenon
      <4> QED
        BY <3>1, <4>1, Zenon
    <3>5. x.at \in Nat /\ x.at < now
      BY <1>4, <3>4
    <3> QED
      BY <1>4, <3>3, <3>5
  <2> QED
    BY <2>2, <2>3
<1>7. CASE k = e.key /\ ~e.null
  <2>1. \A v : v \in vers'[k] <=> v \in vers[k] /\ v.at # e.at
    BY <1>2, <1>7 DEF Effect, AfterErase, IInv, TypeOK
  <2>2. CASE \A w \in vers[k] : w.at <= x.at
    BY <1>3, <2>1, <2>2 DEF Shows, Newest
  <2>3. CASE \E w \in vers[k] : ~(w.at <= x.at)
    <3>1. PICK w \in vers[k] : ~(w.at <= x.at)
      BY <2>3
    <3>2. w.at = e.at /\ x.at < e.at /\ x \in vers[k]
      BY <1>2, <1>3, <1>4, <2>1, <3>1
    <3>3. w.marker = e.marker
      BY <1>7, <3>2 DEF IInv, EntryInv, Purging
    <3>4. \A y \in vers[k] : y.at <= w.at
      BY <1>2, <1>3, <1>4, <2>1, <3>2
    <3>5. ~w.marker
      <4> SUFFICES ASSUME w.marker PROVE FALSE
        OBVIOUS
      <4>1. \/ \E f \in out : f.key = k /\ f.at = x.at /\ f.page = e.page
            \/ \E y \in vers[k] : y.at > e.at /\ ~InOut(k, y.at)
        BY <1>7, <3>2 DEF IInv, HiddenInv, Purging
      <4>2. \A y \in vers[k] : ~(y.at > e.at)
        BY <1>2, <1>4, <3>2, <3>4
      <4>3. PICK f \in out : f.key = k /\ f.at = x.at /\ f.page = e.page
        BY <4>1, <4>2
      <4>4. f # e
        BY <1>2, <3>2, <4>3
      <4>5. ~f.marker
        BY <1>3, <3>2, <4>3 DEF IInv, EntryInv, Purging
      <4> QED
        BY <1>2, <3>3, <4>3, <4>4, <4>5 DEF Sooner
    <3> QED
      BY <3>4, <3>5 DEF Shows, Newest
  <2> QED
    BY <2>2, <2>3
<1> QED
  BY <1>5, <1>6, <1>7

(* No request of a purge shows an object that was deleted before.          *)
THEOREM NothingReappears == Spec => StaysHidden
<1>1. IInv /\ [Next]_vars => [out' # out /\ pc = "erase" => Visible' \subseteq Visible \cup split]_vars
  <2> SUFFICES ASSUME IInv, Next, out' # out, pc = "erase"
               PROVE  Visible' \subseteq Visible \cup split
    OBVIOUS
  <2>1. CASE Erase
    <3>1. PICK e \in out : /\ \A f \in out \ {e} : Sooner(e, f)
                           /\ vers' = [vers EXCEPT ![e.key] = Effect(e)]
      BY <2>1 DEF Erase
    <3>2. mode' = mode
      BY <2>1 DEF Erase
    <3>3. ASSUME NEW k \in Visible', k \notin split PROVE k \in Visible
      <4>1. PICK x \in Shows(k)' : k \in Keys
        BY DEF Visible
      <4>2. Shows(k) # {}
        BY <3>1, <3>2, <3>3, <4>1, EraseHides
      <4> QED
        BY <4>1, <4>2 DEF Visible
    <3> QED
      BY <3>3
  <2>2. CASE PurgeFails
    BY <2>2 DEF PurgeFails, bucket, Visible, Shows, Newest
  <2>3. ~(Begin \/ ListPage \/ Erased \/ ListUploadsPage \/ AbortUpload \/ Purged)
    BY DEF Begin, ListPage, Erased, ListUploadsPage, AbortUpload, Purged
  <2>4. ~(OtherPuts \/ OtherDeletes \/ OtherUploads \/ OtherCompletes)
    BY DEF OtherPuts, OtherDeletes, OtherUploads, OtherCompletes, Other
  <2> QED
    BY <2>1, <2>2, <2>3, <2>4 DEF Next, Purge
<1> QED
  BY <1>1, Invariance, PTL DEF Spec, StaysHidden
=============================================================================
