------------------------------- MODULE Bucket -------------------------------
(***************************************************************************)
(* `purge_prefix` on a bucket that keeps versions: what a send does to the *)
(* directory of a snapshot before it starts clean.  Versions are listed in *)
(* pages and erased one request each, then incomplete uploads are listed   *)
(* and aborted; others write, delete and upload meanwhile, and any request *)
(* may fail.                                                               *)
(***************************************************************************)
EXTENDS Integers, FiniteSets

CONSTANTS
  NumKeys,    \* keys under the prefix, in the order S3 lists them
  PageSize,   \* entries in a page of a listing: 1000
  MaxDepth,   \* bound: versions of a key at the start
  Depth,      \* the same for each key
  MaxOthers,  \* bound: requests of other clients
  MaxPurges   \* bound: purges

Keys == 1 .. NumKeys

ASSUME BucketAssumption ==
  /\ NumKeys \in Nat /\ PageSize \in Nat \ {0}
  /\ MaxDepth \in Nat /\ Depth \in [Keys -> 0 .. MaxDepth]
  /\ MaxOthers \in Nat /\ MaxPurges \in Nat

VARIABLES
  mode,     \* versioning of the bucket
  vers,     \* the versions and delete markers of each key
  up,       \* incomplete multipart uploads
  now,      \* the next instant; one for each write
  others,   \* requests of others so far
  purges,   \* purges so far
  pc,       \* where the purge is
  mark,     \* the listing goes on after this entry
  out,      \* what is listed and not erased yet
  page,     \* pages read
  since,    \* when the purge began
  split,    \* keys whose entries came in two pages
  nulls,    \* keys listed with a null version
  late      \* keys put since the last page, and not deleted by others

bucket == <<mode, vers, up, now>>
history == <<since, split, nulls>>
vars == <<mode, vers, up, now, others, purges, pc, mark, out, page, since, split,
          nulls, late>>

Modes == {"Disabled", "Enabled", "Suspended"}
\* `at` orders the versions of a key, and is the id of one that is not null.
Version(stamps) == [at : stamps, null : BOOLEAN, marker : BOOLEAN]

Found == [page : Nat, key : Keys, at : Nat, null : BOOLEAN, marker : BOOLEAN]
Uploads == [key : Keys, at : Nat]

\* A key has one null version at most; without versioning it has no other.
Legal(m, S) ==
  /\ \A v, w \in S : v.null /\ w.null => v = w
  /\ m = "Disabled" => \A v \in S : v.null /\ ~v.marker

TypeOK ==
  /\ mode \in Modes
  /\ vers \in [Keys -> SUBSET Version(1 .. now - 1)]
  /\ \A k \in Keys : Legal(mode, vers[k])
  /\ up \subseteq Uploads
  /\ now \in Nat \ {0} /\ others \in 0 .. MaxOthers /\ purges \in 0 .. MaxPurges
  /\ pc \in {"idle", "list", "erase", "uploads", "abort", "done", "failed"}
  /\ mark \in [key : Nat, at : Nat] /\ page \in Nat /\ since \in Nat
  /\ out \subseteq (IF pc \in {"uploads", "abort"} THEN Uploads ELSE Found)
  /\ split \subseteq Keys /\ nulls \subseteq Keys /\ late \subseteq Keys

Oldest == [key |-> 0, at |-> 0]

Histories(m, n) ==
  {S \in SUBSET Version(1 .. n) :
     /\ Legal(m, S) /\ \A v, w \in S : v.at = w.at => v = w
     /\ {v.at : v \in S} = 1 .. Cardinality(S)}

Init ==
  /\ mode \in Modes
  /\ vers \in {h \in [Keys -> UNION {Histories(mode, Depth[k]) : k \in Keys}] :
                 \A k \in Keys : h[k] \in Histories(mode, Depth[k])}
  /\ now = MaxDepth + 2
  /\ up \in SUBSET [key : Keys, at : {now - 1}]
  /\ others = 0 /\ purges = 0
  /\ pc = "idle" /\ mark = Oldest /\ out = {} /\ page = 0
  /\ since = 0 /\ split = {} /\ nulls = {} /\ late = {}

(***************************************************************************)
(* The bucket.                                                             *)
(***************************************************************************)
Newest(S) == {v \in S : \A w \in S : w.at <= v.at}
Shows(k) == {v \in Newest(vers[k]) : ~v.marker}
Visible == {k \in Keys : Shows(k) # {}}

Fresh(marker) == [at |-> now, null |-> mode # "Enabled", marker |-> marker]
NotNull(S) == {v \in S : ~v.null}
Kept(k) == IF mode = "Enabled" THEN vers[k] ELSE NotNull(vers[k])

AfterPut(k) == Kept(k) \cup {Fresh(FALSE)}
\* A DELETE that names no version.
AfterDelete(k) == Kept(k) \cup (IF mode = "Disabled" THEN {} ELSE {Fresh(TRUE)})
AfterErase(k, at) == {v \in vers[k] : v.at # at}

(***************************************************************************)
(* The purge.                                                              *)
(***************************************************************************)
\* The send has listed objects there, and they are not those of its stream.
Begin ==
  /\ pc \in {"idle", "done", "failed"} /\ purges < MaxPurges
  /\ Visible # {}
  /\ purges' = purges + 1
  /\ pc' = "list" /\ mark' = Oldest /\ out' = {} /\ page' = 0
  /\ since' = now /\ split' = {} /\ nulls' = {} /\ late' = {}
  /\ UNCHANGED <<bucket, others>>

Entries == {[key |-> k, v |-> v] : k \in Keys, v \in UNION {vers[k] : k \in Keys}}
Listable == {e \in Entries : e.v \in vers[e.key]}
\* Keys in order, the newest version of a key first.
Precedes(k1, at1, k2, at2) == k1 < k2 \/ (k1 = k2 /\ at1 > at2)
Rest == {e \in Listable : Precedes(mark.key, mark.at, e.key, e.v.at)}

IsPage(P, R) ==
  /\ P \subseteq R
  /\ Cardinality(P) = (IF Cardinality(R) < PageSize THEN Cardinality(R) ELSE PageSize)
  /\ \A e \in P, f \in R \ P : Precedes(e.key, e.v.at, f.key, f.v.at)

Listed(P) == {[page |-> page, key |-> e.key, at |-> e.v.at, null |-> e.v.null,
               marker |-> e.v.marker] : e \in P}

(* Mutant: what is truncated is not asked for again.                       *)
ListPageOnce ==
  /\ pc = "list"
  /\ \E P \in SUBSET Rest :
       /\ IsPage(P, Rest)
       /\ out' = out \cup Listed(P)
       /\ nulls' = nulls \cup {e.key : e \in {f \in P : f.v.null}}
       /\ pc' = "erase" /\ UNCHANGED <<mark, split>>
  /\ page' = page + 1
  /\ UNCHANGED <<bucket, others, purges, since, late>>

ListPage ==
  /\ pc = "list"
  /\ \E P \in SUBSET Rest :
       /\ IsPage(P, Rest)
       /\ out' = out \cup Listed(P)
       /\ nulls' = nulls \cup {e.key : e \in {f \in P : f.v.null}}
       /\ split' = split \cup {k \in Keys : /\ \E e \in P : e.key = k
                                            /\ \E e \in Rest \ P : e.key = k}
       /\ IF P = Rest THEN pc' = "erase" /\ UNCHANGED mark
          ELSE /\ UNCHANGED pc
               /\ \E e \in P : /\ \A f \in P \ {e} : Precedes(f.key, f.v.at, e.key, e.v.at)
                               /\ mark' = [key |-> e.key, at |-> e.v.at]
  /\ page' = page + 1
  /\ UNCHANGED <<bucket, others, purges, since, late>>

(* Mutant: the delete markers of a page come before its versions.          *)
MarkersFirst(e, f) ==
  \/ e.page < f.page
  \/ e.page = f.page /\ e.marker /\ ~f.marker
  \/ e.page = f.page /\ e.marker = f.marker /\ Precedes(e.key, e.at, f.key, f.at)

\* In a page, <Version> blocks before <DeleteMarker> blocks.
Sooner(e, f) ==
  \/ e.page < f.page
  \/ e.page = f.page /\ ~e.marker /\ f.marker
  \/ e.page = f.page /\ e.marker = f.marker /\ Precedes(e.key, e.at, f.key, f.at)

(* Mutant: the id is not named, whatever it is.                            *)
EffectOfPlainDelete(e) == AfterDelete(e.key)

\* delete_version: for the id "null" none is named.
Effect(e) == IF e.null THEN AfterDelete(e.key) ELSE AfterErase(e.key, e.at)

Erase ==
  /\ pc = "erase"
  /\ \E e \in out :
       /\ \A f \in out \ {e} : Sooner(e, f)
       /\ vers' = [vers EXCEPT ![e.key] = Effect(e)]
       /\ out' = out \ {e}
  /\ now' = now + 1
  /\ UNCHANGED <<mode, up, others, purges, pc, mark, page, history, late>>

(* Mutant: the uploads are listed although versions are left to erase.     *)
ErasedInPart ==
  /\ pc = "erase"
  /\ pc' = "uploads" /\ mark' = Oldest
  /\ UNCHANGED <<bucket, others, purges, out, page, history, late>>

Erased ==
  /\ pc = "erase" /\ out = {}
  /\ pc' = "uploads" /\ mark' = Oldest
  /\ UNCHANGED <<bucket, others, purges, out, page, history, late>>

UploadsRest == {u \in up : Precedes(mark.key, u.at, u.key, mark.at)}
IsUploadPage(P) ==
  /\ P \subseteq UploadsRest
  /\ Cardinality(P) = (IF Cardinality(UploadsRest) < PageSize
                         THEN Cardinality(UploadsRest) ELSE PageSize)
  /\ \A u \in P, w \in UploadsRest \ P : Precedes(u.key, w.at, w.key, u.at)

ListUploadsPage ==
  /\ pc = "uploads"
  /\ \E P \in SUBSET UploadsRest :
       /\ IsUploadPage(P)
       /\ out' = out \cup P
       /\ IF P = UploadsRest THEN pc' = "abort" /\ UNCHANGED mark
          ELSE /\ UNCHANGED pc
               /\ \E u \in P : /\ \A w \in P \ {u} : Precedes(w.key, u.at, u.key, w.at)
                               /\ mark' = u
  /\ UNCHANGED <<bucket, others, purges, page, history, late>>

\* One that is gone meanwhile is no error.
AbortUpload ==
  /\ pc = "abort"
  /\ \E u \in out : up' = up \ {u} /\ out' = out \ {u}
  /\ UNCHANGED <<mode, vers, now, others, purges, pc, mark, page, history, late>>

Purged ==
  /\ pc = "abort" /\ out = {}
  /\ pc' = "done"
  /\ UNCHANGED <<bucket, others, purges, mark, out, page, history, late>>

\* An error ends the purge, and the send.
PurgeFails ==
  /\ pc \in {"list", "erase", "uploads", "abort"}
  /\ pc' = "failed" /\ out' = {} /\ late' = {}
  /\ UNCHANGED <<bucket, others, purges, mark, page, history>>

Purge == Begin \/ ListPage \/ Erase \/ Erased \/ ListUploadsPage \/ AbortUpload
         \/ Purged \/ PurgeFails

(***************************************************************************)
(* Other clients: a send puts, retention and clean delete, and whoever     *)
(* else has the bucket uploads in parts.                                   *)
(***************************************************************************)
Other ==
  /\ others < MaxOthers /\ others' = others + 1
  /\ now' = now + 1
  /\ UNCHANGED <<mode, purges, pc, mark, out, page, history>>

Put(k) ==
  /\ vers' = [vers EXCEPT ![k] = AfterPut(k)]
  /\ late' = IF pc \in {"erase", "uploads", "abort"} THEN late \cup {k} ELSE late

OtherPuts == Other /\ \E k \in Keys : Put(k) /\ UNCHANGED up

OtherDeletes ==
  /\ Other
  /\ \E k \in Keys :
       vers' = [vers EXCEPT ![k] = AfterDelete(k)] /\ late' = late \ {k}
  /\ UNCHANGED up

OtherUploads ==
  /\ Other
  /\ \E k \in Keys : up' = up \cup {[key |-> k, at |-> now]}
  /\ UNCHANGED <<vers, late>>

OtherCompletes ==
  /\ Other
  /\ \E u \in up : up' = up \ {u} /\ Put(u.key)

Next == Purge \/ OtherPuts \/ OtherDeletes \/ OtherUploads \/ OtherCompletes

Spec == Init /\ [][Next]_vars

(***************************************************************************)
(* Properties.                                                             *)
(***************************************************************************)
\* After a purge nothing is left that was there when it began, versions,
\* markers and uploads, and no older body shows, however the listing was cut
\* into pages and whatever others did; but with versioning on, a null version
\* stays below a delete marker (admin.rs:644).
PurgedIsGone ==
  pc = "done" =>
    /\ \A k \in Keys : \A v \in vers[k] : v.at >= since \/ (mode = "Enabled" /\ v.null)
    /\ \A k \in Keys : \A v \in Shows(k) : v.at >= since
    /\ \A u \in up : u.at >= since

\* A request of the purge shows no object that was deleted before, also if it
\* is the last one before a failure: a resume would take it for its own
\* (send.rs:404).  Not so for a key listed in two pages (admin.rs:625).
StaysHidden ==
  [][out' # out /\ pc = "erase" => Visible' \subseteq Visible \cup split]_vars

\* With versioning on, what another client puts after the listing is not lost
\* to the purge, unless the key has a null version (mod.rs:292).
LateWritesSurvive ==
  mode = "Enabled" /\ pc # "failed" => late \ nulls \subseteq Visible
=============================================================================
