------------------------------- MODULE Chain -------------------------------
(***************************************************************************)
(* The manifests of a bucket and the chains they form: a full backup and   *)
(* the incrementals sent from it.  `send` picks a base and appends to a    *)
(* chain, `retention` expires backups by age and count, pins exempt them.  *)
(* A manifest is one object here; the chunks and the markers beside it are *)
(* SnapshotDir's, holds and the steps that keep bookmarks are LocalPool's. *)
(***************************************************************************)
EXTENDS Integers, FiniteSets

CONSTANTS
  Snaps,      \* snapshots, numbered in the order of their createtxg
  DatasetOf,  \* the dataset (its guid) each snapshot is of
  NamesOf,    \* the names each dataset has had: one, unless it is renamed
  Senders,    \* processes running `send`
  Expirers,   \* processes running `retention`
  Policies,   \* [older_than, keep_last]: the flags given to `retention`
  Scopes,     \* what is given to `--dataset`: a name, or None
  MaxTime,    \* bound: the most backups archived
  None        \* no manifest, no base, no flag, no process

Datasets == {DatasetOf[x] : x \in Snaps}
Names == UNION {NamesOf[d] : d \in Datasets}
Manifests == [from : Snaps \cup {None}, created_at : 1 .. MaxTime, dataset : Names]
Listing == [Snaps -> Manifests \cup {None}]

ASSUME ChainAssumption ==
  /\ Snaps \subseteq Nat /\ IsFiniteSet(Snaps) /\ None \notin Snaps
  /\ DatasetOf \in [Snaps -> Nat]
  /\ NamesOf \in [Datasets -> SUBSET Names]
  /\ MaxTime \in Nat
  /\ None \notin Manifests /\ None \notin Names
  /\ Scopes \subseteq Names \cup {None}
  /\ Policies \subseteq [older_than : BOOLEAN, keep_last : Nat \cup {None}]

VARIABLES
  listed,  \* the manifest of each archived snapshot
  pins,    \* pinned snapshots
  snaps,   \* snapshots still on the pool
  marks,   \* snapshots with a zb bookmark on the pool
  clock,   \* backups archived so far: the time of created_at
  send,    \* what each sender is sending, from which base, picked by whom
  seen,    \* the manifests each retention run has read
  doomed   \* backups each retention run still has to delete

local == <<snaps, marks>>
vars == <<listed, pins, local, clock, send, seen, doomed>>

Listed == {x \in Snaps : listed[x] # None}
In(all) == {x \in Snaps : all[x] # None}

Sends == [snap : Snaps, from : Snaps \cup {None}, dataset : Names, auto : BOOLEAN]

TypeOK ==
  /\ listed \in Listing
  /\ pins \subseteq Snaps
  /\ snaps \subseteq Snaps
  /\ marks \subseteq Snaps
  /\ clock \in 0 .. MaxTime
  /\ send \in [Senders -> Sends \cup {None}]
  /\ seen \in [Expirers -> Listing \cup {None}]
  /\ doomed \in [Expirers -> SUBSET Snaps]

Init ==
  /\ listed = [x \in Snaps |-> None]
  /\ pins = {}
  /\ snaps = Snaps
  /\ marks = {}
  /\ clock = 0
  /\ send = [s \in Senders |-> None]
  /\ seen = [e \in Expirers |-> None]
  /\ doomed = [e \in Expirers |-> {}]

----------------------------------------------------------------------------
(* `send`: the base is picked once, the manifest written after the upload. *)

(* Archived snapshots of x's dataset a stream to x could start from.       *)
Candidates(x) ==
  {b \in Listed : DatasetOf[b] = DatasetOf[x] /\ b \in snaps \cup marks /\ b < x}

(* Mutant: the newest on the pool instead of the newest archived.          *)
AutoBaseByTxg(x) ==
  IF Candidates(x) = {} THEN None
  ELSE CHOOSE b \in Candidates(x) : \A c \in Candidates(x) : c <= b

AutoBase(x) ==
  IF Candidates(x) = {} THEN None
  ELSE CHOOSE b \in Candidates(x) :
         \A c \in Candidates(x) : listed[c].created_at <= listed[b].created_at

Begin(s, x, base, auto) ==
  /\ send[s] = None
  /\ x \in snaps
  /\ x \notin Listed
  /\ \E name \in NamesOf[DatasetOf[x]] :
       send' = [send EXCEPT ![s] =
                  [snap |-> x, from |-> base, dataset |-> name, auto |-> auto]]
  /\ UNCHANGED <<listed, pins, local, clock, seen, doomed>>

SendAuto(s) == \E x \in Snaps : Begin(s, x, AutoBase(x), TRUE)

(* --full, --from: zfs itself refuses a base that is not an ancestor.      *)
SendManual(s) ==
  \E x \in Snaps : \E base \in Candidates(x) \cup {None} : Begin(s, x, base, FALSE)

(* Mutant: dated when the run began.                                       *)
CommitBackdated(s) ==
  /\ send[s] # None
  /\ clock < MaxTime
  /\ LET x == send[s].snap
         others == {b \in marks : DatasetOf[b] # DatasetOf[x]}
     IN  /\ listed' = [listed EXCEPT ![x] =
                         [from |-> send[s].from, created_at |-> clock,
                          dataset |-> send[s].dataset]]
         /\ marks' \in {marks, others \cup {x}}
  /\ clock' = clock + 1
  /\ send' = [send EXCEPT ![s] = None]
  /\ UNCHANGED <<pins, snaps, seen, doomed>>

(* The manifest is put, the snapshot bookmarked and the older bookmarks of *)
(* the dataset removed; the bookmark may fail, and then they stay.         *)
Commit(s) ==
  /\ send[s] # None
  /\ clock < MaxTime
  /\ LET x == send[s].snap
         others == {b \in marks : DatasetOf[b] # DatasetOf[x]}
     IN  /\ listed' = [listed EXCEPT ![x] =
                         [from |-> send[s].from, created_at |-> clock + 1,
                          dataset |-> send[s].dataset]]
         /\ marks' \in {marks, others \cup {x}}
  /\ clock' = clock + 1
  /\ send' = [send EXCEPT ![s] = None]
  /\ UNCHANGED <<pins, snaps, seen, doomed>>

SendStop(s) ==
  /\ send[s] # None
  /\ send' = [send EXCEPT ![s] = None]
  /\ UNCHANGED <<listed, pins, local, clock, seen, doomed>>

----------------------------------------------------------------------------
(* `retention`: the manifests are read, then the pins; what the policy does*)
(* not keep is deleted, in the order of the manifests: oldest first.       *)

InScope(scope, m) == scope = None \/ m.dataset = scope

Retaining(e) == seen[e] # None \/ doomed[e] # {}

ExpireRead(e) ==
  /\ ~Retaining(e)
  /\ \E scope \in Scopes :
       LET all == [x \in Snaps |->
                     IF x \in Listed /\ InScope(scope, listed[x]) THEN listed[x] ELSE None]
       IN  In(all) # {} /\ seen' = [seen EXCEPT ![e] = all]
  /\ UNCHANGED <<listed, pins, local, clock, send, doomed>>

(* Mutant: ranked by createtxg.                                            *)
NewestByTxg(all, n) ==
  {x \in In(all) :
     Cardinality({y \in In(all) : DatasetOf[y] = DatasetOf[x] /\ y > x}) < n}

(* The newest n backups of each dataset.                                   *)
Newest(all, n) ==
  {x \in In(all) :
     Cardinality({y \in In(all) : /\ DatasetOf[y] = DatasetOf[x]
                                  /\ all[y].created_at > all[x].created_at}) < n}

(* Mutant: pins are left to the age policy.                                *)
SeedsUnpinned(all, pinned, cutoff, n) ==
  Newest(all, n) \cup {x \in In(all) : all[x].created_at > cutoff}

Seeds(all, pinned, cutoff, n) ==
  Newest(all, n) \cup {x \in In(all) : all[x].created_at > cutoff \/ x \in pinned}

(* Mutant: only the bases of the seeds are kept with them.                 *)
KeepSetOneBack(all, pinned, cutoff, n) ==
  LET seeds == Seeds(all, pinned, cutoff, n)
  IN  seeds \cup {b \in In(all) : \E x \in seeds : all[x].from = b}

(* The worklist: the least set that has the seeds and, of each of its      *)
(* members, the base.                                                      *)
KeepSet(all, pinned, cutoff, n) ==
  LET Closed(keep) ==
        \A x \in keep : all[x].from \in In(all) => all[x].from \in keep
  IN  {x \in In(all) :
         \A keep \in SUBSET In(all) :
           Seeds(all, pinned, cutoff, n) \subseteq keep /\ Closed(keep) => x \in keep}

KeepLast(policy) == IF policy.keep_last = None THEN 1 ELSE policy.keep_last

(* Mutant: keep_last 0 is a policy.                                        *)
AcceptedAny(policy) == policy.older_than \/ policy.keep_last # None

(* No policy, or one that keeps nothing, is refused.                       *)
Accepted(policy) == policy.older_than \/ (policy.keep_last # None /\ KeepLast(policy) > 0)

(* An age may reach back to any time; none keeps nothing for its age.      *)
Cutoffs(policy) == IF policy.older_than THEN 0 .. clock ELSE {clock}

ExpirePlan(e) ==
  /\ seen[e] # None
  /\ \E policy \in Policies : \E cutoff \in Cutoffs(policy) :
       /\ Accepted(policy)
       /\ doomed' = [doomed EXCEPT ![e] =
                       In(seen[e]) \ KeepSet(seen[e], pins, cutoff, KeepLast(policy))]
  /\ seen' = [seen EXCEPT ![e] = None]
  /\ UNCHANGED <<listed, pins, local, clock, send>>

Before(x, y) ==
  DatasetOf[x] < DatasetOf[y] \/ (DatasetOf[x] = DatasetOf[y] /\ x <= y)

ExpireDelete(e) ==
  /\ \E x \in doomed[e] :
       /\ \A y \in doomed[e] : Before(x, y)
       /\ listed' = [listed EXCEPT ![x] = None]
       /\ doomed' = [doomed EXCEPT ![e] = @ \ {x}]
  /\ UNCHANGED <<pins, local, clock, send, seen>>

(* A request fails, or the process is killed.                              *)
ExpireStop(e) ==
  /\ Retaining(e)
  /\ seen' = [seen EXCEPT ![e] = None]
  /\ doomed' = [doomed EXCEPT ![e] = {}]
  /\ UNCHANGED <<listed, pins, local, clock, send>>

----------------------------------------------------------------------------
(* `pin` and `unpin` name an archived snapshot.                            *)
Pin(x) ==
  /\ x \in Listed
  /\ pins' = pins \cup {x}
  /\ UNCHANGED <<listed, local, clock, send, seen, doomed>>

Unpin(x) ==
  /\ x \in Listed
  /\ pins' = pins \ {x}
  /\ UNCHANGED <<listed, local, clock, send, seen, doomed>>

(* The host's owner destroys snapshots; not one a send holds.              *)
DestroySnapshot(x) ==
  /\ x \in snaps
  /\ \A s \in Senders : send[s] # None => send[s].snap # x
  /\ snaps' = snaps \ {x}
  /\ UNCHANGED <<listed, pins, marks, clock, send, seen, doomed>>

SendNext(s) == SendAuto(s) \/ SendManual(s) \/ Commit(s) \/ SendStop(s)
ExpireNext(e) == ExpireRead(e) \/ ExpirePlan(e) \/ ExpireDelete(e) \/ ExpireStop(e)
OwnerNext(x) == Pin(x) \/ Unpin(x) \/ DestroySnapshot(x)

Next ==
  \/ \E s \in Senders : SendNext(s)
  \/ \E e \in Expirers : ExpireNext(e)
  \/ \E x \in Snaps : OwnerNext(x)

Spec == Init /\ [][Next]_vars

----------------------------------------------------------------------------
(* Assumptions on the schedule, conditions on a step: any number of hosts   *)
(* share a bucket, each with datasets of its own, and run `retention` when *)
(* they like.  All but the first are conditions on the start of a send.    *)

Expiring == UNION {doomed[e] : e \in Expirers}
Retained ==
  Expiring \cup UNION {IF seen[e] = None THEN {} ELSE In(seen[e]) : e \in Expirers}

(* No backup is pinned that a retention run has condemned already.         *)
PinsAside == (pins' \ pins) \cap Expiring = {}

(* The sends of one dataset do not overlap.                                *)
SendsApart ==
  \A s, t \in Senders : s # t /\ send[s] # None /\ send[t] # None =>
    DatasetOf[send[s].snap] # DatasetOf[send[t].snap]

(* What a retention run has read, and another deleted since, is not sent   *)
(* again before the first one ends.                                        *)
SendsFresh == \A s \in Senders : send[s] # None => send[s].snap \notin Retained

(* The one backup of the dataset that was archived last.                   *)
Latest(d) ==
  {x \in Listed : /\ DatasetOf[x] = d
                  /\ \A y \in Listed : DatasetOf[y] = d =>
                                         listed[y].created_at <= listed[x].created_at}

(* A send that a retention run of its dataset overlaps has no base, or left*)
(* the choice to the code where the latest backup is on the pool and older.*)
SendsAppend ==
  \A s \in Senders : send[s] # None =>
    LET x == send[s].snap
    IN  (\E y \in Retained : DatasetOf[y] = DatasetOf[x]) =>
          \/ send[s].from = None
          \/ send[s].auto /\ Latest(DatasetOf[x]) \subseteq Candidates(x)

Orderly == PinsAside /\ SendsApart' /\ SendsFresh' /\ SendsAppend'

OrderlySpec == Init /\ [][Next /\ Orderly]_vars

----------------------------------------------------------------------------
(* Properties.                                                             *)

(* The backups a restore of x applies are all listed, back to a full one.  *)
Restorable(x) ==
  \E chain \in SUBSET Listed :
    x \in chain /\ \A y \in chain : listed[y].from # None => listed[y].from \in chain

(* Retention never breaks a chain: a backup its policy has not condemned   *)
(* can be restored after every step of every run, as it could before.      *)
KeptStayRestorable ==
  [][\A x \in Listed : Restorable(x) /\ x \notin Expiring => Restorable(x)']_vars

(* A pin protects a snapshot and its whole ancestry.                       *)
PinsStayRestorable ==
  [][\A x \in pins \cap pins' : Restorable(x) => Restorable(x)']_vars

(* A send in progress does not lose the chain it builds on, so what it     *)
(* commits can be restored.                                                *)
BasesStayRestorable ==
  [][\A s \in Senders : \A base \in Listed :
       send[s] # None /\ send[s].from = base /\ Restorable(base) => Restorable(base)']_vars

(* Under a policy that counts, the backup archived last is never expired,  *)
(* whatever order the snapshots were sent in.                              *)
LatestStays ==
  [][\A d \in Datasets : \A x \in Latest(d) : x \in Listed']_vars
=============================================================================
