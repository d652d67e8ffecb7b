----------------------------- MODULE LocalPool -----------------------------
(***************************************************************************)
(* What `send` leaves on the pool it reads: a hold on the snapshot while   *)
(* its stream is read, and a bookmark of the snapshot archived last, from  *)
(* which the next incremental can start.  The tag of the hold and the name *)
(* of the bookmark carry a job that is one constant of the program, so     *)
(* runs share them, to one bucket or to several.  A bucket is the set of   *)
(* snapshots archived in it; the upload is SnapshotDir's.                  *)
(***************************************************************************)
EXTENDS Naturals, FiniteSets

CONSTANTS
  Snaps,      \* the snapshots of one dataset
  Dests,      \* the buckets it is sent to
  Senders,    \* processes running `send`
  MaxFaults,  \* bound: zfs or store failures, signals and crashes
  None        \* no job, no snapshot

ASSUME LocalAssumption ==
  MaxFaults \in Nat /\ None \notin Snaps /\ None \notin Snaps \X Dests

VARIABLES
  snaps,     \* snapshots on the pool
  held,      \* those that carry the hold
  marks,     \* snapshots with a zb bookmark
  archived,  \* what each bucket holds
  latest,    \* the snapshot archived last in each bucket
  pc,        \* where each sender is
  job,       \* the snapshot and the bucket of each sender
  read,      \* whether the upload succeeded
  old,       \* bookmarks each sender has listed for removal
  faults     \* faults so far

buckets == <<archived, latest>>
vars == <<snaps, held, marks, buckets, pc, job, read, old, faults>>

Pcs == {"idle", "drop", "hold", "read", "release", "commit", "bookmark", "listmarks", "prune"}

Snap(s) == job[s][1]
Dest(s) == job[s][2]

TypeOK ==
  /\ snaps \subseteq Snaps
  /\ held \subseteq snaps
  /\ marks \subseteq Snaps
  /\ archived \in [Dests -> SUBSET Snaps]
  /\ \A d \in Dests : latest[d] \in archived[d] \cup {None}
  /\ pc \in [Senders -> Pcs]
  /\ job \in [Senders -> (Snaps \X Dests) \cup {None}]
  /\ read \in [Senders -> BOOLEAN]
  /\ \A s \in Senders :
       IF pc[s] = "idle" THEN job[s] = None /\ old[s] = {}
       ELSE job[s] # None /\ old[s] \subseteq Snaps \ {Snap(s)}
  /\ faults \in 0 .. MaxFaults

Init ==
  /\ snaps = Snaps
  /\ held = {}
  /\ marks = {}
  /\ archived = [d \in Dests |-> {}]
  /\ latest = [d \in Dests |-> None]
  /\ pc = [s \in Senders |-> "idle"]
  /\ job = [s \in Senders |-> None]
  /\ read = [s \in Senders |-> FALSE]
  /\ old = [s \in Senders |-> {}]
  /\ faults = 0

At(s, l) == pc[s] = l
Goto(s, l) == pc' = [pc EXCEPT ![s] = l]
Fault == faults < MaxFaults /\ faults' = faults + 1

Exit(s) ==
  /\ Goto(s, "idle")
  /\ job' = [job EXCEPT ![s] = None]
  /\ read' = [read EXCEPT ![s] = FALSE]
  /\ old' = [old EXCEPT ![s] = {}]

----------------------------------------------------------------------------
(* Mutant: an archived snapshot is left as it is.                          *)
BeginUnlessArchived(s, x, d) ==
  /\ At(s, "idle")
  /\ x \in snaps
  /\ x \notin archived[d]
  /\ job' = [job EXCEPT ![s] = <<x, d>>]
  /\ Goto(s, "hold")
  /\ UNCHANGED <<snaps, held, marks, buckets, read, old, faults>>

(* A run of a snapshot that is archived only drops a hold left behind.     *)
Begin(s, x, d) ==
  /\ At(s, "idle")
  /\ x \in snaps
  /\ job' = [job EXCEPT ![s] = <<x, d>>]
  /\ Goto(s, IF x \in archived[d] THEN "drop" ELSE "hold")
  /\ UNCHANGED <<snaps, held, marks, buckets, read, old, faults>>

(* A hold that is not there counts as released; a failure is a warning.    *)
TryRelease(s) ==
  \/ held' = held \ {Snap(s)} /\ UNCHANGED faults
  \/ Fault /\ UNCHANGED held

DropHold(s) ==
  /\ At(s, "drop")
  /\ TryRelease(s)
  /\ Exit(s)
  /\ UNCHANGED <<snaps, marks, buckets>>

(* Mutant: failing to hold is a warning.                                   *)
HoldIfPossible(s) ==
  /\ At(s, "hold")
  /\ Snap(s) \in snaps
  /\ \/ held' = held \cup {Snap(s)} /\ UNCHANGED faults
     \/ Fault /\ UNCHANGED held
  /\ Goto(s, "read")
  /\ UNCHANGED <<snaps, marks, buckets, job, read, old>>

Hold(s) ==
  /\ At(s, "hold")
  /\ Snap(s) \in snaps
  /\ held' = held \cup {Snap(s)}
  /\ Goto(s, "read")
  /\ UNCHANGED <<snaps, marks, buckets, job, read, old, faults>>

(* The snapshot has been destroyed since the run looked it up.             *)
HoldFails(s) ==
  /\ At(s, "hold")
  /\ Snap(s) \notin snaps
  /\ Exit(s)
  /\ UNCHANGED <<snaps, held, marks, buckets, faults>>

ReadStream(s) ==
  /\ At(s, "read")
  /\ read' = [read EXCEPT ![s] = TRUE]
  /\ Goto(s, "release")
  /\ UNCHANGED <<snaps, held, marks, buckets, job, old, faults>>

(* The upload fails or is interrupted, or the lease is another run's.      *)
ReadFails(s) ==
  /\ At(s, "read")
  /\ \/ Fault
     \/ /\ \E q \in Senders \ {s} : job[q] = job[s] /\ pc[q] \in {"read", "release"}
        /\ UNCHANGED faults
  /\ Goto(s, "release")
  /\ UNCHANGED <<snaps, held, marks, buckets, job, read, old>>

Release(s) ==
  /\ At(s, "release")
  /\ TryRelease(s)
  /\ IF read[s] THEN Goto(s, "commit") /\ UNCHANGED <<job, read, old>> ELSE Exit(s)
  /\ UNCHANGED <<snaps, marks, buckets>>

(* The manifest is put and the resume marker removed.                      *)
Commit(s) ==
  /\ At(s, "commit")
  /\ archived' = [archived EXCEPT ![Dest(s)] = @ \cup {Snap(s)}]
  /\ latest' = [latest EXCEPT ![Dest(s)] = Snap(s)]
  /\ Goto(s, "bookmark")
  /\ UNCHANGED <<snaps, held, marks, job, read, old, faults>>

(* Mutant: the older bookmarks are pruned whether or not there is a new one*)
BookmarkOrNot(s) ==
  /\ At(s, "bookmark")
  /\ marks' = IF Snap(s) \in snaps THEN marks \cup {Snap(s)} ELSE marks
  /\ Goto(s, "listmarks")
  /\ UNCHANGED <<snaps, held, buckets, job, read, old, faults>>

(* An existing bookmark is success.                                        *)
Bookmark(s) ==
  /\ At(s, "bookmark")
  /\ Snap(s) \in snaps \cup marks
  /\ marks' = marks \cup {Snap(s)}
  /\ Goto(s, "listmarks")
  /\ UNCHANGED <<snaps, held, buckets, job, read, old, faults>>

(* The bookmark cannot be made, or is not listed: the older ones stay.     *)
NoBookmark(s) ==
  /\ pc[s] \in {"bookmark", "listmarks"}
  /\ \/ Fault
     \/ At(s, "bookmark") /\ Snap(s) \notin snaps \cup marks /\ UNCHANGED faults
  /\ Exit(s)
  /\ UNCHANGED <<snaps, held, marks, buckets>>

(* Mutant: the new bookmark is listed with the others.                     *)
ListAllMarks(s) ==
  /\ At(s, "listmarks")
  /\ old' = [old EXCEPT ![s] = marks]
  /\ Goto(s, "prune")
  /\ UNCHANGED <<snaps, held, marks, buckets, job, read, faults>>

ListMarks(s) ==
  /\ At(s, "listmarks")
  /\ old' = [old EXCEPT ![s] = marks \ {Snap(s)}]
  /\ Goto(s, "prune")
  /\ UNCHANGED <<snaps, held, marks, buckets, job, read, faults>>

(* One bookmark at a time; one that cannot be removed is a warning.        *)
Prune(s) ==
  /\ At(s, "prune")
  /\ \E b \in old[s] :
       /\ \/ marks' = marks \ {b} /\ UNCHANGED faults
          \/ Fault /\ UNCHANGED marks
       /\ old' = [old EXCEPT ![s] = @ \ {b}]
  /\ UNCHANGED <<snaps, held, buckets, pc, job, read>>

Done(s) ==
  /\ At(s, "prune")
  /\ old[s] = {}
  /\ Exit(s)
  /\ UNCHANGED <<snaps, held, marks, buckets, faults>>

(* A command fails where that ends the run, or the process is killed: a    *)
(* hold it placed stays.                                                   *)
Stop(s) ==
  /\ ~At(s, "idle")
  /\ Fault
  /\ Exit(s)
  /\ UNCHANGED <<snaps, held, marks, buckets>>

----------------------------------------------------------------------------
(* The owner destroys snapshots; zfs refuses while one is held.            *)
Destroy(x) ==
  /\ x \in snaps \ held
  /\ snaps' = snaps \ {x}
  /\ UNCHANGED <<held, marks, buckets, pc, job, read, old, faults>>

(* Retention, which never expires the backup archived last.                *)
Expire(d, x) ==
  /\ x \in archived[d] \ {latest[d]}
  /\ archived' = [archived EXCEPT ![d] = @ \ {x}]
  /\ UNCHANGED <<snaps, held, marks, latest, pc, job, read, old, faults>>

RunStep(s) ==
  \/ DropHold(s) \/ Hold(s) \/ HoldFails(s) \/ ReadStream(s) \/ Release(s)
  \/ Commit(s) \/ Bookmark(s) \/ ListMarks(s) \/ Prune(s) \/ Done(s)

SendNext(s) ==
  \/ \E x \in Snaps, d \in Dests : Begin(s, x, d)
  \/ RunStep(s)
  \/ ReadFails(s) \/ NoBookmark(s) \/ Stop(s)

Next ==
  \/ \E s \in Senders : SendNext(s)
  \/ \E x \in Snaps : Destroy(x)
  \/ \E d \in Dests, x \in Snaps : Expire(d, x)

Spec == Init /\ [][Next]_vars

----------------------------------------------------------------------------
(* Assumptions on the schedule: runs of one dataset may overlap, to several*)
(* buckets too, but not where they share a tag or a name.                  *)

(* No two runs are between the hold and the release of one snapshot.       *)
HoldsApart ==
  \A s, q \in Senders :
    s # q /\ {pc[s], pc[q]} \subseteq {"drop", "hold", "read", "release"} => Snap(s) # Snap(q)

(* No two runs are between their commit and the end of their pruning.      *)
PrunesApart ==
  \A s, q \in Senders : s # q => ~ {pc[s], pc[q]} \subseteq {"bookmark", "listmarks", "prune"}

ApartSpec == Init /\ [][Next /\ HoldsApart' /\ PrunesApart']_vars

(* Every run goes on, and the owner sends a snapshot again as long as it is*)
(* on the pool: that is how an interrupted send is finished.               *)
FairSpec ==
  /\ ApartSpec
  /\ \A s \in Senders :
       /\ WF_vars(RunStep(s) \/ NoBookmark(s))
       /\ \A x \in Snaps, d \in Dests : SF_vars(Begin(s, x, d))

----------------------------------------------------------------------------
(* Properties.                                                             *)

(* The snapshot is held while it is being read: nobody can destroy it      *)
(* under `zfs send`.                                                       *)
HeldWhileRead == \A s \in Senders : At(s, "read") => Snap(s) \in held

(* A bookmark of a snapshot archived in d: a base for the next incremental *)
(* even when every snapshot has been destroyed.                            *)
Marked(d) == marks \cap archived[d] # {}

(* Pruning old bookmarks never takes the last base of a destination: what a*)
(* failed bookmark, a crash in the middle of the pruning or another        *)
(* destination's send leaves is a usable base.                             *)
PruneKeepsABase ==
  [][\A s \in Senders, d \in Dests : Prune(s) /\ Marked(d) => Marked(d)']_vars

(* No hold is stranded: what a killed run or a failed release leaves is    *)
(* released in the end, and the owner can destroy the snapshot.            *)
HoldsReleased == \A x \in Snaps : x \in held ~> x \notin held
=============================================================================
