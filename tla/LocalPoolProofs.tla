-------------------------- MODULE LocalPoolProofs --------------------------
(***************************************************************************)
(* Theorems about LocalPool, for any number of runs and buckets.  The types*)
(* hold on every schedule; what the hold and the bookmarks promise is      *)
(* proved for runs that overlap, except where they share a hold or prune   *)
(* the same bookmarks (HoldsApart and PrunesApart).                        *)
(***************************************************************************)
EXTENDS LocalPool, TLAPS

OneSender == \A s, q \in Senders : s = q
OneDest == \A d, e \in Dests : d = e

TypeInv ==
  /\ TypeOK
  /\ latest \in [Dests -> Snaps \cup {None}]
  /\ old \in [Senders -> SUBSET Snaps]

(* Past its commit a run's snapshot is what its bucket holds last; past its*)
(* bookmark it is marked.                                                  *)
BaseInv ==
  \A s \in Senders :
    /\ pc[s] \in {"bookmark", "listmarks", "prune"} =>
         latest[Dest(s)] = Snap(s) /\ Snap(s) \in archived[Dest(s)]
    /\ pc[s] \in {"listmarks", "prune"} => Snap(s) \in marks

IInv == TypeInv /\ HoldsApart /\ PrunesApart /\ HeldWhileRead /\ BaseInv

----------------------------------------------------------------------------
(* Types.                                                                  *)

LEMMA InitTypes == Init => TypeInv
BY LocalAssumption DEF LocalAssumption, Init, TypeInv, TypeOK, Pcs

LEMMA ExitTypes ==
  ASSUME TypeInv, NEW s \in Senders, Exit(s)
  PROVE  /\ pc' \in [Senders -> Pcs]
         /\ job' \in [Senders -> (Snaps \X Dests) \cup {None}]
         /\ read' \in [Senders -> BOOLEAN]
         /\ old' \in [Senders -> SUBSET Snaps]
         /\ \A q \in Senders :
              IF pc'[q] = "idle" THEN job'[q] = None /\ old'[q] = {}
              ELSE job'[q] # None /\ old'[q] \subseteq Snaps \ {job'[q][1]}
BY DEF TypeInv, TypeOK, Exit, Goto, Pcs, Snap

LEMMA JobType ==
  ASSUME TypeInv, NEW s \in Senders, pc[s] # "idle"
  PROVE  job[s] \in Snaps \X Dests /\ Snap(s) \in Snaps /\ Dest(s) \in Dests
BY LocalAssumption DEF LocalAssumption, TypeInv, TypeOK, Snap, Dest

LEMMA FaultType == ASSUME TypeInv, Fault PROVE faults' \in 0 .. MaxFaults
BY LocalAssumption DEF LocalAssumption, TypeInv, TypeOK, Fault

LEMMA ReleaseTypes ==
  ASSUME TypeInv, NEW s \in Senders, TryRelease(s)
  PROVE  held' \subseteq snaps /\ faults' \in 0 .. MaxFaults
BY FaultType DEF TypeInv, TypeOK, TryRelease

(* A run that goes on from one point to the next keeps its types.          *)
LEMMA GotoTypes ==
  ASSUME TypeInv, NEW s \in Senders, pc[s] # "idle",
         NEW l \in Pcs \ {"idle"}, Goto(s, l), UNCHANGED <<job, old>>
  PROVE  /\ pc' \in [Senders -> Pcs]
         /\ \A q \in Senders :
              IF pc'[q] = "idle" THEN job'[q] = None /\ old'[q] = {}
              ELSE job'[q] # None /\ old'[q] \subseteq Snaps \ {job'[q][1]}
BY DEF TypeInv, TypeOK, Goto, Snap

LEMMA StepTypes == TypeInv /\ [Next]_vars => TypeInv'
<1> SUFFICES ASSUME TypeInv, [Next]_vars PROVE TypeInv'
  OBVIOUS
<1> USE LocalAssumption DEF LocalAssumption
<1>1. ASSUME NEW s \in Senders, NEW x \in Snaps, NEW d \in Dests, Begin(s, x, d)
      PROVE  TypeInv'
  <2>1. <<x, d>> \in Snaps \X Dests /\ <<x, d>> # None
    OBVIOUS
  <2>2. pc' \in [Senders -> Pcs]
    BY <1>1 DEF Begin, Goto, TypeInv, TypeOK, Pcs
  <2> QED
    BY <1>1, <2>1, <2>2 DEF Begin, Goto, At, TypeInv, TypeOK, Snap, buckets
<1>2. ASSUME NEW s \in Senders, DropHold(s) PROVE TypeInv'
  BY <1>2, ExitTypes, ReleaseTypes DEF DropHold, TypeInv, TypeOK, Snap, buckets
<1>3. ASSUME NEW s \in Senders, Hold(s) PROVE TypeInv'
  BY <1>3, GotoTypes DEF Hold, At, TypeInv, TypeOK, Snap, Pcs, buckets
<1>4. ASSUME NEW s \in Senders, HoldFails(s) PROVE TypeInv'
  BY <1>4, ExitTypes DEF HoldFails, TypeInv, TypeOK, Snap, buckets
<1>5. ASSUME NEW s \in Senders, ReadStream(s) PROVE TypeInv'
  BY <1>5, GotoTypes DEF ReadStream, At, TypeInv, TypeOK, Snap, Pcs, buckets
<1>6. ASSUME NEW s \in Senders, ReadFails(s) PROVE TypeInv'
  <2>1. faults' \in 0 .. MaxFaults
    BY <1>6, FaultType DEF ReadFails, TypeInv, TypeOK
  <2> QED
    BY <1>6, <2>1, GotoTypes DEF ReadFails, At, TypeInv, TypeOK, Snap, Pcs, buckets
<1>7. ASSUME NEW s \in Senders, Release(s) PROVE TypeInv'
  <2>1. held' \subseteq snaps /\ faults' \in 0 .. MaxFaults
    BY <1>7, ReleaseTypes DEF Release
  <2>2. CASE read[s]
    BY <1>7, <2>1, <2>2, GotoTypes DEF Release, At, TypeInv, TypeOK, Snap, Pcs, buckets
  <2>3. CASE ~read[s]
    BY <1>7, <2>1, <2>3, ExitTypes DEF Release, TypeInv, TypeOK, Snap, buckets
  <2> QED
    BY <2>2, <2>3
<1>8. ASSUME NEW s \in Senders, Commit(s) PROVE TypeInv'
  <2>1. Snap(s) \in Snaps /\ Dest(s) \in Dests
    BY <1>8, JobType DEF Commit, At
  <2>2. /\ archived' \in [Dests -> SUBSET Snaps]
        /\ latest' \in [Dests -> Snaps \cup {None}]
        /\ \A d \in Dests : latest'[d] \in archived'[d] \cup {None}
    BY <1>8, <2>1 DEF Commit, TypeInv, TypeOK
  <2> QED
    BY <1>8, <2>2, GotoTypes DEF Commit, At, TypeInv, TypeOK, Snap, Pcs
<1>9. ASSUME NEW s \in Senders, Bookmark(s) PROVE TypeInv'
  <2>1. Snap(s) \in Snaps
    BY <1>9, JobType DEF Bookmark, At
  <2> QED
    BY <1>9, <2>1, GotoTypes DEF Bookmark, At, TypeInv, TypeOK, Snap, Pcs, buckets
<1>10. ASSUME NEW s \in Senders, NoBookmark(s) PROVE TypeInv'
  <2>1. faults' \in 0 .. MaxFaults
    BY <1>10, FaultType DEF NoBookmark, TypeInv, TypeOK
  <2> QED
    BY <1>10, <2>1, ExitTypes DEF NoBookmark, TypeInv, TypeOK, Snap, buckets
<1>11. ASSUME NEW s \in Senders, ListMarks(s) PROVE TypeInv'
  BY <1>11 DEF ListMarks, At, Goto, TypeInv, TypeOK, Snap, Pcs, buckets
<1>12. ASSUME NEW s \in Senders, Prune(s) PROVE TypeInv'
  <2>1. faults' \in 0 .. MaxFaults
    BY <1>12, FaultType DEF Prune, TypeInv, TypeOK
  <2> QED
    BY <1>12, <2>1 DEF Prune, At, TypeInv, TypeOK, Snap, Pcs, buckets
<1>13. ASSUME NEW s \in Senders, Done(s) PROVE TypeInv'
  BY <1>13, ExitTypes DEF Done, TypeInv, TypeOK, Snap, buckets
<1>14. ASSUME NEW s \in Senders, Stop(s) PROVE TypeInv'
  BY <1>14, ExitTypes, FaultType DEF Stop, TypeInv, TypeOK, Snap, buckets
<1>15. ASSUME NEW x \in Snaps, Destroy(x) PROVE TypeInv'
  BY <1>15 DEF Destroy, TypeInv, TypeOK, Snap, buckets
<1>16. ASSUME NEW d \in Dests, NEW x \in Snaps, Expire(d, x) PROVE TypeInv'
  BY <1>16 DEF Expire, TypeInv, TypeOK, Snap
<1>17. CASE UNCHANGED vars
  BY <1>17 DEF vars, buckets, TypeInv, TypeOK, Snap
<1> QED
  BY <1>1, <1>2, <1>3, <1>4, <1>5, <1>6, <1>7, <1>8, <1>9, <1>10, <1>11, <1>12, <1>13,
     <1>14, <1>15, <1>16, <1>17
  DEF Next, SendNext, RunStep

(* Whatever runs overlap and fail, every variable keeps its type; the hold *)
(* is on a snapshot that exists, and no run prunes its own bookmark.       *)
THEOREM LocalTypes == Spec => []TypeOK
<1>1. TypeInv => TypeOK
  BY DEF TypeInv
<1> QED
  BY <1>1, InitTypes, StepTypes, PTL DEF Spec

----------------------------------------------------------------------------
(* The hold.                                                               *)

(* The step of a run moves no other run.                                   *)
LEMMA OthersStay ==
  ASSUME NEW s \in Senders, NEW q \in Senders, q # s, TypeInv, SendNext(s)
  PROVE  pc'[q] = pc[q] /\ job'[q] = job[q]
<1> DEFINE Goal == pc'[q] = pc[q] /\ job'[q] = job[q]
<1> SUFFICES Goal
  OBVIOUS
<1> pc \in [Senders -> Pcs] /\ job \in [Senders -> (Snaps \X Dests) \cup {None}]
  BY DEF TypeInv, TypeOK
<1>1. ASSUME Exit(s) PROVE Goal
  BY <1>1 DEF Exit, Goto
<1>2. ASSUME NEW l, Goto(s, l), UNCHANGED job PROVE Goal
  BY <1>2 DEF Goto
<1>3. CASE \E x \in Snaps, d \in Dests : Begin(s, x, d)
  BY <1>3 DEF Begin, Goto
<1>4. CASE DropHold(s) \/ HoldFails(s) \/ NoBookmark(s) \/ Stop(s) \/ Done(s)
  BY <1>1, <1>4 DEF DropHold, HoldFails, NoBookmark, Stop, Done
<1>5. CASE Hold(s) \/ ReadStream(s) \/ ReadFails(s)
  BY <1>2, <1>5 DEF Hold, ReadStream, ReadFails
<1>6. CASE Release(s)
  BY <1>1, <1>2, <1>6 DEF Release
<1>7. CASE Commit(s) \/ Bookmark(s) \/ ListMarks(s)
  BY <1>2, <1>7 DEF Commit, Bookmark, ListMarks
<1>8. CASE Prune(s)
  BY <1>8 DEF Prune
<1> QED
  BY <1>3, <1>4, <1>5, <1>6, <1>7, <1>8 DEF SendNext, RunStep

(* Only the drop and the release of a run take a hold, that on its         *)
(* snapshot.                                                               *)
LEMMA HoldTaken ==
  ASSUME NEW s \in Senders, SendNext(s), NEW x \in held \ held'
  PROVE  pc[s] \in {"drop", "release"} /\ x = Snap(s)
<1>1. CASE DropHold(s) \/ Release(s)
  BY <1>1 DEF DropHold, Release, TryRelease, At
<1>2. held \subseteq held' \/ DropHold(s) \/ Release(s)
  BY DEF SendNext, RunStep, Begin, Hold, HoldFails, ReadStream, ReadFails, Commit, Bookmark,
         NoBookmark, ListMarks, Prune, Done, Stop
<1> QED
  BY <1>1, <1>2

LEMMA StepHeld ==
  ASSUME TypeInv, HoldsApart, HeldWhileRead, [Next]_vars
  PROVE  HeldWhileRead'
<1> SUFFICES ASSUME NEW q \in Senders, pc'[q] = "read" PROVE job'[q][1] \in held'
  BY DEF HeldWhileRead, At, Snap
<1>1. ASSUME SendNext(q) PROVE job'[q][1] \in held'
  <2>1. ~Exit(q)
    BY DEF Exit, Goto, TypeInv, TypeOK
  <2>2. ASSUME NEW l \in Pcs \ {"read"} PROVE ~Goto(q, l)
    BY DEF Goto, TypeInv, TypeOK
  <2>3. ~ \E x \in Snaps, d \in Dests : Begin(q, x, d)
    BY <2>2 DEF Begin, Pcs
  <2>4. CASE Hold(q)
    BY <2>4 DEF Hold, Snap
  <2>5. ~Release(q) /\ ~NoBookmark(q) /\ ~Stop(q)
    BY <2>1, <2>2 DEF Release, NoBookmark, Stop, Pcs
  <2>6. ~ReadFails(q)
    BY <2>2 DEF ReadFails, Pcs
  <2>7. ~DropHold(q) /\ ~HoldFails(q) /\ ~Done(q)
    BY <2>1 DEF DropHold, HoldFails, Done
  <2>8. ~ReadStream(q) /\ ~Commit(q) /\ ~Bookmark(q) /\ ~ListMarks(q)
    BY <2>2 DEF ReadStream, Commit, Bookmark, ListMarks, Pcs
  <2>9. ~Prune(q)
    BY DEF Prune, At
  <2> QED
    BY <1>1, <2>3, <2>4, <2>5, <2>6, <2>7, <2>8, <2>9 DEF SendNext, RunStep
<1>2. ASSUME NEW s \in Senders, s # q, SendNext(s) PROVE job'[q][1] \in held'
  <2>1. pc[q] = "read" /\ job'[q] = job[q]
    BY <1>2, OthersStay
  <2>2. Snap(q) \in held
    BY <2>1 DEF HeldWhileRead, At
  <2>3. pc[s] \in {"drop", "release"} => Snap(s) # Snap(q)
    BY <1>2, <2>1 DEF HoldsApart
  <2>4. Snap(q) \in held'
    BY <1>2, <2>2, <2>3, HoldTaken
  <2> QED
    BY <2>1, <2>4 DEF Snap
<1>3. ASSUME NEW x \in Snaps, Destroy(x) PROVE job'[q][1] \in held'
  BY <1>3 DEF Destroy, HeldWhileRead, At, Snap
<1>4. ASSUME NEW d \in Dests, NEW x \in Snaps, Expire(d, x) PROVE job'[q][1] \in held'
  BY <1>4 DEF Expire, HeldWhileRead, At, Snap
<1>5. CASE UNCHANGED vars
  BY <1>5 DEF vars, HeldWhileRead, At, Snap
<1> QED
  BY <1>1, <1>2, <1>3, <1>4, <1>5 DEF Next

----------------------------------------------------------------------------
(* The bookmarks.                                                          *)

LEMMA StepBase ==
  ASSUME TypeInv, PrunesApart, PrunesApart', BaseInv, [Next]_vars
  PROVE  BaseInv'
<1> SUFFICES ASSUME NEW q \in Senders
             PROVE  /\ pc'[q] \in {"bookmark", "listmarks", "prune"} =>
                         /\ latest'[job'[q][2]] = job'[q][1]
                         /\ job'[q][1] \in archived'[job'[q][2]]
                    /\ pc'[q] \in {"listmarks", "prune"} => job'[q][1] \in marks'
  BY DEF BaseInv, Snap, Dest
<1> DEFINE L == {"bookmark", "listmarks", "prune"}
           Goal == /\ pc'[q] \in L => /\ latest'[job'[q][2]] = job'[q][1]
                                      /\ job'[q][1] \in archived'[job'[q][2]]
                   /\ pc'[q] \in {"listmarks", "prune"} => job'[q][1] \in marks'
<1> SUFFICES Goal
  OBVIOUS
<1>1. ASSUME SendNext(q) PROVE Goal
  <2>1. ASSUME Exit(q) PROVE Goal
    BY <2>1 DEF Exit, Goto, TypeInv, TypeOK
  <2>2. ASSUME NEW l \in Pcs \ L, Goto(q, l) PROVE Goal
    BY <2>2 DEF Goto, TypeInv, TypeOK
  <2>3. CASE \E x \in Snaps, d \in Dests : Begin(q, x, d)
    BY <2>2, <2>3 DEF Begin, Pcs
  <2>4. CASE Hold(q) \/ ReadStream(q) \/ ReadFails(q)
    BY <2>2, <2>4 DEF Hold, ReadStream, ReadFails, Pcs
  <2>5. CASE Release(q)
    BY <2>1, <2>2, <2>5 DEF Release, Pcs
  <2>6. CASE NoBookmark(q) \/ Stop(q) \/ DropHold(q) \/ HoldFails(q) \/ Done(q)
    BY <2>1, <2>6 DEF NoBookmark, Stop, DropHold, HoldFails, Done
  <2>7. CASE Commit(q)
    <3>1. Snap(q) \in Snaps /\ Dest(q) \in Dests
      BY <2>7, JobType DEF Commit, At
    <3>2. latest'[Dest(q)] = Snap(q) /\ Snap(q) \in archived'[Dest(q)]
      BY <2>7, <3>1 DEF Commit, TypeInv, TypeOK
    <3>3. pc'[q] = "bookmark" /\ job' = job
      BY <2>7 DEF Commit, Goto, TypeInv, TypeOK
    <3> QED
      BY <3>2, <3>3 DEF Snap, Dest
  <2>8. CASE Bookmark(q)
    <3>1. job'[q][1] \in marks'
      BY <2>8 DEF Bookmark, Snap
    <3> QED
      BY <2>8, <3>1 DEF Bookmark, At, BaseInv, Snap, Dest, buckets
  <2>9. CASE ListMarks(q)
    BY <2>9 DEF ListMarks, At, BaseInv, Snap, Dest, buckets
  <2>10. CASE Prune(q)
    <3>1. old[q] \subseteq Snaps \ {Snap(q)}
      BY <2>10 DEF Prune, At, TypeInv, TypeOK
    <3>2. Snap(q) \in marks'
      BY <2>10, <3>1 DEF Prune, At, BaseInv
    <3> QED
      BY <2>10, <3>2 DEF Prune, At, BaseInv, Snap, Dest, buckets
  <2> QED
    BY <1>1, <2>3, <2>4, <2>5, <2>6, <2>7, <2>8, <2>9, <2>10 DEF SendNext, RunStep
<1>2. ASSUME NEW s \in Senders, q # s, SendNext(s) PROVE Goal
  <2>1. pc'[q] = pc[q] /\ job'[q] = job[q]
    BY <1>2, OthersStay
  <2> SUFFICES ASSUME pc[q] \in L PROVE Goal
    BY <2>1
  <2>2. ~ pc[s] \in L /\ ~ pc'[s] \in L
    BY <1>2, <2>1 DEF PrunesApart
  <2>3. UNCHANGED <<archived, latest>>
    <3>1. ~Commit(s)
      BY <2>2 DEF Commit, Goto, TypeInv, TypeOK
    <3> QED
      BY <1>2, <3>1 DEF SendNext, RunStep, Begin, DropHold, Hold, HoldFails, ReadStream, ReadFails,
         Release, Bookmark, NoBookmark, ListMarks, Prune, Done, Stop, buckets
  <2>4. marks \subseteq marks'
    <3>1. ~Prune(s)
      BY <2>2 DEF Prune, At
    <3> QED
      BY <1>2, <3>1 DEF SendNext, RunStep, Begin, DropHold, Hold, HoldFails, ReadStream, ReadFails,
         Release, Commit, Bookmark, NoBookmark, ListMarks, Done, Stop, buckets
  <2> QED
    BY <2>1, <2>3, <2>4 DEF BaseInv, Snap, Dest
<1>3. ASSUME NEW x \in Snaps, Destroy(x) PROVE Goal
  BY <1>3 DEF Destroy, BaseInv, Snap, Dest, buckets
<1>4. ASSUME NEW d \in Dests, NEW x \in Snaps, Expire(d, x) PROVE Goal
  <2>1. ASSUME pc[q] \in L PROVE job[q][1] \in archived'[job[q][2]]
    <3>1. Dest(q) \in Dests
      BY <2>1, JobType
    <3>2. latest[Dest(q)] = Snap(q) /\ Snap(q) \in archived[Dest(q)]
      BY <2>1 DEF BaseInv
    <3> QED
      BY <1>4, <3>1, <3>2 DEF Expire, TypeInv, TypeOK, Snap, Dest
  <2> QED
    BY <1>4, <2>1 DEF Expire, BaseInv, Snap, Dest
<1>5. CASE UNCHANGED vars
  BY <1>5 DEF vars, BaseInv, Snap, Dest, buckets
<1> QED
  BY <1>1, <1>2, <1>3, <1>4, <1>5 DEF Next

(* A run that prunes keeps its own bookmark, of what its bucket holds last.*)
LEMMA PruneStep ==
  ASSUME TypeInv, BaseInv, NEW s \in Senders, Prune(s)
  PROVE  Dest(s) \in Dests /\ Marked(Dest(s))'
<1>1. Dest(s) \in Dests
  BY JobType DEF Prune, At
<1>2. old[s] \subseteq Snaps \ {Snap(s)}
  BY DEF Prune, At, TypeInv, TypeOK
<1>3. Snap(s) \in marks' /\ Snap(s) \in archived'[Dest(s)]
  BY <1>2 DEF Prune, At, BaseInv, buckets
<1>4. Dest(s)' = Dest(s)
  BY DEF Prune, Dest
<1> QED
  BY <1>1, <1>3, <1>4 DEF Marked

----------------------------------------------------------------------------
(* The theorems.                                                           *)

(* With one run at a time the assumptions on the schedule are met.         *)
THEOREM SoloIsApart == ASSUME OneSender PROVE Spec => ApartSpec
<1>1. HoldsApart' /\ PrunesApart'
  BY DEF OneSender, HoldsApart, PrunesApart
<1>2. [Next]_vars => [Next /\ HoldsApart' /\ PrunesApart']_vars
  BY <1>1
<1> QED
  BY <1>2, PTL DEF Spec, ApartSpec

LEMMA LocalInvariance == ApartSpec => []IInv
<1>1. Init => IInv
  <2>1. Init => HoldsApart /\ PrunesApart /\ HeldWhileRead /\ BaseInv
    BY DEF Init, HoldsApart, PrunesApart, HeldWhileRead, BaseInv, At
  <2> QED
    BY <2>1, InitTypes DEF IInv
<1>2. IInv /\ [Next /\ HoldsApart' /\ PrunesApart']_vars => IInv'
  <2> SUFFICES ASSUME IInv, [Next /\ HoldsApart' /\ PrunesApart']_vars PROVE IInv'
    OBVIOUS
  <2>1. HoldsApart' /\ PrunesApart'
    BY DEF IInv, vars, HoldsApart, PrunesApart, Snap
  <2> QED
    BY <2>1, StepTypes, StepHeld, StepBase DEF IInv
<1> QED
  BY <1>1, <1>2, PTL DEF ApartSpec

(* Whatever fails or is destroyed, and however the runs of other snapshots *)
(* overlap with it, a snapshot carries the hold for as long as it is read, *)
(* and the owner's destroy of it is refused.                               *)
THEOREM HeldThroughout == ApartSpec => []HeldWhileRead
<1>1. IInv => HeldWhileRead
  BY DEF IInv
<1> QED
  BY <1>1, LocalInvariance, PTL

(* For any number of buckets: the run that prunes leaves its own bucket    *)
(* with a base, whether or not there was one to take.                      *)
THEOREM OwnBaseKept ==
  ApartSpec => [][\A s \in Senders : Prune(s) => Marked(Dest(s))']_vars
<1>1. IInv /\ [Next /\ HoldsApart' /\ PrunesApart']_vars =>
        [\A s \in Senders : Prune(s) => Marked(Dest(s))']_vars
  BY PruneStep DEF IInv
<1> QED
  BY <1>1, LocalInvariance, PTL DEF ApartSpec

(* With one bucket, pruning the older bookmarks never takes the last base  *)
(* of the next incremental.                                                *)
THEOREM BaseKept == ASSUME OneDest PROVE ApartSpec => PruneKeepsABase
<1>1. ASSUME IInv, NEW s \in Senders, NEW d \in Dests, Prune(s) PROVE Marked(d)'
  <2>1. Dest(s) = d
    BY <1>1, PruneStep DEF IInv, OneDest
  <2>2. Snap(s) \in marks' /\ Snap(s) \in archived'[d]
    BY <1>1, <2>1 DEF IInv, TypeInv, TypeOK, BaseInv, Prune, At, buckets
  <2> QED
    BY <2>2 DEF Marked
<1>2. IInv /\ [Next /\ HoldsApart' /\ PrunesApart']_vars =>
        [\A s \in Senders, d \in Dests : Prune(s) /\ Marked(d) => Marked(d)']_vars
  BY <1>1
<1> QED
  BY <1>2, LocalInvariance, PTL DEF ApartSpec, PruneKeepsABase
=============================================================================
